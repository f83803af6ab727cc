---------------------- MODULE SettlementFlightProofs ----------------------
(***************************************************************************)
(* Proofs about the transition in flight of Settlement: as long as every   *)
(* transaction is answered there is one at most, its votes do not fail if  *)
(* the contract counts them, two steps only can lose votes and, if no      *)
(* other sequencer settles transitions, the pending mark is set while      *)
(* there is one.                                                           *)
(***************************************************************************)
EXTENDS SettlementProofs, FiniteSetTheorems

\* The transactions whose callback has not yet marked the transition.
Active == {i \in DOMAIN txs : txs[i].waiter \in {"waiting", "promoted"}}

\* No batch is empty (aggregateBatch, MarkStateTransitionBatchFailed).
BatchesFull ==
    /\ \A b \in ag : b.votes # {}
    /\ pag # NoBatch => pag.votes # {}
    /\ stp.pc # "idle" => stp.batch.votes # {}

\* One transition in flight: its batch is the pending one, it is reserved by the
\* on-chain processor or by the callback of its transaction as long as it is in
\* its queue (cleanupEndedProcess may take it out), and the transition processor
\* has no other ready to push.
OneFlight ==
    /\ \A i, j \in Active : i = j
    /\ \A i \in Active : st \subseteq {txs[i].trans} \cap stRes
    /\ ocp.pc # "idle" => Active = {} /\ st \subseteq {ocp.trans} \cap stRes
    /\ \A s, t \in st : s = t
    /\ \A s \in st : pag = s.batch
    /\ st # {} \/ ocp.pc # "idle" \/ Active # {} => pag # NoBatch
    /\ stp.pc = "pending" => st = {} /\ ocp.pc = "idle" /\ Active = {} /\ pag = stp.batch

FlightInv ==
    /\ TypeInv /\ restarts \in Nat /\ BatchesFull
    /\ Answered => OneFlight

----------------------------------------------------------------------------
(* What the node has been told                                             *)

\* A node that crashed or missed an answer did so for ever.
LEMMA AnsweredBefore ==
  ASSUME restarts \in Nat, [Next]_vars
  PROVE  restarts' \in Nat /\ (Answered' => Answered)
<1>1. CASE \E S \in SUBSET Votes : Aggregate(S) \/ ForeignTransition(S)
  BY <1>1 DEF Aggregate, ForeignTransition, faultVars, Answered
<1>2. CASE StpNext
  <2>1. UNCHANGED faultVars
    BY <1>2 DEF StpNext, StpTake, StpLoad, StpCommit, StpProofFails, StpMarkFailed,
                StpSetPendingTx, StpMarkPending, StpPush, StpDone
  <2> QED
    BY <2>1 DEF faultVars, Answered
<1>3. CASE OcpNext
  <2>1. UNCHANGED faultVars
    BY <1>3 DEF OcpNext, OcpTake, OcpCheckRoot, OcpOutdated, OcpSend, OcpMarkFailed
  <2> QED
    BY <2>1 DEF faultVars, Answered
<1>4. ASSUME NEW i \in DOMAIN txs, ExecuteTx(i) \/ CallbackNext(i)
      PROVE  restarts' \in Nat /\ (Answered' => Answered)
  <2>1. CASE CallbackError(i)
    BY <2>1 DEF CallbackError, Answered
  <2>2. CASE ~CallbackError(i)
    <3>1. UNCHANGED faultVars
      BY <1>4, <2>2 DEF ExecuteTx, CallbackNext, CallbackPromote, CallbackDone, CallbackPrune
    <3> QED
      BY <3>1 DEF faultVars, Answered
  <2> QED
    BY <2>1, <2>2
<1>5. CASE RootEvent \/ RepeatEvents \/ SyncApply \/ UNCHANGED vars
  <2>1. UNCHANGED faultVars
    BY <1>5 DEF RootEvent, RepeatEvents, SyncApply, vars
  <2> QED
    BY <2>1 DEF faultVars, Answered
<1>6. CASE PhaseChange \/ CheckAndRegister \/ CleanupEndedProcess
  <2>1. UNCHANGED faultVars
    BY <1>6 DEF PhaseChange, CheckAndRegister, CleanupEndedProcess
  <2> QED
    BY <2>1 DEF faultVars, Answered
<1>7. CASE ReleaseStaleReservations
  BY <1>7 DEF ReleaseStaleReservations, Answered
<1>8. CASE Restart
  BY <1>8 DEF Restart, Answered
<1> QED
  BY <1>1, <1>2, <1>3, <1>4, <1>5, <1>6, <1>7, <1>8 DEF Next

----------------------------------------------------------------------------
(* No batch is empty                                                       *)

\* A batch that MarkStateTransitionBatchFailed queues again is not empty.
LEMMA FailedFull ==
  ASSUME BatchesFull, NEW s, MarkStateTransitionBatchFailed(s), stp' = stp
  PROVE  BatchesFull'
<1>1. pag' = pag \/ pag' = NoBatch
  BY DEF MarkStateTransitionBatchFailed, queueVars
<1>2. ag' = ag \/ \E b : b.votes # {} /\ ag' = ag \cup {b}
  BY DEF MarkStateTransitionBatchFailed, queueVars
<1> QED
  BY <1>1, <1>2 DEF BatchesFull

\* aggregateBatch makes batches of the configured sizes, and whatever puts a
\* batch back leaves some vote in it.
LEMMA FullStep ==
  ASSUME TypeInv, BatchesFull, [Next]_vars
  PROVE  BatchesFull'
<1> USE DEF BatchesFull
<1>1. ASSUME NEW S \in SUBSET Votes, Aggregate(S) PROVE BatchesFull'
  <2>1. S # {}
    BY <1>1, SizeAssumption, FS_EmptySet DEF Aggregate
  <2> QED
    BY <1>1, <2>1 DEF Aggregate
<1>2. ASSUME NEW S \in SUBSET Votes, ForeignTransition(S) PROVE BatchesFull'
  BY <1>2 DEF ForeignTransition, queueVars
<1>3. ASSUME NEW b \in ag, StpTake(b) PROVE BatchesFull'
  BY <1>3 DEF StpTake, StpIdle
<1>4. CASE StpLoad \/ StpCommit \/ StpProofFails \/ StpSetPendingTx
  <2>1. stp.pc # "idle" /\ stp'.batch = stp.batch
    BY <1>4 DEF StpLoad, StpCommit, StpProofFails, StpSetPendingTx, TypeInv, StpTypes
  <2> QED
    BY <1>4, <2>1 DEF StpLoad, StpCommit, StpProofFails, StpSetPendingTx, queueVars
<1>5. CASE StpMarkFailed \/ StpDone
  BY <1>5 DEF StpMarkFailed, MarkAggregatorBatchFailed, StpDone, StpIdle
<1>6. CASE StpMarkPending
  <2>1. \/ pag' = stp.batch /\ stp'.batch = stp.batch
        \/ stp' = StpIdle /\ pag' = pag
    BY <1>6 DEF StpMarkPending, TypeInv, StpTypes
  <2> QED
    BY <1>6, <2>1 DEF StpMarkPending, StpIdle
<1>7. CASE StpPush
  <2>1. stp'.batch = stp.batch
    BY <1>7 DEF StpPush, TypeInv, StpTypes
  <2> QED
    BY <1>7, <2>1 DEF StpPush
<1>8. CASE OcpMarkFailed
  BY <1>8, FailedFull DEF OcpMarkFailed
<1>9. CASE OcpOutdated
  BY <1>9 DEF OcpOutdated, MarkStateTransitionBatchOutdated
<1>10. CASE OcpCheckRoot \/ OcpSend \/ \E s \in st : OcpTake(s)
  BY <1>10 DEF OcpCheckRoot, OcpSend, OcpTake, queueVars
<1>11. ASSUME NEW i \in DOMAIN txs, CallbackError(i) PROVE BatchesFull'
  BY <1>11, FailedFull DEF CallbackError
<1>12. ASSUME NEW i \in DOMAIN txs, CallbackNext(i) \/ ExecuteTx(i), ~CallbackError(i)
       PROVE  BatchesFull'
  BY <1>12 DEF CallbackNext, ExecuteTx, CallbackPromote, CallbackDone, CallbackPrune,
               MarkStateTransitionBatchDone, queueVars
<1>13. CASE \/ RootEvent \/ RepeatEvents \/ SyncApply \/ PhaseChange \/ CheckAndRegister
            \/ UNCHANGED vars
  BY <1>13 DEF RootEvent, RepeatEvents, SyncApply, PhaseChange, CheckAndRegister, vars, queueVars
<1>14. CASE CleanupEndedProcess \/ ReleaseStaleReservations
  BY <1>14 DEF CleanupEndedProcess, ReleaseStaleReservations
<1>15. CASE Restart
  BY <1>15 DEF Restart, StpIdle
<1> QED
  BY <1>1, <1>2, <1>3, <1>4, <1>5, <1>6, <1>7, <1>8, <1>9, <1>10, <1>11, <1>12, <1>13, <1>14,
     <1>15 DEF Next, StpNext, OcpNext

----------------------------------------------------------------------------
(* One transition in flight                                                *)

\* A step that neither starts nor ends a flight.
LEMMA FlightKept ==
  ASSUME OneFlight, UNCHANGED <<st, stRes, pag>>, Active' = Active,
         \A i \in Active : txs'[i].trans = txs[i].trans,
         ocp'.pc # "idle" => ocp.pc # "idle" /\ ocp'.trans = ocp.trans,
         stp'.pc = "pending" => stp' = stp
  PROVE  OneFlight'
BY DEF OneFlight

\* A step that ends the flight, with whatever it leaves in the queue removed.
LEMMA FlightEnds ==
  ASSUME st' = {}, Active' = {}, ocp'.pc = "idle", stp' = stp, stp.pc # "pending"
  PROVE  OneFlight'
BY DEF OneFlight

\* What a callback does to the set of transactions that are waited for.
LEMMA ActiveStep ==
  ASSUME TxTypes, NEW i \in Active, NEW x \in {"promoted", "prune"},
         txs' = [txs EXCEPT ![i].waiter = x]
  PROVE  /\ x = "promoted" => Active' = Active
         /\ x = "prune" => Active' = Active \ {i}
         /\ \A j \in Active : txs'[j].trans = txs[j].trans
<1>0. i \in DOMAIN txs
  BY DEF Active
<1>1. /\ DOMAIN txs' = DOMAIN txs /\ txs'[i] = [txs[i] EXCEPT !.waiter = x]
      /\ \A j \in DOMAIN txs \ {i} : txs'[j] = txs[j]
  BY <1>0, TxWaiterUpdate
<1>2. txs'[i].trans = txs[i].trans /\ txs'[i].waiter = x
  BY <1>0, <1>1, TxFields DEF Tx
<1> QED
  BY <1>1, <1>2 DEF Active

\* Each step of a processor, a callback, the process monitor, a sweep or a
\* crash, in a node that was told of every transaction.
LEMMA FlightStep ==
  ASSUME TypeInv, restarts \in Nat, BatchesFull, OneFlight, [Next]_vars, Answered'
  PROVE  OneFlight'
<1>0. TxTypes /\ StpTypes /\ OcpTypes
  BY DEF TypeInv
<1> USE <1>0
<1>1. CASE \E S \in SUBSET Votes : Aggregate(S) \/ ForeignTransition(S)
  BY <1>1, FlightKept DEF Aggregate, ForeignTransition, chainVars, queueVars, Active
<1>2. ASSUME NEW b \in ag, StpTake(b) PROVE OneFlight'
  <2>1. stp'.pc = "taken"
    BY <1>2 DEF StpTake, StpIdle
  <2> QED
    BY <1>2, <2>1, FlightKept DEF StpTake, chainVars, Active
<1>3. CASE StpLoad \/ StpCommit \/ StpProofFails \/ StpSetPendingTx
  <2>1. stp'.pc # "pending"
    BY <1>3 DEF StpLoad, StpCommit, StpProofFails, StpSetPendingTx, StpTypes
  <2> QED
    BY <1>3, <2>1, FlightKept
    DEF StpLoad, StpCommit, StpProofFails, StpSetPendingTx, chainVars, queueVars, Active
<1>4. CASE StpMarkFailed \/ StpDone
  <2>1. stp'.pc = "idle"
    BY <1>4 DEF StpMarkFailed, StpDone, StpIdle
  <2> QED
    BY <1>4, <2>1, FlightKept
    DEF StpMarkFailed, StpDone, MarkAggregatorBatchFailed, chainVars, Active
<1>5. CASE StpMarkPending
  <2>1. CASE pag = NoBatch
    <3>1. stp'.pc = "pending" /\ stp'.batch = stp.batch /\ pag' = stp.batch
      BY <1>5, <2>1 DEF StpMarkPending, StpTypes
    <3>2. UNCHANGED <<st, stRes, ocp, txs>>
      BY <1>5 DEF StpMarkPending, chainVars
    <3>3. st = {} /\ ocp.pc = "idle" /\ Active = {} /\ Active' = Active
      BY <2>1, <3>2 DEF OneFlight, Active
    <3> QED
      BY <3>1, <3>2, <3>3 DEF OneFlight
  <2>2. CASE pag # NoBatch
    <3>1. stp'.pc = "idle"
      BY <1>5, <2>2 DEF StpMarkPending, StpIdle
    <3> QED
      BY <1>5, <2>2, <3>1, FlightKept DEF StpMarkPending, chainVars, Active
  <2> QED
    BY <2>1, <2>2
<1>6. CASE StpPush
  <2> DEFINE new == [batch |-> stp.batch, before |-> stp.before, after |-> stp.after]
  <2>1. /\ stp.pc = "pending" /\ stp'.pc = "pushed" /\ st' = st \cup {new}
        /\ new.batch = stp.batch /\ UNCHANGED <<stRes, pag, ocp, txs>>
    BY <1>6 DEF StpPush, StpTypes, chainVars
  <2> HIDE DEF new
  <2>2. stp.batch # NoBatch
    BY <2>1 DEF BatchesFull, NoBatch
  <2>3. st = {} /\ ocp.pc = "idle" /\ Active = {} /\ Active' = Active /\ pag = stp.batch
    BY <2>1 DEF OneFlight, Active
  <2> QED
    BY <2>1, <2>2, <2>3 DEF OneFlight
<1>7. ASSUME NEW s \in st, OcpTake(s) PROVE OneFlight'
  <2>1. /\ ocp'.trans = s /\ s \notin stRes /\ stRes' = stRes \cup {s}
        /\ UNCHANGED <<st, pag, stp, txs>>
    BY <1>7 DEF OcpTake, OcpIdle, chainVars
  <2>2. Active = {} /\ Active' = Active
    BY <2>1 DEF OneFlight, Active
  <2> QED
    BY <2>1, <2>2 DEF OneFlight
<1>8. CASE OcpCheckRoot
  <2>1. ocp.pc # "idle" /\ (ocp'.pc # "idle" => ocp'.trans = ocp.trans)
    BY <1>8 DEF OcpCheckRoot, OcpIdle, OcpTypes
  <2> QED
    BY <1>8, <2>1, FlightKept DEF OcpCheckRoot, queueVars, chainVars, Active
<1>9. CASE OcpOutdated \/ OcpMarkFailed
  <2>1. ocp.pc # "idle" /\ ocp'.pc = "idle" /\ stp' = stp /\ txs' = txs
    BY <1>9 DEF OcpOutdated, OcpMarkFailed, OcpIdle, chainVars
  <2>2. st' = st \ {ocp.trans}
    BY <1>9 DEF OcpOutdated, OcpMarkFailed, MarkStateTransitionBatchOutdated,
                MarkStateTransitionBatchFailed, queueVars
  <2>3. st' = {} /\ Active' = {} /\ stp.pc # "pending"
    BY <2>1, <2>2 DEF OneFlight, Active
  <2> QED
    BY <2>1, <2>3, FlightEnds
<1>10. CASE OcpSend
  <2>1. UNCHANGED <<st, stRes, pag, stp>> /\ ocp.pc # "idle"
    BY <1>10 DEF OcpSend, queueVars
  <2>2. CASE txs' = txs
    <3>1. ocp'.pc # "idle" => ocp'.trans = ocp.trans
      BY <1>10 DEF OcpSend, OcpIdle, OcpTypes
    <3> QED
      BY <2>1, <2>2, <3>1, FlightKept DEF Active
  <2>3. CASE txs' # txs
    <3> DEFINE tx == [trans |-> ocp.trans, state |-> "pool", waiter |-> "waiting"]
    <3>1. txs' = Append(txs, tx) /\ ocp'.pc = "idle"
      BY <1>10, <2>3 DEF OcpSend, OcpIdle
    <3>2. tx \in Tx
      BY DEF OcpTypes, Tx
    <3>3. /\ DOMAIN txs' = DOMAIN txs \cup {Len(txs) + 1} /\ txs'[Len(txs) + 1] = tx
          /\ \A i \in DOMAIN txs : txs'[i] = txs[i]
      BY <3>1, <3>2 DEF TxTypes
    <3>4. Active' = Active \cup {Len(txs) + 1} /\ txs'[Len(txs) + 1].trans = ocp.trans
      BY <3>3 DEF Active
    <3> QED
      BY <2>1, <3>1, <3>4 DEF OneFlight
  <2> QED
    BY <2>2, <2>3
<1>11. ASSUME NEW i \in DOMAIN txs, ExecuteTx(i) PROVE OneFlight'
  <2>1. PICK x \in {"mined", "reverted"} : txs' = [txs EXCEPT ![i].state = x]
    BY <1>11 DEF ExecuteTx
  <2>2. /\ DOMAIN txs' = DOMAIN txs /\ txs'[i] = [txs[i] EXCEPT !.state = x]
        /\ \A j \in DOMAIN txs \ {i} : txs'[j] = txs[j]
    BY <2>1, TxStateUpdate
  <2>3. txs'[i].trans = txs[i].trans /\ txs'[i].waiter = txs[i].waiter
    BY <2>2, TxFields DEF Tx
  <2>4. Active' = Active /\ \A j \in Active : txs'[j].trans = txs[j].trans
    BY <2>2, <2>3 DEF Active
  <2> QED
    BY <1>11, <2>4, FlightKept DEF ExecuteTx, queueVars
<1>12. ASSUME NEW i \in DOMAIN txs, CallbackError(i) \/ CallbackDone(i) PROVE OneFlight'
  <2>1. i \in Active /\ txs' = [txs EXCEPT ![i].waiter = "prune"] /\ stp' = stp /\ ocp' = ocp
    BY <1>12 DEF CallbackError, CallbackDone, Active
  <2>2. st' = st \ {txs[i].trans}
    BY <1>12 DEF CallbackError, CallbackDone, MarkStateTransitionBatchFailed,
                 MarkStateTransitionBatchDone, queueVars
  <2>3. Active' = Active \ {i}
    BY <2>1, ActiveStep
  <2>4. st' = {} /\ Active' = {} /\ ocp.pc = "idle" /\ stp.pc # "pending"
    BY <2>1, <2>2, <2>3 DEF OneFlight
  <2> QED
    BY <2>1, <2>4, FlightEnds
<1>13. ASSUME NEW i \in DOMAIN txs, CallbackPromote(i) PROVE OneFlight'
  <2>1. i \in Active /\ txs' = [txs EXCEPT ![i].waiter = "promoted"]
    BY <1>13 DEF CallbackPromote, Active
  <2>2. Active' = Active /\ \A j \in Active : txs'[j].trans = txs[j].trans
    BY <2>1, ActiveStep
  <2> QED
    BY <1>13, <2>2, FlightKept DEF CallbackPromote, queueVars
<1>14. ASSUME NEW i \in DOMAIN txs, CallbackPrune(i) PROVE OneFlight'
  <2>1. /\ DOMAIN txs' = DOMAIN txs /\ txs'[i] = [txs[i] EXCEPT !.waiter = "gone"]
        /\ \A j \in DOMAIN txs \ {i} : txs'[j] = txs[j]
    BY <1>14, TxWaiterUpdate DEF CallbackPrune
  <2>2. txs'[i].waiter = "gone"
    BY <2>1, TxFields DEF Tx
  <2>3. Active' = Active /\ \A j \in Active : txs'[j].trans = txs[j].trans
    BY <1>14, <2>1, <2>2 DEF CallbackPrune, Active
  <2> QED
    BY <1>14, <2>3, FlightKept DEF CallbackPrune
<1>15. CASE \/ RootEvent \/ RepeatEvents \/ SyncApply \/ PhaseChange \/ CheckAndRegister
            \/ UNCHANGED vars
  <2>1. UNCHANGED <<st, stRes, pag, txs, ocp, stp>>
    BY <1>15 DEF RootEvent, RepeatEvents, SyncApply, PhaseChange, CheckAndRegister, vars,
                 queueVars, chainVars
  <2> QED
    BY <2>1, FlightKept DEF Active
<1>16. CASE CleanupEndedProcess
  <2>1. st' = {} /\ UNCHANGED <<pag, txs, ocp, stp>>
    BY <1>16 DEF CleanupEndedProcess, chainVars
  <2>2. Active' = Active
    BY <2>1 DEF Active
  <2> QED
    BY <2>1, <2>2 DEF OneFlight
<1>17. CASE ReleaseStaleReservations
  <2>1. PICK S \in SUBSET (stRes \ Held.st) :
          /\ stRes' = stRes \ S
          /\ waitFailed' = (waitFailed \/ \E i \in DOMAIN txs :
                                txs[i].waiter = "waiting" /\ txs[i].trans \in S)
    BY <1>17 DEF ReleaseStaleReservations
  <2>2. UNCHANGED <<st, pag, txs, ocp, stp>>
    BY <1>17 DEF ReleaseStaleReservations, chainVars
  <2>3. ocp.trans \notin S /\ \A i \in Active : txs[i].waiter = "promoted" => txs[i].trans \notin S
    BY <2>1 DEF Held, Active
  <2>4. \A i \in Active : txs[i].waiter = "waiting" => txs[i].trans \notin S
    BY <2>1 DEF Answered, Active
  <2>5. \A i \in Active : txs[i].trans \notin S
    BY <2>3, <2>4 DEF Active
  <2>6. Active' = Active
    BY <2>2 DEF Active
  <2> QED
    BY <2>1, <2>2, <2>3, <2>5, <2>6 DEF OneFlight
<1>18. CASE Restart
  BY <1>18 DEF Restart, Answered
<1> QED
  BY <1>1, <1>2, <1>3, <1>4, <1>5, <1>6, <1>7, <1>8, <1>9, <1>10, <1>11, <1>12, <1>13, <1>14,
     <1>15, <1>16, <1>17, <1>18 DEF Next, StpNext, OcpNext, CallbackNext

\* FlightInv holds in every reachable state of Settlement.
LEMMA FlightInvariance == Spec => []FlightInv
<1>1. Init => FlightInv
  <2> SUFFICES ASSUME Init PROVE FlightInv
    OBVIOUS
  <2>1. BatchesFull /\ restarts \in Nat
    BY DEF Init, BatchesFull, StpIdle
  <2>2. OneFlight
    BY DEF Init, OneFlight, Active, StpIdle, OcpIdle
  <2> QED
    BY <2>1, <2>2, TypeInit DEF FlightInv
<1>2. FlightInv /\ [Next]_vars => FlightInv'
  <2> SUFFICES ASSUME FlightInv, [Next]_vars PROVE FlightInv'
    OBVIOUS
  <2>1. TypeInv' /\ BatchesFull' /\ restarts' \in Nat /\ (Answered' => Answered)
    BY TypeStep, FullStep, AnsweredBefore DEF FlightInv
  <2>2. Answered' => OneFlight'
    BY <2>1, FlightStep DEF FlightInv
  <2> QED
    BY <2>1, <2>2 DEF FlightInv
<1> QED
  BY <1>1, <1>2, PTL DEF Spec

\* A set whose members are all the same has at most one.
LEMMA AtMostOne ==
  ASSUME NEW S, \A s, t \in S : s = t
  PROVE  Cardinality(S) <= 1
<1>1. CASE S = {}
  BY <1>1, FS_EmptySet
<1>2. CASE S # {}
  <2>1. PICK s \in S : S = {s}
    BY <1>2
  <2> QED
    BY <2>1, FS_Singleton
<1> QED
  BY <1>1, <1>2

\* One pending batch per process (MarkAggregatorBatchPending), and the order in
\* which the two processors and the callbacks take and release it, leave at most
\* one transition waiting for the contract, also when proofs or sends fail, other
\* sequencers outdate transitions, events are repeated and the process is paused,
\* ended or cleaned up.
THEOREM TransitionsOneByOne == Spec => []OneTransition
<1>1. FlightInv => OneTransition
  BY AtMostOne DEF FlightInv, OneFlight, OneTransition
<1> QED
  BY <1>1, FlightInvariance, PTL

----------------------------------------------------------------------------
(* The roots of this node's transitions                                    *)

\* If the contract has had the root r since its first one, a mined transaction
\* of this node led to it.
Accounted(r, roots, sent) ==
    \A n \in 2 .. Len(roots) :
        roots[n] = r => \E i \in DOMAIN sent : sent[i].state = "mined" /\ sent[i].trans.after = r

\* No other sequencer reaches a root of this node's transitions.
OwnRoots ==
    /\ \A i \in DOMAIN txs : Accounted(txs[i].trans.after, chain, txs)
    /\ \A s \in st : Accounted(s.after, chain, txs)
    /\ ocp.pc # "idle" => Accounted(ocp.trans.after, chain, txs)
    /\ StpProved => Accounted(stp.after, chain, txs)

\* The transactions that were sent before the step.
TxLineage ==
    /\ \A i \in DOMAIN txs : /\ i \in DOMAIN txs' /\ txs'[i].trans = txs[i].trans
                             /\ txs[i].state = "mined" => txs'[i].state = "mined"
                             /\ txs[i].state = "reverted" => txs'[i].state = "reverted"
    /\ \A i \in DOMAIN txs' : i \in DOMAIN txs \/ (ocp.pc # "idle" /\ txs'[i].trans = ocp.trans)

\* Where the transitions that are held after a step come from.
Lineage ==
    /\ TxLineage
    /\ \A s \in st' : s \in st \/ (StpProved /\ s.after = stp.after)
    /\ st' \subseteq st \/ StpPush
    /\ ocp'.pc # "idle" => \/ ocp.pc # "idle" /\ ocp'.trans = ocp.trans
                           \/ ocp'.trans \in st
    /\ StpProved' => \/ StpProved /\ stp'.after = stp.after
                     \/ stp'.after = lastRoot + 1 /\ chain' = chain

\* Where a new root of the contract comes from.
ChainLineage ==
    \/ chain' = chain
    \/ chain' = Append(chain, lastRoot + 1)
    \/ \E i \in DOMAIN txs : txs'[i].state = "mined" /\ chain' = Append(chain, txs'[i].trans.after)

\* Transitions go from the transition processor to their queue, from there to
\* the on-chain processor and into transactions, and nowhere else.
LEMMA LineageStep ==
  ASSUME TypeInv, [Next]_vars
  PROVE  Lineage /\ ChainLineage
<1>0. TxTypes /\ StpTypes /\ OcpTypes
  BY DEF TypeInv
<1> USE <1>0 DEF Lineage, ChainLineage, TxLineage
<1>1. CASE \E S \in SUBSET Votes : Aggregate(S) \/ ForeignTransition(S)
  BY <1>1 DEF Aggregate, ForeignTransition, chainVars, queueVars, StpProved
<1>2. CASE (\E b \in ag : StpTake(b)) \/ StpMarkFailed \/ StpDone
  <2>1. stp'.pc \in {"taken", "idle"}
    <3>1. (\E b \in ag : StpTake(b)) => stp'.pc = "taken"
      BY DEF StpTake, StpIdle
    <3>2. StpMarkFailed \/ StpDone => stp'.pc = "idle"
      BY DEF StpMarkFailed, StpDone, StpIdle
    <3> QED
      BY <1>2, <3>1, <3>2
  <2>2. ~StpProved'
    BY <2>1 DEF StpProved
  <2> QED
    BY <1>2, <2>2 DEF StpTake, StpMarkFailed, StpDone, MarkAggregatorBatchFailed, chainVars
<1>3. CASE StpLoad \/ StpProofFails
  <2>1. ~StpProved'
    BY <1>3 DEF StpLoad, StpProofFails, StpProved, StpTypes
  <2> QED
    BY <1>3, <2>1 DEF StpLoad, StpProofFails, chainVars, queueVars
<1>4. CASE StpCommit
  <2>1. stp'.after = lastRoot + 1
    BY <1>4 DEF StpCommit, StpTypes
  <2> QED
    BY <1>4, <2>1 DEF StpCommit, chainVars, queueVars
<1>5. CASE StpSetPendingTx \/ StpMarkPending
  <2>1. StpProved /\ (StpProved' => stp'.after = stp.after)
    BY <1>5 DEF StpSetPendingTx, StpMarkPending, StpProved, StpTypes, StpIdle
  <2> QED
    BY <1>5, <2>1 DEF StpSetPendingTx, StpMarkPending, chainVars
<1>6. CASE StpPush
  <2>1. StpProved /\ stp'.after = stp.after
    BY <1>6 DEF StpPush, StpProved, StpTypes
  <2> QED
    BY <1>6, <2>1 DEF StpPush, chainVars
<1>7. ASSUME NEW s \in st, OcpTake(s) PROVE Lineage /\ ChainLineage
  BY <1>7 DEF OcpTake, chainVars, StpProved
<1>8. CASE OcpCheckRoot
  <2>1. ocp.pc # "idle" /\ (ocp'.pc # "idle" => ocp'.trans = ocp.trans)
    BY <1>8 DEF OcpCheckRoot, OcpIdle, OcpTypes
  <2> QED
    BY <1>8, <2>1 DEF OcpCheckRoot, chainVars, queueVars, StpProved
<1>9. CASE OcpOutdated \/ OcpMarkFailed
  <2>1. ocp'.pc = "idle"
    BY <1>9 DEF OcpOutdated, OcpMarkFailed, OcpIdle
  <2>2. st' \subseteq st
    BY <1>9, FailedSettlesNothing, OutdatedSettlesNothing DEF OcpOutdated, OcpMarkFailed
  <2> QED
    BY <1>9, <2>1, <2>2 DEF OcpOutdated, OcpMarkFailed, chainVars, StpProved
<1>10. CASE OcpSend
  <2>1. UNCHANGED <<chain, st, stp>> /\ ocp.pc # "idle"
    BY <1>10 DEF OcpSend, queueVars
  <2>2. ocp'.pc # "idle" => ocp'.trans = ocp.trans
    BY <1>10 DEF OcpSend, OcpIdle, OcpTypes
  <2>3. TxLineage
    <3>1. CASE txs' = txs
      BY <3>1
    <3>2. CASE txs' # txs
      <4> DEFINE tx == [trans |-> ocp.trans, state |-> "pool", waiter |-> "waiting"]
      <4>1. txs' = Append(txs, tx)
        BY <1>10, <3>2 DEF OcpSend
      <4>2. tx \in Tx
        BY DEF OcpTypes, Tx
      <4>3. /\ DOMAIN txs' = DOMAIN txs \cup {Len(txs) + 1} /\ txs'[Len(txs) + 1] = tx
            /\ \A i \in DOMAIN txs : txs'[i] = txs[i]
        BY <4>1, <4>2 DEF TxTypes
      <4> QED
        BY <2>1, <4>3
    <3> QED
      BY <3>1, <3>2
  <2> QED
    BY <2>1, <2>2, <2>3 DEF StpProved
<1>11. ASSUME NEW i \in DOMAIN txs, ExecuteTx(i) PROVE Lineage /\ ChainLineage
  <2>1. PICK x \in {"mined", "reverted"} :
          /\ txs' = [txs EXCEPT ![i].state = x]
          /\ chain' = chain \/ (x = "mined" /\ chain' = Append(chain, txs[i].trans.after))
    BY <1>11 DEF ExecuteTx
  <2>2. /\ DOMAIN txs' = DOMAIN txs /\ txs'[i] = [txs[i] EXCEPT !.state = x]
        /\ \A j \in DOMAIN txs \ {i} : txs'[j] = txs[j]
    BY <2>1, TxStateUpdate
  <2>3. txs'[i].trans = txs[i].trans /\ txs'[i].state = x
    BY <2>2, TxFields DEF Tx
  <2>4. TxLineage
    BY <1>11, <2>2, <2>3 DEF ExecuteTx
  <2>5. ChainLineage
    BY <2>1, <2>3
  <2> QED
    BY <1>11, <2>4, <2>5 DEF ExecuteTx, queueVars, StpProved
<1>12. ASSUME NEW i \in DOMAIN txs, CallbackNext(i) PROVE Lineage /\ ChainLineage
  <2>1. PICK x \in {"promoted", "prune", "gone"} : txs' = [txs EXCEPT ![i].waiter = x]
    BY <1>12 DEF CallbackNext, CallbackError, CallbackPromote, CallbackDone, CallbackPrune
  <2>2. /\ DOMAIN txs' = DOMAIN txs /\ txs'[i] = [txs[i] EXCEPT !.waiter = x]
        /\ \A j \in DOMAIN txs \ {i} : txs'[j] = txs[j]
    BY <2>1, TxWaiterUpdate
  <2>3. txs'[i].trans = txs[i].trans /\ txs'[i].state = txs[i].state
    BY <2>2, TxFields DEF Tx
  <2>4. TxLineage
    BY <2>2, <2>3
  <2>5. st' \subseteq st
    BY <1>12, FailedSettlesNothing
    DEF CallbackNext, CallbackError, CallbackPromote, CallbackDone, CallbackPrune,
        MarkStateTransitionBatchDone, queueVars
  <2>6. UNCHANGED <<chain, stp, ocp>>
    BY <1>12 DEF CallbackNext, CallbackError, CallbackPromote, CallbackDone, CallbackPrune
  <2> QED
    BY <2>4, <2>5, <2>6 DEF StpProved
<1>13. CASE \/ RootEvent \/ RepeatEvents \/ SyncApply \/ PhaseChange \/ CheckAndRegister
            \/ CleanupEndedProcess \/ ReleaseStaleReservations \/ UNCHANGED vars
  <2>1. UNCHANGED <<chain, txs, stp, ocp>> /\ st' \subseteq st
    BY <1>13 DEF RootEvent, RepeatEvents, SyncApply, PhaseChange, CheckAndRegister,
                 CleanupEndedProcess, ReleaseStaleReservations, vars, queueVars, chainVars
  <2> QED
    BY <2>1 DEF StpProved
<1>14. CASE Restart
  <2>1. /\ UNCHANGED <<chain, st>> /\ stp' = StpIdle /\ ocp' = OcpIdle
        /\ DOMAIN txs' = DOMAIN txs
        /\ \A i \in DOMAIN txs : txs'[i] = [txs[i] EXCEPT !.waiter = "gone"]
    BY <1>14 DEF Restart, TxTypes
  <2>2. \A i \in DOMAIN txs : txs'[i].trans = txs[i].trans /\ txs'[i].state = txs[i].state
    BY <2>1, TxFields DEF Tx
  <2> QED
    BY <2>1, <2>2 DEF StpProved, StpIdle, OcpIdle
<1> QED
  BY <1>1, <1>2, <1>3, <1>4, <1>5, <1>6, <1>7, <1>8, <1>9, <1>10, <1>11, <1>12, <1>13, <1>14
  DEF Next, StpNext, OcpNext

\* A step adds no root of somebody else's to the roots of this node.
LEMMA OwnStep ==
  ASSUME IInv, OwnRoots, [Next]_vars
  PROVE  OwnRoots'
<1>0. /\ Lineage /\ TxLineage /\ ChainLineage /\ lastRoot \in Nat
      /\ chain \in Seq(Roots) /\ Len(chain) \in Nat
      /\ \A k \in 1 .. Len(chain) : chain[k] \in 0 .. lastRoot
  BY LineageStep, BoundAssumption
  DEF IInv, TypeInv, ChainTypes, RootsCreated, Roots, Lineage
<1>1. ASSUME NEW r \in 0 .. lastRoot, Accounted(r, chain, txs)
      PROVE  Accounted(r, chain', txs')
  <2>1. ASSUME NEW i \in DOMAIN txs, txs[i].state = "mined", txs[i].trans.after = r
        PROVE  \E j \in DOMAIN txs' : txs'[j].state = "mined" /\ txs'[j].trans.after = r
    BY <1>0, <2>1 DEF TxLineage
  <2>2. CASE chain' = chain
    BY <1>1, <2>1, <2>2 DEF Accounted
  <2>3. ASSUME NEW q, chain' = Append(chain, q), q # r PROVE Accounted(r, chain', txs')
    <3>1. ASSUME NEW n \in 2 .. Len(chain'), chain'[n] = r PROVE n \in 2 .. Len(chain) /\ chain[n] = r
      BY <1>0, <2>3, <3>1
    <3> QED
      BY <1>1, <2>1, <3>1 DEF Accounted
  <2>4. ASSUME NEW i \in DOMAIN txs, txs'[i].state = "mined", txs'[i].trans.after = r
        PROVE  Accounted(r, chain', txs')
    BY <1>0, <2>4 DEF Accounted, TxLineage
  <2>5. r # lastRoot + 1
    BY <1>0
  <2> QED
    <3>1. CASE chain' = chain \/ chain' = Append(chain, lastRoot + 1)
      BY <2>2, <2>3, <2>5, <3>1
    <3>2. ASSUME NEW i \in DOMAIN txs, txs'[i].state = "mined",
                 chain' = Append(chain, txs'[i].trans.after)
          PROVE  Accounted(r, chain', txs')
      BY <2>3, <2>4, <3>2
    <3> QED
      BY <1>0, <3>1, <3>2 DEF ChainLineage
<1>2. /\ \A i \in DOMAIN txs : txs[i].trans.after \in 0 .. lastRoot
      /\ \A s \in st : s.after \in 0 .. lastRoot
      /\ ocp.trans.after \in 0 .. lastRoot
      /\ StpProved => stp.after \in 0 .. lastRoot
  BY DEF IInv, TransitionsInsert, Inserts
<1>3. \A i \in DOMAIN txs' : Accounted(txs'[i].trans.after, chain', txs')
  BY <1>0, <1>1, <1>2 DEF TxLineage, OwnRoots
<1>4. \A s \in st' : Accounted(s.after, chain', txs')
  BY <1>0, <1>1, <1>2 DEF Lineage, OwnRoots
<1>5. ocp'.pc # "idle" => Accounted(ocp'.trans.after, chain', txs')
  BY <1>0, <1>1, <1>2 DEF Lineage, OwnRoots
<1>6. StpProved' => Accounted(stp'.after, chain', txs')
  <2>1. ASSUME chain' = chain PROVE Accounted(lastRoot + 1, chain', txs')
    BY <1>0, <2>1 DEF Accounted
  <2> QED
    BY <1>0, <1>1, <1>2, <2>1 DEF Lineage, OwnRoots
<1> QED
  BY <1>3, <1>4, <1>5, <1>6 DEF OwnRoots

\* Once another sequencer has settled a transition, it has done so for ever.
LEMMA AloneBefore ==
  ASSUME TypeInv, OwnRoots, [Next]_vars, Alone'
  PROVE  Alone
<1>0. Lineage /\ TxLineage /\ ChainLineage /\ chain \in Seq(Roots) /\ Len(chain) \in Nat
  BY LineageStep DEF Lineage, TypeInv, ChainTypes
<1> SUFFICES ASSUME NEW n \in 2 .. Len(chain)
             PROVE  \E i \in DOMAIN txs : txs[i].state = "mined" /\ txs[i].trans.after = chain[n]
  BY DEF Alone
<1>1. n \in 2 .. Len(chain') /\ chain'[n] = chain[n]
  BY <1>0 DEF ChainLineage
<1>2. PICK i \in DOMAIN txs' : txs'[i].trans.after = chain[n]
  BY <1>1 DEF Alone
<1>3. Accounted(chain[n], chain, txs)
  BY <1>0, <1>2 DEF TxLineage, OwnRoots
<1> QED
  BY <1>3 DEF Accounted

----------------------------------------------------------------------------
(* The pending mark                                                        *)

\* The transactions whose callback has not ended.
Flying == {i \in DOMAIN txs : txs[i].waiter # "gone"}

\* The transition processor has a batch that it has not pushed yet.
StpBusy == stp.pc \notin {"idle", "pushed"}

\* The mark stands for a transition that is in its queue, with the on-chain
\* processor or in a transaction, of which there is one at most; the transition
\* processor has none as long as it works on a batch.
Marked ==
    /\ \A i, j \in Flying : i = j
    /\ \A i \in Flying : st \subseteq {txs[i].trans} \cap stRes
    /\ \A i \in Flying : txs[i].waiter = "prune" => st = {}
    /\ \A s, t \in st : s = t
    /\ ocp.pc # "idle" => Flying = {} /\ st \subseteq {ocp.trans} \cap stRes
    /\ st # {} \/ ocp.pc # "idle" \/ Flying # {} => ptx
    /\ StpBusy => st = {} /\ ocp.pc = "idle" /\ Flying = {}
    /\ stp.pc \in {"marked", "pending"} => ptx

\* Nothing can revert the transaction of a node that settles transitions alone.
NeverReverted ==
    /\ \A i \in DOMAIN txs :
        /\ txs[i].state # "reverted"
        /\ txs[i].state = "pool" => txs[i].waiter = "waiting" /\ txs[i].trans.before = ChainRoot
    /\ ocp.pc = "send" => ocp.trans.before = ChainRoot

MarkInv ==
    /\ IInv /\ restarts \in Nat /\ OwnRoots
    /\ Answered /\ Alone => Marked /\ NeverReverted

\* A step that leaves transactions, transitions and mark alone.
LEMMA MarkKept ==
  ASSUME Marked, NeverReverted, UNCHANGED <<st, stRes, ptx, chain, txs>>,
         ocp'.pc # "idle" => ocp.pc # "idle" /\ ocp'.trans = ocp.trans,
         ocp'.pc = "send" => ocp'.trans.before = ChainRoot,
         StpBusy' => StpBusy,
         stp'.pc \in {"marked", "pending"} => stp.pc \in {"marked", "pending"}
  PROVE  Marked' /\ NeverReverted'
<1>1. Flying' = Flying
  BY DEF Flying
<1> QED
  BY <1>1 DEF Marked, NeverReverted, ChainRoot

\* A step of the on-chain processor that marks its transition.
LEMMA OcpMarks ==
  ASSUME Marked, NeverReverted, UNCHANGED <<chain, txs, stp>>, ocp.pc # "idle", ocp'.pc = "idle",
         st' = st \ {ocp.trans}
  PROVE  Marked' /\ NeverReverted'
<1>1. Flying' = Flying /\ Flying = {} /\ st' = {}
  BY DEF Flying, Marked
<1>2. ~StpBusy
  BY DEF Marked
<1> QED
  BY <1>1, <1>2 DEF Marked, NeverReverted, ChainRoot, StpBusy

\* What a callback does to the transactions.
LEMMA FlyingStep ==
  ASSUME TxTypes, NEW i \in DOMAIN txs, NEW x \in {"promoted", "prune", "gone"},
         txs' = [txs EXCEPT ![i].waiter = x], i \in Flying
  PROVE  /\ DOMAIN txs' = DOMAIN txs /\ txs'[i].waiter = x
         /\ \A j \in DOMAIN txs : txs'[j].trans = txs[j].trans /\ txs'[j].state = txs[j].state
         /\ \A j \in DOMAIN txs \ {i} : txs'[j] = txs[j]
         /\ Flying' = IF x = "gone" THEN Flying \ {i} ELSE Flying
<1>1. /\ DOMAIN txs' = DOMAIN txs /\ txs'[i] = [txs[i] EXCEPT !.waiter = x]
      /\ \A j \in DOMAIN txs \ {i} : txs'[j] = txs[j]
  BY TxWaiterUpdate
<1>2. /\ txs'[i].trans = txs[i].trans /\ txs'[i].state = txs[i].state /\ txs'[i].waiter = x
  BY <1>1, TxFields DEF Tx
<1>3. Flying' = IF x = "gone" THEN Flying \ {i} ELSE Flying
  BY <1>1, <1>2 DEF Flying
<1> QED
  BY <1>1, <1>2, <1>3

\* Each step, in a node that was told of every transaction and settles alone.
LEMMA MarkStep ==
  ASSUME IInv, restarts \in Nat, OwnRoots, Marked, NeverReverted, [Next]_vars, Answered', Alone'
  PROVE  Marked' /\ NeverReverted'
<1>0. /\ TxTypes /\ StpTypes /\ OcpTypes /\ chain \in Seq(Roots)
      /\ Len(chain) \in Nat /\ Len(chain) >= 1 /\ lastRoot \in Nat
  BY BoundAssumption DEF IInv, TypeInv, ChainTypes, Roots
<1> USE <1>0
<1>1. ASSUME NEW S \in SUBSET Votes, Aggregate(S) PROVE Marked' /\ NeverReverted'
  BY <1>1, MarkKept DEF Aggregate, chainVars, StpBusy, NeverReverted
<1>2. ASSUME NEW S \in SUBSET Votes, ForeignTransition(S) PROVE FALSE
  <2>1. chain' = Append(chain, lastRoot + 1) /\ txs' = txs
    BY <1>2 DEF ForeignTransition
  <2>2. Len(chain) + 1 \in 2 .. Len(chain') /\ chain'[Len(chain) + 1] = lastRoot + 1
    BY <2>1
  <2>3. \E i \in DOMAIN txs : txs[i].trans.after = lastRoot + 1
    BY <2>1, <2>2 DEF Alone
  <2> QED
    BY <2>3 DEF IInv, TransitionsInsert, Inserts
<1>3. ASSUME NEW b \in ag, StpTake(b) PROVE Marked' /\ NeverReverted'
  <2>1. /\ ~ptx /\ stp'.pc = "taken" /\ UNCHANGED <<st, stRes, ptx, chain, txs, ocp>>
    BY <1>3 DEF StpTake, StpIdle, chainVars
  <2>2. Flying' = Flying
    BY <2>1 DEF Flying
  <2> QED
    BY <2>1, <2>2 DEF Marked, NeverReverted, StpBusy, ChainRoot
<1>4. CASE StpLoad \/ StpProofFails \/ StpCommit
  <2>1. StpBusy /\ stp'.pc \notin {"marked", "pending"}
    BY <1>4 DEF StpLoad, StpProofFails, StpCommit, StpBusy, StpTypes
  <2> QED
    BY <1>4, <2>1, MarkKept
    DEF StpLoad, StpProofFails, StpCommit, chainVars, queueVars, NeverReverted
<1>5. CASE StpMarkFailed \/ StpDone
  <2>1. stp'.pc = "idle"
    BY <1>5 DEF StpMarkFailed, StpDone, StpIdle
  <2> QED
    BY <1>5, <2>1, MarkKept
    DEF StpMarkFailed, StpDone, MarkAggregatorBatchFailed, chainVars, StpBusy, NeverReverted
<1>6. CASE StpSetPendingTx
  <2>1. StpBusy /\ ptx' = TRUE /\ UNCHANGED <<st, stRes, chain, txs, ocp>>
    BY <1>6 DEF StpSetPendingTx, StpBusy, chainVars
  <2>2. Flying' = Flying
    BY <2>1 DEF Flying
  <2> QED
    BY <2>1, <2>2 DEF Marked, NeverReverted, ChainRoot
<1>7. CASE StpMarkPending
  <2>1. stp.pc = "marked" /\ stp'.pc \in {"pending", "idle"}
    BY <1>7 DEF StpMarkPending, StpIdle, StpTypes
  <2> QED
    BY <1>7, <2>1, MarkKept DEF StpMarkPending, chainVars, StpBusy, NeverReverted
<1>8. CASE StpPush
  <2> DEFINE new == [batch |-> stp.batch, before |-> stp.before, after |-> stp.after]
  <2>1. /\ stp.pc = "pending" /\ stp'.pc = "pushed" /\ st' = st \cup {new}
        /\ UNCHANGED <<stRes, ptx, chain, txs, ocp>>
    BY <1>8 DEF StpPush, StpTypes, chainVars
  <2> HIDE DEF new
  <2>2. st = {} /\ ocp.pc = "idle" /\ Flying = {} /\ ptx
    BY <2>1 DEF Marked, StpBusy
  <2>3. Flying' = {}
    BY <2>1, <2>2 DEF Flying
  <2> QED
    BY <2>1, <2>2, <2>3 DEF Marked, NeverReverted, StpBusy, ChainRoot
<1>9. ASSUME NEW s \in st, OcpTake(s) PROVE Marked' /\ NeverReverted'
  <2>1. /\ ocp'.trans = s /\ ocp'.pc = "taken" /\ s \notin stRes /\ stRes' = stRes \cup {s}
        /\ UNCHANGED <<st, ptx, chain, txs, stp>>
    BY <1>9 DEF OcpTake, chainVars
  <2>2. Flying = {} /\ ptx /\ ~StpBusy
    BY <2>1 DEF Marked
  <2>3. Flying' = {}
    BY <2>1, <2>2 DEF Flying
  <2> QED
    BY <2>1, <2>2, <2>3 DEF Marked, NeverReverted, StpBusy, ChainRoot
<1>10. CASE OcpCheckRoot
  <2>1. /\ ocp.pc # "idle" /\ (ocp'.pc # "idle" => ocp'.trans = ocp.trans)
        /\ ocp'.pc = "send" => ocp'.trans.before = ChainRoot
    BY <1>10 DEF OcpCheckRoot, OcpIdle, OcpTypes
  <2> QED
    BY <1>10, <2>1, MarkKept DEF OcpCheckRoot, queueVars, chainVars, StpBusy
<1>11. CASE OcpOutdated
  BY <1>11, OcpMarks DEF OcpOutdated, OcpIdle, MarkStateTransitionBatchOutdated, chainVars
<1>12. CASE OcpMarkFailed
  BY <1>12, OcpMarks DEF OcpMarkFailed, OcpIdle, MarkStateTransitionBatchFailed, chainVars,
                         queueVars
<1>13. CASE OcpSend
  <2>1. /\ UNCHANGED <<st, stRes, ptx, stp, chain>> /\ ocp.pc = "send"
    BY <1>13 DEF OcpSend, queueVars
  <2>2. CASE txs' = txs
    <3>1. /\ ocp'.pc # "idle" => ocp'.trans = ocp.trans
          /\ ocp'.pc # "send" \/ ocp'.trans = ocp.trans
      BY <1>13 DEF OcpSend, OcpIdle, OcpTypes
    <3> QED
      BY <2>1, <2>2, <3>1, MarkKept DEF StpBusy, NeverReverted
  <2>3. CASE txs' # txs
    <3> DEFINE tx == [trans |-> ocp.trans, state |-> "pool", waiter |-> "waiting"]
               n == Len(txs) + 1
    <3>1. txs' = Append(txs, tx) /\ ocp'.pc = "idle"
      BY <1>13, <2>3 DEF OcpSend, OcpIdle
    <3>2. tx \in Tx
      BY DEF OcpTypes, Tx
    <3>3. DOMAIN txs' = DOMAIN txs \cup {n} /\ txs'[n] = tx /\ \A i \in DOMAIN txs : txs'[i] = txs[i]
      BY <3>1, <3>2 DEF TxTypes
    <3>4. /\ txs'[n].trans = ocp.trans /\ txs'[n].state = "pool" /\ txs'[n].waiter = "waiting"
      BY <3>3
    <3> HIDE DEF tx, n
    <3>5. Flying' = {n}
      BY <2>1, <3>3, <3>4 DEF Flying, Marked
    <3>6. NeverReverted'
      BY <2>1, <3>1, <3>3, <3>4 DEF NeverReverted, ChainRoot
    <3>7. ptx /\ ~StpBusy /\ st \subseteq {ocp.trans} \cap stRes
      BY <2>1 DEF Marked
    <3>8. Marked'
      BY <2>1, <3>1, <3>4, <3>5, <3>7 DEF Marked, StpBusy
    <3> QED
      BY <3>6, <3>8
  <2> QED
    BY <2>2, <2>3
<1>14. ASSUME NEW i \in DOMAIN txs, ExecuteTx(i) PROVE Marked' /\ NeverReverted'
  <2>1. txs[i].state = "pool" /\ UNCHANGED <<st, stRes, ptx, stp, ocp>>
    BY <1>14 DEF ExecuteTx, queueVars
  <2>2. txs[i].trans.before = ChainRoot /\ txs[i].waiter = "waiting"
    BY <2>1 DEF NeverReverted
  <2>3. txs' = [txs EXCEPT ![i].state = "mined"]
    BY <1>14, <2>2 DEF ExecuteTx
  <2>4. /\ DOMAIN txs' = DOMAIN txs /\ txs'[i] = [txs[i] EXCEPT !.state = "mined"]
        /\ \A j \in DOMAIN txs \ {i} : txs'[j] = txs[j]
    BY <2>3, TxStateUpdate
  <2>5. /\ txs'[i].state = "mined" /\ txs'[i].trans = txs[i].trans
        /\ txs'[i].waiter = txs[i].waiter
    BY <2>4, TxFields DEF Tx
  <2>6. Flying' = Flying /\ i \in Flying
    BY <2>2, <2>4, <2>5 DEF Flying
  <2>7. ocp.pc = "idle" /\ \A j \in DOMAIN txs \ {i} : txs[j].state # "pool"
    BY <2>6 DEF Marked, NeverReverted, Flying
  <2>8. NeverReverted'
    <3>1. \A j \in DOMAIN txs' : txs'[j].state # "pool" /\ txs'[j].state # "reverted"
      BY <2>4, <2>5, <2>7 DEF NeverReverted
    <3>2. ocp'.pc # "send"
      BY <2>1, <2>7
    <3> QED
      BY <3>1, <3>2 DEF NeverReverted
  <2>9. \A j \in Flying : txs'[j].trans = txs[j].trans /\ txs'[j].waiter = txs[j].waiter
    BY <2>4, <2>5 DEF Flying
  <2>10. Marked'
    BY <2>1, <2>6, <2>9 DEF Marked, StpBusy
  <2> QED
    BY <2>8, <2>10
<1>15. ASSUME NEW i \in DOMAIN txs, CallbackError(i) PROVE FALSE
  BY <1>15 DEF CallbackError, Answered, NeverReverted
<1>16. ASSUME NEW i \in DOMAIN txs, CallbackPromote(i) \/ CallbackDone(i)
       PROVE  Marked' /\ NeverReverted'
  <2>1. /\ i \in Flying /\ txs[i].waiter \in {"waiting", "promoted"} /\ txs[i].state = "mined"
        /\ UNCHANGED <<ptx, stp, ocp, chain>>
    BY <1>16 DEF CallbackPromote, CallbackDone, Flying, MarkStateTransitionBatchDone, queueVars,
                 IInv, MinedIsOnChain
  <2>2. PICK x \in {"promoted", "prune"} :
          /\ txs' = [txs EXCEPT ![i].waiter = x]
          /\ x = "prune" => st' = st \ {txs[i].trans} /\ stRes' = stRes \ {txs[i].trans}
          /\ x = "promoted" => st' = st /\ stRes' = stRes
    BY <1>16 DEF CallbackPromote, CallbackDone, MarkStateTransitionBatchDone, queueVars
  <2>3. /\ DOMAIN txs' = DOMAIN txs /\ txs'[i].waiter = x
        /\ \A j \in DOMAIN txs : txs'[j].trans = txs[j].trans /\ txs'[j].state = txs[j].state
        /\ \A j \in DOMAIN txs \ {i} : txs'[j] = txs[j]
        /\ Flying' = Flying
    BY <2>1, <2>2, FlyingStep
  <2>4. NeverReverted'
    BY <2>1, <2>3 DEF NeverReverted, ChainRoot
  <2>5. /\ Flying = {i} /\ ocp.pc = "idle" /\ ~StpBusy /\ ptx
        /\ st \subseteq {txs[i].trans} \cap stRes
    BY <2>1 DEF Marked
  <2>6. /\ x = "prune" => st' = {}
        /\ x = "promoted" => st' \subseteq {txs'[i].trans} \cap stRes'
    BY <2>2, <2>3, <2>5
  <2>7. st' \subseteq st
    BY <2>2
  <2>8. Marked'
    BY <2>1, <2>3, <2>5, <2>6, <2>7 DEF Marked, StpBusy
  <2> QED
    BY <2>4, <2>8
<1>17. ASSUME NEW i \in DOMAIN txs, CallbackPrune(i) PROVE Marked' /\ NeverReverted'
  <2>1. /\ i \in Flying /\ txs[i].waiter = "prune" /\ txs' = [txs EXCEPT ![i].waiter = "gone"]
        /\ UNCHANGED <<st, stRes, stp, ocp, chain>>
    BY <1>17 DEF CallbackPrune, Flying
  <2>2. /\ DOMAIN txs' = DOMAIN txs
        /\ \A j \in DOMAIN txs : txs'[j].trans = txs[j].trans /\ txs'[j].state = txs[j].state
        /\ \A j \in DOMAIN txs \ {i} : txs'[j] = txs[j]
        /\ Flying' = Flying \ {i}
    BY <2>1, FlyingStep
  <2>3. Flying' = {} /\ st = {} /\ ocp.pc = "idle" /\ ~StpBusy
    BY <2>1, <2>2 DEF Marked
  <2>4. NeverReverted'
    BY <2>1, <2>2 DEF NeverReverted, ChainRoot
  <2>5. Marked'
    BY <2>1, <2>3 DEF Marked, StpBusy
  <2> QED
    BY <2>4, <2>5
<1>18. CASE \/ RootEvent \/ RepeatEvents \/ SyncApply \/ PhaseChange \/ CheckAndRegister
            \/ UNCHANGED vars
  <2>1. UNCHANGED <<st, stRes, ptx, chain, txs, ocp, stp>>
    BY <1>18 DEF RootEvent, RepeatEvents, SyncApply, PhaseChange, CheckAndRegister, vars,
                 queueVars, chainVars
  <2> QED
    BY <2>1, MarkKept DEF StpBusy, NeverReverted
<1>19. CASE CleanupEndedProcess
  <2>1. st' = {} /\ UNCHANGED <<ptx, chain, txs, ocp, stp>>
    BY <1>19 DEF CleanupEndedProcess, chainVars
  <2>2. Flying' = Flying
    BY <2>1 DEF Flying
  <2> QED
    BY <2>1, <2>2 DEF Marked, NeverReverted, StpBusy, ChainRoot
<1>20. CASE ReleaseStaleReservations
  <2>1. PICK S \in SUBSET (stRes \ Held.st) :
          /\ stRes' = stRes \ S
          /\ waitFailed' = (waitFailed \/ \E i \in DOMAIN txs :
                                txs[i].waiter = "waiting" /\ txs[i].trans \in S)
    BY <1>20 DEF ReleaseStaleReservations
  <2>2. UNCHANGED <<st, ptx, txs, ocp, stp, chain>>
    BY <1>20 DEF ReleaseStaleReservations, chainVars
  <2>3. /\ ocp.trans \notin S
        /\ \A i \in DOMAIN txs : txs[i].waiter = "promoted" => txs[i].trans \notin S
    BY <2>1 DEF Held
  <2>4. \A i \in DOMAIN txs : txs[i].waiter = "waiting" => txs[i].trans \notin S
    BY <2>1 DEF Answered
  <2>5. \A i \in Flying : txs[i].waiter \in {"waiting", "promoted", "prune"}
    BY TxFields DEF Flying, Tx
  <2>6. \A i \in Flying : st \subseteq {txs[i].trans} \cap stRes'
    BY <2>1, <2>3, <2>4, <2>5 DEF Marked, Flying
  <2>7. Flying' = Flying
    BY <2>2 DEF Flying
  <2> QED
    BY <2>1, <2>2, <2>3, <2>6, <2>7 DEF Marked, NeverReverted, StpBusy, ChainRoot
<1>21. CASE Restart
  BY <1>21 DEF Restart, Answered
<1> QED
  BY <1>1, <1>2, <1>3, <1>4, <1>5, <1>6, <1>7, <1>8, <1>9, <1>10, <1>11, <1>12, <1>13, <1>14,
     <1>15, <1>16, <1>17, <1>18, <1>19, <1>20, <1>21 DEF Next, StpNext, OcpNext, CallbackNext

\* MarkInv holds in every reachable state of Settlement.
LEMMA MarkInvariance == Spec => []MarkInv
<1>1. Init => MarkInv
  <2> SUFFICES ASSUME Init PROVE MarkInv
    OBVIOUS
  <2>1. restarts \in Nat
    BY DEF Init
  <2>2. OwnRoots
    BY DEF Init, OwnRoots, StpProved, StpIdle, OcpIdle
  <2>3. Marked /\ NeverReverted
    BY DEF Init, Marked, NeverReverted, Flying, StpBusy, StpIdle, OcpIdle
  <2> QED
    BY <2>1, <2>2, <2>3, InvInit DEF MarkInv
<1>2. MarkInv /\ [Next]_vars => MarkInv'
  <2> SUFFICES ASSUME MarkInv, [Next]_vars PROVE MarkInv'
    OBVIOUS
  <2>1. IInv' /\ OwnRoots' /\ restarts' \in Nat /\ (Answered' => Answered)
    BY InvStep, OwnStep, AnsweredBefore DEF MarkInv
  <2>2. Answered' /\ Alone' => Marked' /\ NeverReverted'
    BY <2>1, MarkStep, AloneBefore DEF MarkInv, IInv
  <2> QED
    BY <2>1, <2>2 DEF MarkInv
<1> QED
  BY <1>1, <1>2, PTL DEF Spec

\* In a node that settles transitions alone and is told of every transaction, the
\* pending mark is set as long as a transition waits for the contract: SetPendingTx
\* comes before the push, and each storage call or PrunePendingTx that clears the
\* mark comes with, or after, the end of the transition it was set for.
THEOREM TransitionsAreMarked == Spec => []InFlightIsMarked
<1>1. MarkInv => InFlightIsMarked
  BY DEF MarkInv, Marked, InFlightIsMarked
<1> QED
  BY <1>1, MarkInvariance, PTL

----------------------------------------------------------------------------
(* The votes of different batches                                          *)

\* The transitions whose votes the contract counts or may still count.
Carriers ==
    st \cup {t \in {ocp.trans} : ocp.pc # "idle"}
       \cup {txs[i].trans : i \in {j \in DOMAIN txs : txs[j].state \in {"pool", "mined"}}}

\* Two batches without a common vote.
Apart(b, c) == b.votes \cap c.votes = {}

\* The batch b is on its way from ag/ to st/ (PushStateTransitionBatch is done,
\* MarkAggregatorBatchDone is not).
IsPushed(b) == stp.pc = "pushed" /\ b = stp.batch

FlightsApart == \A s, t \in Carriers : s = t \/ Apart(s.batch, t.batch)
QueueApart == \A b \in ag, t \in Carriers : Apart(b, t.batch) \/ IsPushed(b)
BatchesApart == \A b, c \in ag : b = c \/ Apart(b, c) \/ IsPushed(b) \/ IsPushed(c)
StpApart ==
    StpBusy => /\ \A t \in Carriers : Apart(stp.batch, t.batch)
               /\ \A b \in ag : b = stp.batch \/ Apart(b, stp.batch)

\* A vote is in one batch at a time, apart from the copy of the batch that is
\* just being pushed.
VotesApart == FlightsApart /\ QueueApart /\ BatchesApart /\ StpApart

\* A vote that some batch holds is not offered to aggregateBatch again, and one
\* that the contract may count has not failed.
HeldStatus ==
    /\ \A b \in ag : \A v \in b.votes : status[v] # "verified"
    /\ stp.pc # "idle" => \A v \in stp.batch.votes : status[v] # "verified"
    /\ \A t \in Carriers : \A v \in t.batch.votes : status[v] \notin {"verified", "error"}

\* The transition processor has a transition that is not in the queue yet.
Proved == {"committed", "marked", "pending"}

\* A transition is sent once, and stays reserved while it is in its queue.
SentOnce ==
    /\ \A i, j \in DOMAIN txs : txs[i].trans = txs[j].trans => i = j
    /\ ocp.pc # "idle" => /\ ocp.trans \in st => ocp.trans \in stRes
                          /\ \A i \in DOMAIN txs : txs[i].trans # ocp.trans
    /\ \A i \in DOMAIN txs : txs[i].trans \in st => txs[i].trans \in stRes /\ i \in Active
    /\ stp.pc \in Proved =>
         /\ \A s \in st : s.after # stp.after
         /\ ocp.pc # "idle" => ocp.trans.after # stp.after
         /\ \A i \in DOMAIN txs : txs[i].trans.after # stp.after

VoteInv ==
    /\ IInv /\ FlightInv
    /\ Answered => VotesApart /\ HeldStatus /\ SentOnce

\* Apart does not depend on the order of the batches.
LEMMA ApartSym == \A b, c : Apart(b, c) <=> Apart(c, b)
BY DEF Apart

\* Only StpPush makes the contract count more votes, those of the batch pushed.
LEMMA CarrierStep ==
  ASSUME TypeInv, [Next]_vars
  PROVE  \/ Carriers' \subseteq Carriers
         \/ /\ StpPush
            /\ Carriers' \subseteq Carriers
                 \cup {[batch |-> stp.batch, before |-> stp.before, after |-> stp.after]}
<1>0. Lineage /\ TxLineage /\ TxTypes
  BY LineageStep DEF Lineage, TypeInv
<1>1. ASSUME NEW i \in DOMAIN txs', txs'[i].state \in {"pool", "mined"}
      PROVE  txs'[i].trans \in Carriers
  <2>1. CASE i \in DOMAIN txs
    <3>1. txs[i].state # "reverted" /\ txs[i].trans = txs'[i].trans
      BY <1>0, <1>1, <2>1 DEF TxLineage
    <3>2. txs[i].state \in {"pool", "mined"}
      BY <1>0, <2>1, <3>1, TxFields DEF Tx
    <3> QED
      BY <2>1, <3>1, <3>2 DEF Carriers
  <2>2. CASE i \notin DOMAIN txs
    BY <1>0, <1>1, <2>2 DEF TxLineage, Carriers
  <2> QED
    BY <2>1, <2>2
<1>2. ocp'.pc # "idle" => ocp'.trans \in Carriers
  BY <1>0 DEF Lineage, Carriers
<1>3. Carriers' \subseteq Carriers \cup st'
  BY <1>1, <1>2 DEF Carriers
<1>4. st' \subseteq st => Carriers' \subseteq Carriers
  BY <1>3 DEF Carriers
<1>5. StpPush => Carriers' \subseteq Carriers
                   \cup {[batch |-> stp.batch, before |-> stp.before, after |-> stp.after]}
  BY <1>3 DEF StpPush, Carriers
<1> QED
  BY <1>0, <1>4, <1>5 DEF Lineage

\* A step that sends nothing and neither queues nor takes a transition.
LEMMA SentKept ==
  ASSUME SentOnce, txs' = txs, st' \subseteq st, \A s \in st' : s \in stRes => s \in stRes',
         ocp'.pc # "idle" => ocp.pc # "idle" /\ ocp'.trans = ocp.trans,
         stp'.pc \in Proved => stp.pc \in Proved /\ stp'.after = stp.after
  PROVE  SentOnce'
<1>1. Active' = Active
  BY DEF Active
<1> QED
  BY <1>1 DEF SentOnce

\* A callback that is done with a transition has taken it out of its queue.
LEMMA SentCallback ==
  ASSUME SentOnce, TxTypes, NEW i \in Active, NEW x \in {"promoted", "prune"},
         txs' = [txs EXCEPT ![i].waiter = x], UNCHANGED <<ocp, stp>>,
         st' \subseteq st, \A s \in st' : s \in stRes => s \in stRes',
         x = "prune" => txs[i].trans \notin st'
  PROVE  SentOnce'
<1>1. /\ DOMAIN txs' = DOMAIN txs
      /\ \A j \in DOMAIN txs : txs'[j].trans = txs[j].trans
      /\ \A j \in Active \ {i} : j \in Active'
      /\ x = "promoted" => Active' = Active
  <2>1. i \in DOMAIN txs
    BY DEF Active
  <2>2. /\ DOMAIN txs' = DOMAIN txs /\ txs'[i] = [txs[i] EXCEPT !.waiter = x]
        /\ \A j \in DOMAIN txs \ {i} : txs'[j] = txs[j]
    BY <2>1, TxWaiterUpdate
  <2>3. txs'[i].trans = txs[i].trans
    BY <2>1, <2>2, TxFields DEF Tx
  <2>4. (x = "promoted" => Active' = Active) /\ (x = "prune" => Active' = Active \ {i})
    BY ActiveStep
  <2> QED
    BY <2>2, <2>3, <2>4
<1>2. \A j \in DOMAIN txs : txs[j].trans \in st' => txs[j].trans \in stRes' /\ j \in Active'
  BY <1>1 DEF SentOnce
<1> QED
  BY <1>1, <1>2 DEF SentOnce

\* The on-chain processor sends what it has taken, and takes what nobody has sent.
LEMMA SentStep ==
  ASSUME IInv, SentOnce, [Next]_vars, Answered', restarts \in Nat
  PROVE  SentOnce'
<1>0. /\ TxTypes /\ StpTypes /\ OcpTypes /\ lastRoot \in Nat
      /\ \A i \in DOMAIN txs : txs[i].trans.after \in 0 .. lastRoot
      /\ \A s \in st : s.after \in 0 .. lastRoot
      /\ ocp.trans.after \in 0 .. lastRoot
  BY BoundAssumption DEF IInv, TypeInv, ChainTypes, Roots, TransitionsInsert, Inserts
<1> USE <1>0
<1>1. CASE \E S \in SUBSET Votes : Aggregate(S) \/ ForeignTransition(S)
  BY <1>1, SentKept DEF Aggregate, ForeignTransition, chainVars, queueVars
<1>2. ASSUME NEW b \in ag, StpTake(b) PROVE SentOnce'
  <2>1. stp'.pc \notin Proved
    BY <1>2 DEF StpTake, StpIdle, Proved
  <2> QED
    BY <1>2, <2>1, SentKept DEF StpTake, chainVars
<1>3. CASE StpLoad \/ StpProofFails
  <2>1. stp'.pc \notin Proved
    BY <1>3 DEF StpLoad, StpProofFails, StpTypes, Proved
  <2> QED
    BY <1>3, <2>1, SentKept DEF StpLoad, StpProofFails, chainVars, queueVars
<1>4. CASE StpCommit
  <2>1. stp'.after = lastRoot + 1 /\ UNCHANGED <<st, stRes, txs, ocp>>
    BY <1>4 DEF StpCommit, StpTypes, queueVars, chainVars
  <2>2. Active' = Active
    BY <2>1 DEF Active
  <2>3. /\ \A i \in DOMAIN txs : txs[i].trans.after # lastRoot + 1
        /\ \A s \in st : s.after # lastRoot + 1
        /\ ocp.trans.after # lastRoot + 1
    OBVIOUS
  <2> QED
    BY <2>1, <2>2, <2>3 DEF SentOnce
<1>5. CASE StpMarkFailed \/ StpDone
  <2>1. stp'.pc \notin Proved
    BY <1>5 DEF StpMarkFailed, StpDone, StpIdle, Proved
  <2> QED
    BY <1>5, <2>1, SentKept DEF StpMarkFailed, StpDone, MarkAggregatorBatchFailed, chainVars
<1>6. CASE StpSetPendingTx \/ StpMarkPending
  <2>1. stp'.pc \in Proved => stp.pc \in Proved /\ stp'.after = stp.after
    BY <1>6 DEF StpSetPendingTx, StpMarkPending, StpIdle, StpTypes, Proved
  <2> QED
    BY <1>6, <2>1, SentKept DEF StpSetPendingTx, StpMarkPending, chainVars
<1>7. CASE StpPush
  <2> DEFINE new == [batch |-> stp.batch, before |-> stp.before, after |-> stp.after]
  <2>1. /\ stp.pc \in Proved /\ stp'.pc = "pushed" /\ st' = st \cup {new} /\ new.after = stp.after
        /\ UNCHANGED <<stRes, txs, ocp>>
    BY <1>7 DEF StpPush, StpTypes, chainVars, Proved
  <2>2. Active' = Active
    BY <2>1 DEF Active
  <2>3. stp'.pc \notin Proved
    BY <2>1 DEF Proved
  <2> HIDE DEF new
  <2>4. (\A i \in DOMAIN txs : txs[i].trans # new) /\ (ocp.pc # "idle" => ocp.trans # new)
    BY <2>1 DEF SentOnce
  <2> QED
    BY <2>1, <2>2, <2>3, <2>4 DEF SentOnce
<1>8. ASSUME NEW s \in st, OcpTake(s) PROVE SentOnce'
  <2>1. /\ s \notin stRes /\ stRes' = stRes \cup {s} /\ ocp'.trans = s
        /\ UNCHANGED <<st, txs, stp>>
    BY <1>8 DEF OcpTake, chainVars
  <2>2. Active' = Active
    BY <2>1 DEF Active
  <2> QED
    BY <2>1, <2>2 DEF SentOnce
<1>9. CASE OcpCheckRoot
  <2>1. ocp.pc # "idle" /\ (ocp'.pc # "idle" => ocp'.trans = ocp.trans)
    BY <1>9 DEF OcpCheckRoot, OcpIdle, OcpTypes
  <2> QED
    BY <1>9, <2>1, SentKept DEF OcpCheckRoot, queueVars, chainVars
<1>10. CASE OcpOutdated \/ OcpMarkFailed
  <2>1. ocp'.pc = "idle" /\ stp' = stp /\ txs' = txs
    BY <1>10 DEF OcpOutdated, OcpMarkFailed, OcpIdle, chainVars
  <2>2. st' \subseteq st /\ \A s \in st' : s \in stRes => s \in stRes'
    BY <1>10 DEF OcpOutdated, OcpMarkFailed, MarkStateTransitionBatchOutdated,
                 MarkStateTransitionBatchFailed, queueVars
  <2> QED
    BY <2>1, <2>2, SentKept
<1>11. CASE OcpSend
  <2>1. UNCHANGED <<st, stRes, stp>> /\ ocp.pc # "idle"
    BY <1>11 DEF OcpSend, queueVars
  <2>2. CASE txs' = txs
    <3>1. ocp'.pc # "idle" => ocp'.trans = ocp.trans
      BY <1>11 DEF OcpSend, OcpIdle, OcpTypes
    <3> QED
      BY <2>1, <2>2, <3>1, SentKept
  <2>3. CASE txs' # txs
    <3> DEFINE tx == [trans |-> ocp.trans, state |-> "pool", waiter |-> "waiting"]
               n == Len(txs) + 1
    <3>1. txs' = Append(txs, tx) /\ ocp'.pc = "idle"
      BY <1>11, <2>3 DEF OcpSend, OcpIdle
    <3>2. tx \in Tx
      BY DEF OcpTypes, Tx
    <3>3. DOMAIN txs' = DOMAIN txs \cup {n} /\ txs'[n] = tx /\ \A i \in DOMAIN txs : txs'[i] = txs[i]
      BY <3>1, <3>2 DEF TxTypes
    <3>4. txs'[n].trans = ocp.trans /\ txs'[n].waiter = "waiting"
      BY <3>3
    <3> HIDE DEF tx, n
    <3>5. Active' = Active \cup {n}
      BY <3>3, <3>4 DEF Active
    <3> QED
      BY <2>1, <3>1, <3>3, <3>4, <3>5 DEF SentOnce
  <2> QED
    BY <2>2, <2>3
<1>12. ASSUME NEW i \in DOMAIN txs, ExecuteTx(i) PROVE SentOnce'
  <2>1. PICK x \in {"mined", "reverted"} : txs' = [txs EXCEPT ![i].state = x]
    BY <1>12 DEF ExecuteTx
  <2>2. /\ DOMAIN txs' = DOMAIN txs /\ txs'[i] = [txs[i] EXCEPT !.state = x]
        /\ \A j \in DOMAIN txs \ {i} : txs'[j] = txs[j]
    BY <2>1, TxStateUpdate
  <2>3. txs'[i].trans = txs[i].trans /\ txs'[i].waiter = txs[i].waiter
    BY <2>2, TxFields DEF Tx
  <2>4. /\ Active' = Active /\ DOMAIN txs' = DOMAIN txs
        /\ \A j \in DOMAIN txs : txs'[j].trans = txs[j].trans
    BY <2>2, <2>3 DEF Active
  <2>5. UNCHANGED <<st, stRes, ocp, stp>>
    BY <1>12 DEF ExecuteTx, queueVars
  <2> QED
    BY <2>4, <2>5 DEF SentOnce
<1>13. ASSUME NEW i \in DOMAIN txs, CallbackError(i) PROVE SentOnce'
  <2>1. i \in Active /\ txs' = [txs EXCEPT ![i].waiter = "prune"] /\ UNCHANGED <<stp, ocp>>
    BY <1>13 DEF CallbackError, Active
  <2>2. st' = st \ {txs[i].trans} /\ \A s \in st' : s \in stRes => s \in stRes'
    BY <1>13 DEF CallbackError, MarkStateTransitionBatchFailed, queueVars
  <2> QED
    BY <2>1, <2>2, SentCallback
<1>14. ASSUME NEW i \in DOMAIN txs, CallbackPromote(i) PROVE SentOnce'
  <2>1. i \in Active /\ txs' = [txs EXCEPT ![i].waiter = "promoted"]
    BY <1>14 DEF CallbackPromote, Active
  <2> QED
    BY <1>14, <2>1, SentCallback DEF CallbackPromote, queueVars
<1>15. ASSUME NEW i \in DOMAIN txs, CallbackDone(i) PROVE SentOnce'
  <2>1. i \in Active /\ txs' = [txs EXCEPT ![i].waiter = "prune"] /\ UNCHANGED <<stp, ocp>>
    BY <1>15 DEF CallbackDone, Active
  <2>2. st' = st \ {txs[i].trans} /\ \A s \in st' : s \in stRes => s \in stRes'
    BY <1>15 DEF CallbackDone, MarkStateTransitionBatchDone
  <2> QED
    BY <2>1, <2>2, SentCallback
<1>16. ASSUME NEW i \in DOMAIN txs, CallbackPrune(i) PROVE SentOnce'
  <2>1. /\ DOMAIN txs' = DOMAIN txs /\ txs'[i] = [txs[i] EXCEPT !.waiter = "gone"]
        /\ \A j \in DOMAIN txs \ {i} : txs'[j] = txs[j]
    BY <1>16, TxWaiterUpdate DEF CallbackPrune
  <2>2. txs'[i].waiter = "gone" /\ txs'[i].trans = txs[i].trans
    BY <2>1, TxFields DEF Tx
  <2>3. Active' = Active /\ \A j \in DOMAIN txs : txs'[j].trans = txs[j].trans
    BY <1>16, <2>1, <2>2 DEF CallbackPrune, Active
  <2>4. UNCHANGED <<st, stRes, ocp, stp>>
    BY <1>16 DEF CallbackPrune
  <2> QED
    BY <2>1, <2>3, <2>4 DEF SentOnce
<1>17. CASE \/ RootEvent \/ RepeatEvents \/ SyncApply \/ PhaseChange \/ CheckAndRegister
            \/ CleanupEndedProcess \/ UNCHANGED vars
  <2>1. UNCHANGED <<txs, ocp, stp>> /\ st' \subseteq st /\ (st' = {} \/ stRes' = stRes)
    BY <1>17 DEF RootEvent, RepeatEvents, SyncApply, PhaseChange, CheckAndRegister,
                 CleanupEndedProcess, vars, queueVars, chainVars
  <2> QED
    BY <2>1, SentKept
<1>18. CASE ReleaseStaleReservations
  <2>1. PICK S \in SUBSET (stRes \ Held.st) :
          /\ stRes' = stRes \ S
          /\ waitFailed' = (waitFailed \/ \E i \in DOMAIN txs :
                                txs[i].waiter = "waiting" /\ txs[i].trans \in S)
    BY <1>18 DEF ReleaseStaleReservations
  <2>2. UNCHANGED <<st, txs, ocp, stp>>
    BY <1>18 DEF ReleaseStaleReservations, chainVars
  <2>3. ocp.trans \notin S /\ \A i \in Active : txs[i].waiter = "promoted" => txs[i].trans \notin S
    BY <2>1 DEF Held, Active
  <2>4. \A i \in Active : txs[i].waiter = "waiting" => txs[i].trans \notin S
    BY <2>1 DEF Answered, Active
  <2>5. \A i \in Active : txs[i].trans \notin S
    BY <2>3, <2>4 DEF Active
  <2>6. Active' = Active
    BY <2>2 DEF Active
  <2> QED
    BY <2>1, <2>2, <2>3, <2>5, <2>6 DEF SentOnce
<1>19. CASE Restart
  BY <1>19 DEF Restart, Answered
<1> QED
  BY <1>1, <1>2, <1>3, <1>4, <1>5, <1>6, <1>7, <1>8, <1>9, <1>10, <1>11, <1>12, <1>13, <1>14,
     <1>15, <1>16, <1>17, <1>18, <1>19 DEF Next, StpNext, OcpNext, CallbackNext

\* A step that creates no batch and gives the transition processor none.
LEMMA VotesKept ==
  ASSUME VotesApart, Carriers' \subseteq Carriers, ag' \subseteq ag,
         StpBusy' => StpBusy /\ stp'.batch = stp.batch,
         \A b \in ag' : IsPushed(b) => stp'.pc = "pushed" /\ b = stp'.batch
  PROVE  VotesApart'
<1>1. FlightsApart'
  BY DEF VotesApart, FlightsApart
<1>2. QueueApart'
  BY DEF VotesApart, QueueApart, IsPushed
<1>3. BatchesApart'
  BY DEF VotesApart, BatchesApart, IsPushed
<1>4. StpApart'
  BY DEF VotesApart, StpApart
<1> QED
  BY <1>1, <1>2, <1>3, <1>4 DEF VotesApart

\* A step that puts votes of the transition s, which is given up, back into ag/.
LEMMA VotesRequeued ==
  ASSUME VotesApart, NEW s \in Carriers, NEW b, b.votes \subseteq s.batch.votes,
         Carriers' \subseteq Carriers \ {s}, stp' = stp, ag' \subseteq ag \cup {b}
  PROVE  VotesApart'
<1>1. FlightsApart'
  BY DEF VotesApart, FlightsApart
<1>2. \A c : Apart(c, s.batch) \/ Apart(s.batch, c) => Apart(b, c) /\ Apart(c, b)
  BY DEF Apart
<1>3. QueueApart'
  BY <1>2 DEF VotesApart, FlightsApart, QueueApart, IsPushed
<1>4. BatchesApart'
  BY <1>2 DEF VotesApart, QueueApart, BatchesApart, IsPushed
<1>5. StpApart'
  BY <1>2 DEF VotesApart, StpApart, StpBusy
<1> QED
  BY <1>1, <1>3, <1>4, <1>5 DEF VotesApart

\* A transition that the storage marks as failed or outdated will not be counted.
LEMMA GivenUp ==
  ASSUME NEW s \in st, st' = st \ {s}, Carriers' \subseteq Carriers,
         ocp'.pc # "idle" => ocp'.trans # s,
         \A i \in DOMAIN txs' : txs'[i].trans = s => txs'[i].state = "reverted"
  PROVE  s \in Carriers /\ Carriers' \subseteq Carriers \ {s}
BY DEF Carriers

\* No status becomes verified, and only votes of S fail.
StatusMoves(S) ==
    \A v \in Votes : /\ status'[v] = "verified" => status[v] = "verified"
                     /\ status'[v] = "error" => status[v] = "error" \/ v \in S

\* setVoteIDStatus changes the votes that it is given.
LEMMA WithStatusMoves ==
  ASSUME NEW old, NEW S, NEW new \in Status \ {"verified"}, NEW v \in Votes
  PROVE  /\ WithStatus(old, S, new)[v] = "verified" => old[v] = "verified"
         /\ WithStatus(old, S, new)[v] = "error" => old[v] = "error" \/ (v \in S /\ new = "error")
BY DEF WithStatus

\* The carriers and the batches hold votes.
LEMMA VoteTypes ==
  ASSUME TypeInv
  PROVE  /\ \A t \in Carriers : t.batch.votes \subseteq Votes
         /\ \A b \in ag : b.votes \subseteq Votes
         /\ stp.batch.votes \subseteq Votes
<1>1. Carriers \subseteq Transition
  BY TxFields DEF Carriers, TypeInv, QueueTypes, OcpTypes
<1>2. \A t \in Transition : t.batch.votes \subseteq Votes
  BY DEF Transition, Batch
<1>3. (\A b \in ag : b.votes \subseteq Votes) /\ stp.batch.votes \subseteq Votes
  BY DEF TypeInv, QueueTypes, StpTypes, Batch
<1> QED
  BY <1>1, <1>2, <1>3

\* A step that creates no batch, gives the transition processor none, and fails
\* no vote that the contract may count.
LEMMA StatusKept ==
  ASSUME TypeInv, HeldStatus, Carriers' \subseteq Carriers,
         NEW S, StatusMoves(S), \A t \in Carriers' : t.batch.votes \cap S = {},
         \A b \in ag' : b \in ag \/ \E t \in Carriers : b.votes \subseteq t.batch.votes,
         stp'.pc # "idle" => stp.pc # "idle" /\ stp'.batch = stp.batch
  PROVE  HeldStatus'
<1>0. /\ \A t \in Carriers : t.batch.votes \subseteq Votes
      /\ \A b \in ag : b.votes \subseteq Votes
      /\ stp.batch.votes \subseteq Votes
  BY VoteTypes
<1>1. \A b \in ag' : \A v \in b.votes : status'[v] # "verified"
  BY <1>0 DEF HeldStatus, StatusMoves
<1>2. stp'.pc # "idle" => \A v \in stp'.batch.votes : status'[v] # "verified"
  BY <1>0 DEF HeldStatus, StatusMoves
<1>3. \A t \in Carriers' : \A v \in t.batch.votes : status'[v] \notin {"verified", "error"}
  BY <1>0 DEF HeldStatus, StatusMoves
<1> QED
  BY <1>1, <1>2, <1>3 DEF HeldStatus

\* A step that gives up the transition s and puts votes of it back, or fails them.
LEMMA Requeued ==
  ASSUME TypeInv, VotesApart, HeldStatus, NEW s \in Carriers, NEW b, b.votes \subseteq s.batch.votes,
         Carriers' \subseteq Carriers \ {s}, stp' = stp, ag' \subseteq ag \cup {b},
         StatusMoves(s.batch.votes)
  PROVE  VotesApart' /\ HeldStatus'
<1>1. \A t \in Carriers' : t.batch.votes \cap s.batch.votes = {}
  BY DEF VotesApart, FlightsApart, Apart
<1>2. HeldStatus'
  BY <1>1, StatusKept
<1> QED
  BY <1>2, VotesRequeued

\* What MarkStateTransitionBatchFailed does with the votes of the transition.
LEMMA FailedVotes ==
  ASSUME NEW s \in st, MarkStateTransitionBatchFailed(s)
  PROVE  /\ st' = st \ {s} /\ StatusMoves(s.batch.votes)
         /\ \E b : b.votes \subseteq s.batch.votes /\ ag' \subseteq ag \cup {b}
<1> DEFINE votes == s.batch.votes
           inState == votes \cap content[storedRoot]
           again == [votes |-> votes \ inState, attempts |-> pag.attempts + 1]
<1>1. /\ st' = st \ {s}
      /\ \/ status' = WithStatus(status, votes, "error") /\ ag' = ag
         \/ /\ ag' = IF again.votes = {} THEN ag ELSE ag \cup {again}
            /\ status' = WithStatus(WithStatus(status, inState, "error"), again.votes, "aggregated")
         \/ ag' = ag /\ status' = status
  BY DEF MarkStateTransitionBatchFailed
<1>2. again.votes \subseteq s.batch.votes /\ ag' \subseteq ag \cup {again}
  BY <1>1
<1>3. StatusMoves(votes)
  BY <1>1, WithStatusMoves DEF StatusMoves, Status
<1> QED
  BY <1>1, <1>2, <1>3

\* What MarkStateTransitionBatchOutdated does with them.
LEMMA OutdatedVotes ==
  ASSUME OneFlight, NEW s \in st, MarkStateTransitionBatchOutdated(s)
  PROVE  /\ st' = st \ {s} /\ StatusMoves(s.batch.votes)
         /\ ag' \subseteq ag \cup {s.batch}
<1>1. /\ st' = st \ {s}
      /\ \/ ag' = ag /\ status' = status
         \/ ag' = ag \cup {s.batch} /\ status' = WithStatus(status, pag.votes, "aggregated")
  BY DEF MarkStateTransitionBatchOutdated, OneFlight
<1>2. StatusMoves(s.batch.votes)
  BY <1>1, WithStatusMoves DEF StatusMoves, Status
<1> QED
  BY <1>1, <1>2

\* A step that moves no batch and changes no status but to done or timeout.
LEMMA VotesQuiet ==
  ASSUME TypeInv, VotesApart, HeldStatus, Carriers' \subseteq Carriers, ag' \subseteq ag,
         StatusMoves({}), stp' = stp
  PROVE  VotesApart' /\ HeldStatus'
<1>1. VotesApart'
  BY VotesKept DEF StpBusy, IsPushed
<1> DEFINE S == {}
<1>2. StatusMoves(S) /\ \A t \in Carriers' : t.batch.votes \cap S = {}
  OBVIOUS
<1> HIDE DEF S
<1>3. HeldStatus'
  BY <1>2, StatusKept
<1> QED
  BY <1>1, <1>3

\* The transition processor moves on with its batch, or drops it.
LEMMA VotesWorked ==
  ASSUME TypeInv, VotesApart, HeldStatus, Carriers' \subseteq Carriers, ag' = ag, status' = status,
         stp.pc # "pushed",
         stp'.pc # "idle" => stp.pc # "idle" /\ stp'.batch = stp.batch /\ stp'.pc # "pushed"
  PROVE  VotesApart' /\ HeldStatus'
<1>1. VotesApart'
  BY VotesKept DEF StpBusy, IsPushed
<1> DEFINE S == {}
<1>2. StatusMoves(S) /\ \A t \in Carriers' : t.batch.votes \cap S = {}
  BY DEF StatusMoves
<1> HIDE DEF S
<1>3. HeldStatus'
  BY <1>2, StatusKept
<1> QED
  BY <1>1, <1>3

\* Each step keeps the votes of different batches apart, and fails no vote that
\* the contract counts or may count.
LEMMA VoteStep ==
  ASSUME IInv, OneFlight, VotesApart, HeldStatus, SentOnce, [Next]_vars, Answered',
         restarts \in Nat
  PROVE  VotesApart' /\ HeldStatus'
<1>0. /\ TypeInv /\ TxTypes /\ StpTypes /\ OcpTypes
      /\ Carriers' \subseteq Carriers \/ StpPush
  BY CarrierStep DEF IInv, TypeInv
<1>a. /\ \A t \in Carriers : t.batch.votes \subseteq Votes
      /\ \A b \in ag : b.votes \subseteq Votes
      /\ stp.batch.votes \subseteq Votes
  BY <1>0, VoteTypes
<1> USE <1>0
<1>b. ASSUME stp' = stp PROVE Carriers' \subseteq Carriers
  BY <1>b DEF StpPush, StpTypes
<1>c. ASSUME status' = status PROVE StatusMoves({})
  BY <1>c DEF StatusMoves
<1>1. ASSUME NEW S \in SUBSET Votes, Aggregate(S) PROVE VotesApart' /\ HeldStatus'
  <2> DEFINE new == [votes |-> S, attempts |-> 0]
  <2>1. /\ ag' = ag \cup {new} /\ stp' = stp /\ new.votes = S
        /\ status' = WithStatus(status, S, "aggregated") /\ stp.pc # "pushed"
        /\ \A v \in S : status[v] = "verified"
    BY <1>1 DEF Aggregate
  <2>2. Carriers' \subseteq Carriers
    BY <1>b, <2>1
  <2>3. \A v \in Votes : /\ status'[v] = "verified" => status[v] = "verified" /\ v \notin S
                         /\ status'[v] = "error" => status[v] = "error"
    BY <2>1 DEF WithStatus
  <2> HIDE DEF new
  <2>4. /\ \A t \in Carriers : Apart(new, t.batch) /\ Apart(t.batch, new)
        /\ \A b \in ag : Apart(b, new) /\ Apart(new, b)
        /\ stp.pc # "idle" => Apart(new, stp.batch)
    BY <1>a, <2>1 DEF HeldStatus, Apart
  <2>5. FlightsApart' /\ QueueApart'
    BY <2>1, <2>2, <2>4 DEF VotesApart, FlightsApart, QueueApart, IsPushed
  <2>6. BatchesApart' /\ StpApart'
    BY <2>1, <2>2, <2>4 DEF VotesApart, BatchesApart, StpApart, IsPushed, StpBusy
  <2>7. HeldStatus'
    BY <1>a, <2>1, <2>2, <2>3 DEF HeldStatus
  <2> QED
    BY <2>5, <2>6, <2>7 DEF VotesApart
<1>2. ASSUME NEW S \in SUBSET Votes, ForeignTransition(S) PROVE VotesApart' /\ HeldStatus'
  BY <1>2, <1>b, <1>c, VotesQuiet DEF ForeignTransition, queueVars
<1>3. ASSUME NEW b \in ag, StpTake(b) PROVE VotesApart' /\ HeldStatus'
  <2>1. stp.pc = "idle" /\ stp'.pc = "taken" /\ stp'.batch = b /\ UNCHANGED <<ag, status>>
    BY <1>3 DEF StpTake, StpIdle
  <2>2. Carriers' \subseteq Carriers
    BY <2>1 DEF StpPush
  <2>3. /\ \A t \in Carriers : Apart(b, t.batch)
        /\ \A c \in ag : c = b \/ Apart(c, b)
    BY <2>1 DEF VotesApart, QueueApart, BatchesApart, IsPushed
  <2>4. FlightsApart' /\ QueueApart' /\ BatchesApart'
    BY <2>1, <2>2 DEF VotesApart, FlightsApart, QueueApart, BatchesApart, IsPushed
  <2>5. StpApart'
    BY <2>1, <2>2, <2>3 DEF StpApart
  <2>6. HeldStatus'
    BY <2>1, <2>2 DEF HeldStatus
  <2> QED
    BY <2>4, <2>5, <2>6 DEF VotesApart
<1>4. CASE StpLoad \/ StpCommit \/ StpProofFails \/ StpSetPendingTx
  <2>1. /\ stp.pc \notin {"idle", "pending", "pushed"} /\ stp'.batch = stp.batch
        /\ stp'.pc # "pushed"
    BY <1>4 DEF StpLoad, StpCommit, StpProofFails, StpSetPendingTx, StpTypes
  <2>2. UNCHANGED <<ag, status>>
    BY <1>4 DEF StpLoad, StpCommit, StpProofFails, StpSetPendingTx, queueVars
  <2>3. Carriers' \subseteq Carriers
    BY <2>1 DEF StpPush
  <2> QED
    BY <2>1, <2>2, <2>3, VotesWorked
<1>5. CASE StpMarkPending
  <2>1. /\ stp.pc = "marked" /\ UNCHANGED <<ag, status>>
        /\ stp'.pc = "idle" \/ (stp'.pc = "pending" /\ stp'.batch = stp.batch)
    BY <1>5 DEF StpMarkPending, StpIdle, StpTypes
  <2>2. Carriers' \subseteq Carriers
    BY <2>1 DEF StpPush
  <2> QED
    BY <2>1, <2>2, VotesWorked
<1>6. CASE StpMarkFailed
  <2>1. /\ stp.pc = "failed" /\ stp'.pc = "idle" /\ ag' \subseteq ag
        /\ status' = status \/ status' = WithStatus(status, stp.batch.votes, "error")
    BY <1>6 DEF StpMarkFailed, MarkAggregatorBatchFailed, StpIdle
  <2>2. Carriers' \subseteq Carriers
    BY <2>1 DEF StpPush
  <2>3. VotesApart'
    BY <2>1, <2>2, VotesKept DEF StpBusy, IsPushed
  <2>4. StatusMoves(stp.batch.votes)
    BY <2>1, WithStatusMoves DEF StatusMoves, Status
  <2>5. \A t \in Carriers' : t.batch.votes \cap stp.batch.votes = {}
    BY <2>1, <2>2 DEF VotesApart, StpApart, StpBusy, Apart
  <2>6. HeldStatus'
    BY <2>1, <2>2, <2>4, <2>5, StatusKept
  <2> QED
    BY <2>3, <2>6
<1>7. CASE StpDone
  <2>1. /\ stp.pc = "pushed" /\ stp'.pc = "idle" /\ ag' = ag \ {stp.batch} /\ status' = status
    BY <1>7 DEF StpDone, StpIdle
  <2>2. Carriers' \subseteq Carriers
    BY <2>1 DEF StpPush
  <2>3. VotesApart'
    BY <2>1, <2>2, VotesKept DEF StpBusy, IsPushed
  <2>4. HeldStatus'
    BY <2>1, <2>2 DEF HeldStatus
  <2> QED
    BY <2>3, <2>4
<1>8. CASE StpPush
  <2> DEFINE new == [batch |-> stp.batch, before |-> stp.before, after |-> stp.after]
  <2>1. /\ stp.pc = "pending" /\ stp'.pc = "pushed" /\ stp'.batch = stp.batch /\ ag' = ag
        /\ status' = WithStatus(status, stp.batch.votes, "processed") /\ new.batch = stp.batch
    BY <1>8 DEF StpPush, StpTypes
  <2>2. Carriers' \subseteq Carriers \cup {new}
    BY CarrierStep
  <2> HIDE DEF new
  <2>3. /\ \A t \in Carriers : Apart(new.batch, t.batch) /\ Apart(t.batch, new.batch)
        /\ \A b \in ag : b = stp.batch \/ Apart(b, new.batch)
    BY <2>1, ApartSym DEF VotesApart, StpApart, StpBusy
  <2>4. FlightsApart'
    BY <2>2, <2>3 DEF VotesApart, FlightsApart
  <2>5. QueueApart'
    BY <2>1, <2>2, <2>3 DEF VotesApart, QueueApart, IsPushed
  <2>6. BatchesApart' /\ StpApart'
    BY <2>1 DEF VotesApart, BatchesApart, StpApart, IsPushed, StpBusy
  <2>7. HeldStatus'
    <3>1. \A v \in Votes : /\ status'[v] = "verified" => status[v] = "verified"
                           /\ status'[v] = "error" => status[v] = "error" /\ v \notin stp.batch.votes
      BY <2>1 DEF WithStatus
    <3>2. \A v \in stp.batch.votes : status'[v] \notin {"verified", "error"}
      BY <1>a, <2>1, <3>1 DEF HeldStatus
    <3> QED
      BY <1>a, <2>1, <2>2, <3>1, <3>2 DEF HeldStatus
  <2> QED
    BY <2>4, <2>5, <2>6, <2>7 DEF VotesApart
<1>9. CASE OcpCheckRoot \/ OcpSend \/ \E s \in st : OcpTake(s)
  <2>1. stp' = stp /\ ag' = ag /\ status' = status
    BY <1>9 DEF OcpCheckRoot, OcpSend, OcpTake, queueVars
  <2> QED
    BY <2>1, <1>b, <1>c, VotesQuiet
<1>10. CASE OcpOutdated \/ OcpMarkFailed
  <2> DEFINE s == ocp.trans
  <2>1. /\ ocp.pc # "idle" /\ ocp'.pc = "idle" /\ stp' = stp /\ txs' = txs
        /\ MarkStateTransitionBatchOutdated(s) \/ MarkStateTransitionBatchFailed(s)
    BY <1>10 DEF OcpOutdated, OcpMarkFailed, OcpIdle, chainVars
  <2>2. Carriers' \subseteq Carriers
    BY <1>b, <2>1
  <2>3. CASE s \notin st
    <3>1. ag' = ag /\ status' = status
      BY <2>1, <2>3 DEF MarkStateTransitionBatchOutdated, MarkStateTransitionBatchFailed, queueVars
    <3> QED
      BY <1>c, <2>1, <2>2, <3>1, VotesQuiet
  <2>4. CASE s \in st
    <3>1. /\ st' = st \ {s} /\ StatusMoves(s.batch.votes)
          /\ \E b : b.votes \subseteq s.batch.votes /\ ag' \subseteq ag \cup {b}
      BY <2>1, <2>4, OutdatedVotes, FailedVotes
    <3>2. \A i \in DOMAIN txs' : txs'[i].trans # s
      BY <2>1 DEF SentOnce
    <3>3. s \in Carriers /\ Carriers' \subseteq Carriers \ {s}
      BY <2>1, <2>2, <2>4, <3>1, <3>2, GivenUp
    <3> QED
      BY <2>1, <3>1, <3>3, Requeued
  <2> QED
    BY <2>3, <2>4
<1>11. ASSUME NEW i \in DOMAIN txs, ExecuteTx(i) \/ CallbackPromote(i) \/ CallbackPrune(i)
       PROVE  VotesApart' /\ HeldStatus'
  <2>1. stp' = stp /\ ag' = ag /\ status' = status
    BY <1>11 DEF ExecuteTx, CallbackPromote, CallbackPrune, queueVars
  <2> QED
    BY <2>1, <1>b, <1>c, VotesQuiet
<1>12. ASSUME NEW i \in DOMAIN txs, CallbackDone(i) PROVE VotesApart' /\ HeldStatus'
  <2>1. stp' = stp /\ ag' = ag /\ StatusMoves({})
    BY <1>12 DEF CallbackDone, MarkStateTransitionBatchDone, StatusMoves
  <2> QED
    BY <2>1, <1>b, VotesQuiet
<1>13. ASSUME NEW i \in DOMAIN txs, CallbackError(i) PROVE VotesApart' /\ HeldStatus'
  <2> DEFINE s == txs[i].trans
  <2>1. /\ txs[i].state = "reverted" /\ UNCHANGED <<stp, ocp>>
        /\ MarkStateTransitionBatchFailed(s) /\ txs' = [txs EXCEPT ![i].waiter = "prune"]
    BY <1>13 DEF CallbackError, Answered
  <2>2. Carriers' \subseteq Carriers
    BY <1>b, <2>1
  <2>3. CASE s \notin st
    <3>1. ag' = ag /\ status' = status
      BY <2>1, <2>3 DEF MarkStateTransitionBatchFailed, queueVars
    <3> QED
      BY <1>c, <2>1, <2>2, <3>1, VotesQuiet
  <2>4. CASE s \in st
    <3>1. /\ st' = st \ {s} /\ StatusMoves(s.batch.votes)
          /\ \E b : b.votes \subseteq s.batch.votes /\ ag' \subseteq ag \cup {b}
      BY <2>1, <2>4, FailedVotes
    <3>2. \A j \in DOMAIN txs' : txs'[j].trans = s => txs'[j].state = "reverted"
      <4>1. /\ DOMAIN txs' = DOMAIN txs /\ txs'[i] = [txs[i] EXCEPT !.waiter = "prune"]
            /\ \A j \in DOMAIN txs \ {i} : txs'[j] = txs[j]
        BY <2>1, TxWaiterUpdate
      <4>2. txs'[i].state = "reverted"
        BY <2>1, <4>1, TxFields DEF Tx
      <4> QED
        BY <4>1, <4>2 DEF SentOnce
    <3>3. ocp'.pc # "idle" => ocp'.trans # s
      BY <2>1 DEF SentOnce
    <3>4. s \in Carriers /\ Carriers' \subseteq Carriers \ {s}
      BY <2>2, <2>4, <3>1, <3>2, <3>3, GivenUp
    <3> QED
      BY <2>1, <3>1, <3>4, Requeued
  <2> QED
    BY <2>3, <2>4
<1>14. CASE \/ RootEvent \/ RepeatEvents \/ SyncApply \/ PhaseChange \/ CheckAndRegister
            \/ ReleaseStaleReservations \/ UNCHANGED vars
  <2>1. stp' = stp /\ ag' = ag /\ status' = status
    BY <1>14 DEF RootEvent, RepeatEvents, SyncApply, PhaseChange, CheckAndRegister,
                 ReleaseStaleReservations, vars, queueVars
  <2> QED
    BY <2>1, <1>b, <1>c, VotesQuiet
<1>15. CASE CleanupEndedProcess
  <2>1. stp' = stp /\ ag' \subseteq ag /\ status' = WithStatus(status, Votes, "timeout")
    BY <1>15 DEF CleanupEndedProcess
  <2>2. StatusMoves({})
    BY <2>1, WithStatusMoves DEF StatusMoves, Status
  <2> QED
    BY <2>1, <2>2, <1>b, VotesQuiet
<1>16. CASE Restart
  BY <1>16 DEF Restart, Answered
<1> QED
  BY <1>1, <1>2, <1>3, <1>4, <1>5, <1>6, <1>7, <1>8, <1>9, <1>10, <1>11, <1>12, <1>13, <1>14,
     <1>15, <1>16 DEF Next, StpNext, OcpNext, CallbackNext

\* VoteInv holds in every reachable state of Settlement.
LEMMA VoteInvariance == Spec => []VoteInv
<1>1. Init /\ FlightInv => VoteInv
  <2> SUFFICES ASSUME Init, FlightInv PROVE VoteInv
    OBVIOUS
  <2>1. Carriers = {} /\ ag = {} /\ stp.pc = "idle"
    BY DEF Init, Carriers, OcpIdle, StpIdle
  <2>2. VotesApart /\ HeldStatus
    BY <2>1 DEF VotesApart, FlightsApart, QueueApart, BatchesApart, StpApart, StpBusy, HeldStatus
  <2>3. SentOnce
    BY DEF Init, SentOnce, Proved, OcpIdle, StpIdle
  <2> QED
    BY <2>2, <2>3, InvInit DEF VoteInv
<1>2. VoteInv /\ FlightInv' /\ [Next]_vars => VoteInv'
  <2> SUFFICES ASSUME VoteInv, FlightInv', [Next]_vars PROVE VoteInv'
    OBVIOUS
  <2>1. IInv' /\ restarts \in Nat /\ (Answered' => Answered)
    BY InvStep, AnsweredBefore DEF VoteInv, FlightInv
  <2>2. ASSUME Answered' PROVE VotesApart' /\ HeldStatus' /\ SentOnce'
    <3>1. VotesApart /\ HeldStatus /\ SentOnce /\ OneFlight
      BY <2>1, <2>2 DEF VoteInv, FlightInv
    <3> QED
      BY <2>1, <2>2, <3>1, VoteStep, SentStep DEF VoteInv
  <2> QED
    BY <2>1, <2>2 DEF VoteInv
<1> QED
  BY <1>1, <1>2, FlightInvariance, PTL DEF Spec

\* The batch of a transition that is outdated, reverted or not sent goes back to
\* ag/ or fails, but never one whose votes a mined transaction of this node has
\* put on chain: MarkStateTransitionBatchFailed and MarkAggregatorBatchFailed are
\* only ever called for votes that no other transition carries.
THEOREM CountedVotesDoNotFail == Spec => []CountedIsNotFailed
<1>1. VoteInv => CountedIsNotFailed
  <2> SUFFICES ASSUME VoteInv, Answered, NEW i \in DOMAIN txs, txs[i].state = "mined",
                      NEW v \in txs[i].trans.batch.votes
               PROVE  status[v] # "error"
    BY DEF CountedIsNotFailed
  <2>1. txs[i].trans \in Carriers
    BY DEF Carriers
  <2> QED
    BY <2>1 DEF VoteInv, HeldStatus
<1> QED
  BY <1>1, VoteInvariance, PTL

----------------------------------------------------------------------------
(* Which steps lose votes                                                  *)

OnTheWay == {"aggregated", "processed"}

\* The votes in the queues, vote by vote.
LEMMA InPipelineIs ==
  /\ \A v : v \in InPipeline <=> \/ \E b \in ag : v \in b.votes
                                 \/ \E s \in st : v \in s.batch.votes
  /\ \A v : v \in InPipeline' <=> \/ \E b \in ag' : v \in b.votes
                                  \/ \E s \in st' : v \in s.batch.votes
<1>1. ASSUME NEW A, NEW S, NEW v
      PROVE  v \in (UNION {b.votes : b \in A}) \cup (UNION {s.batch.votes : s \in S})
               <=> (\E b \in A : v \in b.votes) \/ (\E s \in S : v \in s.batch.votes)
  OBVIOUS
<1> QED
  BY <1>1 DEF InPipeline

\* A step loses no vote if whatever leaves the queues leaves the pipeline too,
\* and whatever enters the pipeline is in some queue.
LEMMA NoneLost ==
  ASSUME \A v \in Votes : status'[v] \in OnTheWay => v \in InPipeline' \/ status[v] \in OnTheWay,
         \A v \in Votes : status'[v] \in OnTheWay /\ v \in InPipeline => v \in InPipeline'
  PROVE  Lost' \subseteq Lost
BY DEF Lost, OnTheWay

\* A step that leaves the queues and the status alone loses nothing.
LEMMA QueuesQuiet ==
  ASSUME ag' = ag, st' = st, status' = status
  PROVE  Lost' \subseteq Lost
BY DEF Lost, InPipeline

\* What setVoteIDStatus writes.
LEMMA WithStatusIs ==
  ASSUME NEW old, NEW S, NEW new, NEW v \in Votes
  PROVE  WithStatus(old, S, new)[v] \in {old[v], new}
         /\ (v \notin S => WithStatus(old, S, new)[v] = old[v])
         /\ (v \in S => WithStatus(old, S, new)[v] \in {"done", new})
BY DEF WithStatus

\* MarkStateTransitionBatchFailed loses votes only if it cannot load the state.
LEMMA FailedLoses ==
  ASSUME NEW s \in Transition, MarkStateTransitionBatchFailed(s), storedRoot \in known
  PROVE  Lost' \subseteq Lost
<1> DEFINE votes == s.batch.votes
           inState == votes \cap content[storedRoot]
           again == [votes |-> votes \ inState, attempts |-> pag.attempts + 1]
<1>1. CASE s \notin st
  BY <1>1, QueuesQuiet DEF MarkStateTransitionBatchFailed, queueVars
<1>2. CASE s \in st /\ status' = WithStatus(status, votes, "error") /\ ag' = ag
  <2>1. st' = st \ {s}
    BY <1>2 DEF MarkStateTransitionBatchFailed
  <2>2. \A v \in Votes : status'[v] \in OnTheWay => v \notin votes /\ status'[v] = status[v]
    BY <1>2, WithStatusIs DEF OnTheWay
  <2>3. \A v : v \in InPipeline /\ v \notin votes => v \in InPipeline'
    BY <1>2, <2>1, InPipelineIs
  <2> QED
    BY <2>2, <2>3, NoneLost
<1>3. CASE /\ s \in st
           /\ ag' = IF again.votes = {} THEN ag ELSE ag \cup {again}
           /\ status' = WithStatus(WithStatus(status, inState, "error"), again.votes, "aggregated")
  <2>1. st' = st \ {s}
    BY <1>3 DEF MarkStateTransitionBatchFailed
  <2>2. ag \subseteq ag' /\ \A v \in again.votes : \E b \in ag' : v \in b.votes
    BY <1>3
  <2>3. \A v \in again.votes : v \in InPipeline'
    BY <2>2, InPipelineIs
  <2>4. \A v : v \in InPipeline /\ v \notin votes => v \in InPipeline'
    BY <2>1, <2>2, InPipelineIs
  <2>5. \A v \in Votes : v \in inState /\ v \notin again.votes => status'[v] \in {"done", "error"}
    BY <1>3, WithStatusIs
  <2>6. \A v \in Votes : v \notin votes => status'[v] = status[v]
    BY <1>3, WithStatusIs
  <2>7. \A v : v \in votes => v \in again.votes \/ (v \in inState /\ v \notin again.votes)
    OBVIOUS
  <2>8. \A v \in Votes : status'[v] \in OnTheWay => v \in again.votes \/ v \notin votes
    BY <2>5, <2>7 DEF OnTheWay
  <2> QED
    BY <2>3, <2>4, <2>6, <2>8, NoneLost
<1> QED
  BY <1>1, <1>2, <1>3 DEF MarkStateTransitionBatchFailed

\* MarkStateTransitionBatchOutdated puts back the batch of the transition that it
\* removes, which is the pending one.
LEMMA OutdatedLoses ==
  ASSUME OneFlight, NEW s, MarkStateTransitionBatchOutdated(s)
  PROVE  Lost' \subseteq Lost
<1>1. CASE s \notin st
  BY <1>1, QueuesQuiet DEF MarkStateTransitionBatchOutdated
<1>2. CASE s \in st
  <2>1. pag = s.batch /\ pag # NoBatch
    BY <1>2 DEF OneFlight
  <2>2. /\ st' = st \ {s} /\ ag' = ag \cup {s.batch}
        /\ status' = WithStatus(status, s.batch.votes, "aggregated")
    BY <1>2, <2>1 DEF MarkStateTransitionBatchOutdated
  <2>3. InPipeline \subseteq InPipeline' /\ s.batch.votes \subseteq InPipeline'
    BY <2>2, InPipelineIs
  <2>4. \A v \in Votes : v \notin s.batch.votes => status'[v] = status[v]
    BY <2>2, WithStatusIs
  <2> QED
    BY <2>3, <2>4, NoneLost
<1> QED
  BY <1>1, <1>2

\* The step of every action.
LEMMA LossStep ==
  ASSUME FlightInv, [Next]_vars, Answered'
  PROVE  \/ Lost' \subseteq Lost
         \/ StpDone /\ Lost' \ Lost \subseteq stp.batch.votes
         \/ /\ storedRoot \notin known
            /\ OcpMarkFailed \/ \E i \in DOMAIN txs : CallbackError(i)
<1>0. TypeInv /\ TxTypes /\ OcpTypes /\ restarts \in Nat /\ OneFlight
  BY AnsweredBefore DEF FlightInv, TypeInv
<1>1. ASSUME NEW S \in SUBSET Votes, Aggregate(S) PROVE Lost' \subseteq Lost
  <2>1. /\ st' = st /\ ag' = ag \cup {[votes |-> S, attempts |-> 0]}
        /\ status' = WithStatus(status, S, "aggregated")
    BY <1>1 DEF Aggregate
  <2>2. InPipeline \subseteq InPipeline' /\ S \subseteq InPipeline'
    BY <2>1, InPipelineIs
  <2>3. \A v \in Votes : v \notin S => status'[v] = status[v]
    BY <2>1, WithStatusIs
  <2> QED
    BY <2>2, <2>3, NoneLost
<1>2. ASSUME NEW S \in SUBSET Votes, ForeignTransition(S) PROVE Lost' \subseteq Lost
  BY <1>2, QueuesQuiet DEF ForeignTransition, queueVars
<1>3. ASSUME NEW b \in ag, StpTake(b) PROVE Lost' \subseteq Lost
  BY <1>3, QueuesQuiet DEF StpTake
<1>4. CASE StpLoad \/ StpCommit \/ StpProofFails \/ StpSetPendingTx \/ StpMarkPending
  <2>1. ag' = ag /\ st' = st /\ status' = status
    BY <1>4 DEF StpLoad, StpCommit, StpProofFails, StpSetPendingTx, StpMarkPending, queueVars
  <2> QED
    BY <2>1, QueuesQuiet
<1>5. CASE StpMarkFailed
  <2>1. CASE stp.batch \notin ag
    <3>1. ag' = ag /\ st' = st /\ status' = status
      BY <1>5, <2>1 DEF StpMarkFailed, MarkAggregatorBatchFailed
    <3> QED
      BY <3>1, QueuesQuiet
  <2>2. CASE stp.batch \in ag
    <3>1. /\ st' = st /\ ag' = ag \ {stp.batch}
          /\ status' = WithStatus(status, stp.batch.votes, "error")
      BY <1>5, <2>2 DEF StpMarkFailed, MarkAggregatorBatchFailed
    <3>2. \A v : v \in InPipeline /\ v \notin stp.batch.votes => v \in InPipeline'
      BY <3>1, InPipelineIs
    <3>3. \A v \in Votes : status'[v] \in OnTheWay
                            => v \notin stp.batch.votes /\ status'[v] = status[v]
      BY <3>1, WithStatusIs DEF OnTheWay
    <3> QED
      BY <3>2, <3>3, NoneLost
  <2> QED
    BY <2>1, <2>2
<1>6. CASE StpPush
  <2> DEFINE t == [batch |-> stp.batch, before |-> stp.before, after |-> stp.after]
  <2>1. /\ ag' = ag /\ st' = st \cup {t} /\ t.batch = stp.batch
        /\ status' = WithStatus(status, stp.batch.votes, "processed")
    BY <1>6 DEF StpPush
  <2>2. InPipeline \subseteq InPipeline' /\ stp.batch.votes \subseteq InPipeline'
    BY <2>1, InPipelineIs
  <2>3. \A v \in Votes : v \notin stp.batch.votes => status'[v] = status[v]
    BY <2>1, WithStatusIs
  <2> QED
    BY <2>2, <2>3, NoneLost
<1>7. CASE StpDone
  <2>1. ag' = ag \ {stp.batch} /\ st' = st /\ status' = status
    BY <1>7 DEF StpDone
  <2>2. \A v : v \in InPipeline /\ v \notin stp.batch.votes => v \in InPipeline'
    BY <2>1, InPipelineIs
  <2> QED
    BY <1>7, <2>1, <2>2 DEF Lost
<1>8. CASE (\E s \in st : OcpTake(s)) \/ OcpCheckRoot \/ OcpSend
  <2>1. ag' = ag /\ st' = st /\ status' = status
    BY <1>8 DEF OcpTake, OcpCheckRoot, OcpSend, queueVars
  <2> QED
    BY <2>1, QueuesQuiet
<1>9. CASE OcpOutdated
  BY <1>0, <1>9, OutdatedLoses DEF OcpOutdated
<1>10. CASE OcpMarkFailed
  BY <1>0, <1>10, FailedLoses DEF OcpMarkFailed, OcpTypes
<1>11. ASSUME NEW i \in DOMAIN txs, CallbackError(i)
       PROVE  Lost' \subseteq Lost \/ storedRoot \notin known
  BY <1>0, <1>11, TxFields, FailedLoses DEF CallbackError
<1>12. ASSUME NEW i \in DOMAIN txs, ExecuteTx(i) \/ CallbackPromote(i) \/ CallbackPrune(i)
       PROVE  Lost' \subseteq Lost
  <2>1. ag' = ag /\ st' = st /\ status' = status
    BY <1>12 DEF ExecuteTx, CallbackPromote, CallbackPrune, queueVars
  <2> QED
    BY <2>1, QueuesQuiet
<1>13. ASSUME NEW i \in DOMAIN txs, CallbackDone(i) PROVE Lost' \subseteq Lost
  <2> DEFINE t == txs[i].trans
  <2>1. /\ ag' = ag /\ st' = st \ {t}
        /\ status' = [v \in Votes |-> IF t \in st /\ v \in t.batch.votes THEN "done" ELSE status[v]]
    BY <1>13 DEF CallbackDone, MarkStateTransitionBatchDone
  <2>2. \A v \in Votes : status'[v] \in OnTheWay
                          => status'[v] = status[v] /\ (t \notin st \/ v \notin t.batch.votes)
    BY <2>1 DEF OnTheWay
  <2>3. \A v : v \in InPipeline /\ (t \notin st \/ v \notin t.batch.votes) => v \in InPipeline'
    BY <2>1, InPipelineIs
  <2> QED
    BY <2>2, <2>3, NoneLost
<1>14. CASE \/ RootEvent \/ RepeatEvents \/ SyncApply \/ PhaseChange \/ CheckAndRegister
            \/ ReleaseStaleReservations \/ UNCHANGED vars
  <2>1. ag' = ag /\ st' = st /\ status' = status
    BY <1>14 DEF RootEvent, RepeatEvents, SyncApply, PhaseChange, CheckAndRegister,
                 ReleaseStaleReservations, vars, queueVars
  <2> QED
    BY <2>1, QueuesQuiet
<1>15. CASE CleanupEndedProcess
  <2>1. \A v \in Votes : status'[v] \notin OnTheWay
    BY <1>15, WithStatusIs DEF CleanupEndedProcess, OnTheWay
  <2> QED
    BY <2>1, NoneLost
<1>16. CASE Restart
  BY <1>0, <1>16 DEF Restart, Answered
<1> QED
  BY <1>1, <1>2, <1>3, <1>4, <1>5, <1>6, <1>7, <1>8, <1>9, <1>10, <1>11, <1>12, <1>13, <1>14,
     <1>15, <1>16 DEF Next, StpNext, OcpNext, CallbackNext

\* Of all the steps of a node that was told of every transaction, only
\* MarkAggregatorBatchDone on a batch put back meanwhile, and
\* MarkStateTransitionBatchFailed when it cannot load the state at the stored
\* root, leave a vote on its way that no queue holds.
THEOREM VotesAreLostKnowingly == Spec => LossesAreKnown
<1>1. FlightInv /\ [Next]_vars =>
        [Answered' =>
            \/ Lost' \subseteq Lost
            \/ StpDone /\ Lost' \ Lost \subseteq stp.batch.votes
            \/ /\ storedRoot \notin known
               /\ OcpMarkFailed \/ \E i \in DOMAIN txs : CallbackError(i)]_vars
  BY LossStep
<1> QED
  BY <1>1, FlightInvariance, PTL DEF Spec, LossesAreKnown
=============================================================================
