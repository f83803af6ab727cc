------------------------- MODULE BallotQueueProofs -------------------------
(***************************************************************************)
(* Proofs about BallotQueue, for any number of votes, voters, batches,     *)
(* workers' submissions and restarts.                                      *)
(***************************************************************************)
EXTENDS BallotQueue, TLAPS

----------------------------------------------------------------------------
(* Operators of the model                                                  *)

\* WithStatus yields a status for every vote.
LEMMA WithStatusType ==
    ASSUME NEW st \in [Votes -> Statuses], NEW S, NEW new \in Statuses
    PROVE  WithStatus(st, S, new) \in [Votes -> Statuses]
  BY DEF WithStatus

\* WithStatus never takes a vote out of done.
LEMMA WithStatusKeepsDone ==
    ASSUME NEW st \in [Votes -> Statuses], NEW S, NEW new, NEW v \in Votes,
           st[v] = "done"
    PROVE  WithStatus(st, S, new)[v] = "done"
  BY DEF WithStatus

\* Released locks are a subset of the locks held.
LEMMA ReleaseLocksType ==
    ASSUME NEW S, voteIDLocks \subseteq Votes, addressLocks \subseteq Addresses,
           ReleaseLocks(S)
    PROVE  voteIDLocks' \subseteq Votes /\ addressLocks' \subseteq Addresses
  BY DEF ReleaseLocks

----------------------------------------------------------------------------
(* Type correctness                                                        *)

\* A ballot processor that is not idle has a ballot: the strengthening that
\* makes TypeOK inductive (ProverStore moves prover.vote between the queues).
ProverHasVote == prover.pc # "idle" => prover.vote \in Votes

TypeInv == TypeOK /\ ProverHasVote

\* Storage.New starts with typed, empty queues.
LEMMA TypeInit == Init => TypeInv
  BY BoundAssumption
  DEF Init, TypeInv, TypeOK, ProverHasVote, Idle, AggIdle, Statuses

\* The queues as they are.
Here == [pending |-> pending, verified |-> verified, batches |-> batches]

\* The queues as a crash may leave them.
Disk == [pending : SUBSET Votes, verified : SUBSET Votes,
         batches : [BatchKeys -> SUBSET Votes]]

\* A crash in the middle of a storage call leaves one ballot, one batch or
\* part of the removals of a batch written.
LEMMA TornQueuesShape ==
    ASSUME TypeInv, NEW disk \in TornQueues
    PROVE  \/ \E v \in Votes :
                \/ disk = [Here EXCEPT !.pending = @ \cup {v}]
                \/ disk = [Here EXCEPT !.verified = @ \cup {v}]
                \/ disk = [Here EXCEPT !.verified = @ \cup {v}, !.pending = @ \ {v}]
                \/ disk = [Here EXCEPT !.pending = @ \ {v}]
           \/ \E k \in BatchKeys : disk = [Here EXCEPT !.batches[k] = agg.chosen]
           \/ \E S \in SUBSET agg.chosen : disk = [Here EXCEPT !.verified = @ \ S]
  BY DEF TornQueues, Here, TypeInv, TypeOK

\* What a crash in the middle of a storage call leaves on disk has its type.
LEMMA TornQueuesType == TypeInv => TornQueues \subseteq Disk
  <1> SUFFICES ASSUME TypeInv, NEW disk \in TornQueues PROVE disk \in Disk
    OBVIOUS
  <1>1. Here \in Disk
    BY DEF Here, Disk, TypeInv, TypeOK
  <1>2. agg.chosen \subseteq Votes
    BY DEF TypeInv, TypeOK
  <1>3. ASSUME NEW v \in Votes
        PROVE  /\ [Here EXCEPT !.pending = @ \cup {v}] \in Disk
               /\ [Here EXCEPT !.verified = @ \cup {v}] \in Disk
               /\ [Here EXCEPT !.verified = @ \cup {v}, !.pending = @ \ {v}] \in Disk
               /\ [Here EXCEPT !.pending = @ \ {v}] \in Disk
    BY <1>1 DEF Disk
  <1>4. ASSUME NEW k \in BatchKeys PROVE [Here EXCEPT !.batches[k] = agg.chosen] \in Disk
    BY <1>1, <1>2 DEF Disk
  <1>5. ASSUME NEW S \in SUBSET agg.chosen PROVE [Here EXCEPT !.verified = @ \ S] \in Disk
    BY <1>1 DEF Disk
  <1>6. \/ \E v \in Votes :
             \/ disk = [Here EXCEPT !.pending = @ \cup {v}]
             \/ disk = [Here EXCEPT !.verified = @ \cup {v}]
             \/ disk = [Here EXCEPT !.verified = @ \cup {v}, !.pending = @ \ {v}]
             \/ disk = [Here EXCEPT !.pending = @ \ {v}]
        \/ \E k \in BatchKeys : disk = [Here EXCEPT !.batches[k] = agg.chosen]
        \/ \E S \in SUBSET agg.chosen : disk = [Here EXCEPT !.verified = @ \ S]
    BY TornQueuesShape
  <1> QED BY <1>3, <1>4, <1>5, <1>6

\* A crash in the middle of a storage call changes at most one batch, to the
\* one the aggregate processor was about to store.
LEMMA TornBatches ==
    ASSUME TypeInv, NEW disk \in TornQueues
    PROVE  \/ disk.batches = batches
           \/ \E k \in BatchKeys : disk.batches = [batches EXCEPT ![k] = agg.chosen]
  <1>1. ASSUME NEW v \in Votes
        PROVE  /\ [Here EXCEPT !.pending = @ \cup {v}].batches = batches
               /\ [Here EXCEPT !.verified = @ \cup {v}].batches = batches
               /\ [Here EXCEPT !.verified = @ \cup {v}, !.pending = @ \ {v}].batches = batches
               /\ [Here EXCEPT !.pending = @ \ {v}].batches = batches
    BY DEF Here
  <1>2. ASSUME NEW k \in BatchKeys
        PROVE  [Here EXCEPT !.batches[k] = agg.chosen].batches
                 = [batches EXCEPT ![k] = agg.chosen]
    BY DEF Here
  <1>3. ASSUME NEW S \in SUBSET agg.chosen
        PROVE  [Here EXCEPT !.verified = @ \ S].batches = batches
    BY DEF Here
  <1>4. \/ \E v \in Votes :
             \/ disk = [Here EXCEPT !.pending = @ \cup {v}]
             \/ disk = [Here EXCEPT !.verified = @ \cup {v}]
             \/ disk = [Here EXCEPT !.verified = @ \cup {v}, !.pending = @ \ {v}]
             \/ disk = [Here EXCEPT !.pending = @ \ {v}]
        \/ \E k \in BatchKeys : disk = [Here EXCEPT !.batches[k] = agg.chosen]
        \/ \E S \in SUBSET agg.chosen : disk = [Here EXCEPT !.verified = @ \ S]
    BY TornQueuesShape
  <1> QED BY <1>1, <1>2, <1>3, <1>4

\* Every step of every goroutine, of a client and of a crash keeps the types.
LEMMA TypeStep == TypeInv /\ [Next]_vars => TypeInv'
  <1> SUFFICES ASSUME TypeInv, [Next]_vars PROVE TypeInv'
    OBVIOUS
  <1> USE DEF TypeInv, TypeOK, ProverHasVote
  <1>1. ASSUME NEW v \in Votes, NewVote(v) PROVE TypeInv'
    BY <1>1
    DEF NewVote, queueVars, lockVars, chainVars, actorVars
  <1>2. ASSUME NEW v \in Votes, PushPendingBallot(v) PROVE TypeInv'
    BY <1>2, WithStatusType, AddressAssumption
    DEF PushPendingBallot, Statuses, queueVars, lockVars, chainVars, actorVars
  <1>3. ASSUME NEW v \in Votes, ProverTake(v) PROVE TypeInv'
    BY <1>3
    DEF ProverTake, Idle, queueVars, lockVars, chainVars, actorVars
  <1>4. CASE ProverStart
    BY <1>4
    DEF ProverStart, queueVars, lockVars, chainVars, actorVars
  <1>5. CASE ProverReturn
    BY <1>5
    DEF ProverReturn, queueVars, lockVars, chainVars, actorVars
  <1>6. CASE ProverStore
    BY <1>6, WithStatusType, ReleaseLocksType
    DEF ProverStore, MarkBallotVerified, RemovePendingBallot, Idle, Statuses, queueVars, lockVars,
        chainVars, actorVars
  <1>7. ASSUME NEW v \in Votes, WorkerNewJob(v) PROVE TypeInv'
    BY <1>7
    DEF WorkerNewJob, queueVars, lockVars, chainVars, actorVars
  <1>8. ASSUME NEW v \in Votes, WorkerSubmit(v) PROVE TypeInv'
    BY <1>8, BoundAssumption
    DEF WorkerSubmit, queueVars, lockVars, chainVars, actorVars
  <1>9. ASSUME NEW v \in Votes, WorkerStore(v) PROVE TypeInv'
    BY <1>9, WithStatusType, BoundAssumption
    DEF WorkerStore, MarkBallotVerified, Statuses, queueVars, lockVars, chainVars, actorVars
  <1>10. ASSUME NEW v \in Votes, JobTimeout(v) PROVE TypeInv'
    BY <1>10
    DEF JobTimeout, queueVars, lockVars, chainVars, actorVars
  <1>11. CASE AggPull
    BY <1>11
    DEF AggPull, queueVars, lockVars, chainVars, actorVars
  <1>12. CASE AggLoadState
    BY <1>12
    DEF AggLoadState, AggIdle, queueVars, lockVars, chainVars, actorVars
  <1>13. ASSUME NEW v \in Votes, AggReject(v) PROVE TypeInv'
    BY <1>13, WithStatusType, ReleaseLocksType
    DEF AggReject, MarkVerifiedBallotsFailed, Statuses, queueVars, lockVars, chainVars, actorVars
  <1>14. ASSUME NEW v \in Votes, AggAccept(v) PROVE TypeInv'
    BY <1>14
    DEF AggAccept, queueVars, lockVars, chainVars, actorVars
  <1>15. CASE AggReleaseSurplus
    BY <1>15
    DEF AggReleaseSurplus, ReleaseVerifiedBallotReservations, queueVars, lockVars, chainVars, actorVars
  <1>16. CASE AggProve
    BY <1>16
    DEF AggProve, AggIdle, queueVars, lockVars, chainVars, actorVars
  <1>17. CASE AggFail
    BY <1>17, WithStatusType, ReleaseLocksType
    DEF AggFail, MarkVerifiedBallotsFailed, Statuses, queueVars, lockVars, chainVars, actorVars
  <1>18. CASE AggRelease
    BY <1>18
    DEF AggRelease, ReleaseVerifiedBallotReservations, AggIdle, queueVars, lockVars, chainVars, actorVars
  <1>19. CASE AggPush
    BY <1>19, WithStatusType
    DEF AggPush, PushAggregatorBatch, Statuses, queueVars, lockVars, chainVars, actorVars
  <1>20. CASE AggDone
    BY <1>20, ReleaseLocksType
    DEF AggDone, MarkVerifiedBallotsDone, AggIdle, queueVars, lockVars, chainVars, actorVars
  <1>21. ASSUME NEW k \in BatchKeys, TransitionCommit(k) PROVE TypeInv'
    BY <1>21, WithStatusType
    DEF TransitionCommit, Statuses, queueVars, lockVars, chainVars, actorVars
  <1>22. ASSUME NEW k \in BatchKeys, TransitionFail(k) PROVE TypeInv'
    BY <1>22, WithStatusType
    DEF TransitionFail, MarkAggregatorBatchFailed, Statuses, queueVars, lockVars, chainVars, actorVars
  <1>23. ASSUME NEW t \in transitions, Settle(t) PROVE TypeInv'
    BY <1>23
    DEF Settle, Statuses, queueVars, lockVars, chainVars, actorVars
  <1>24. ASSUME NEW t \in transitions, SettleFail(t) PROVE TypeInv'
    BY <1>24, WithStatusType
    DEF SettleFail, PushAggregatorBatch, Statuses, queueVars, lockVars, chainVars, actorVars
  <1>25. CASE StatusChange
    BY <1>25
    DEF StatusChange, queueVars, lockVars, chainVars, actorVars
  <1>26. CASE ResultsEvent
    BY <1>26
    DEF ResultsEvent, queueVars, lockVars, chainVars, actorVars
  <1>27. CASE CleanProcessStaleVotes
    BY <1>27, ReleaseLocksType
    DEF CleanProcessStaleVotes, queueVars, lockVars, chainVars, actorVars
  <1>28. CASE Expire
    BY <1>28
    DEF Expire, queueVars, lockVars, chainVars, actorVars
  <1>29. CASE MarkEnded
    BY <1>29
    DEF MarkEnded, queueVars, lockVars, chainVars, actorVars
  <1>30. CASE CleanupEndedProcess
    BY <1>30, WithStatusType, ReleaseLocksType
    DEF CleanupEndedProcess, Statuses, queueVars, lockVars, chainVars, actorVars
  <1>31. CASE CheckAndRegister
    BY <1>31
    DEF CheckAndRegister, queueVars, lockVars, chainVars, actorVars
  <1>32. CASE ReleaseStaleReservations
    BY <1>32
    DEF ReleaseStaleReservations, queueVars, lockVars, chainVars, actorVars
  <1>33. CASE Restart
    <2>1. PICK disk \in Disk :
            /\ pending' = disk.pending
            /\ verified' = disk.verified
            /\ batches' = disk.batches
            /\ voteIDLocks' = disk.verified \cup UNION {disk.batches[k] : k \in BatchKeys}
      BY <1>33, TornQueuesType DEF Restart, Disk
    <2>2. /\ pending' \subseteq Votes /\ verified' \subseteq Votes
          /\ batches' \in [BatchKeys -> SUBSET Votes]
          /\ voteIDLocks' \subseteq Votes
      BY <2>1 DEF Disk
    <2>3. addressLocks' \subseteq Addresses
      BY <1>33, <2>2, AddressAssumption DEF Restart
    <2>4. restarts' \in 0 .. MaxRestarts /\ submits' \in [Votes -> 0 .. MaxSubmits]
      BY <1>33, BoundAssumption DEF Restart
    <2>5. process' \in [status : {"ready", "paused", "ended", "results"},
                        expired : BOOLEAN, registered : BOOLEAN]
      BY <1>33 DEF Restart
    <2>6. /\ pendingRes' = {} /\ verifiedRes' = {} /\ requests' = {} /\ jobs' = {}
          /\ prover' = Idle /\ agg' = AggIdle
          /\ monitor' = [ended |-> FALSE, stale |-> 0]
          /\ UNCHANGED <<transitions, tree, status>>
      BY <1>33 DEF Restart
    <2> QED
      BY <2>2, <2>3, <2>4, <2>5, <2>6 DEF Idle, AggIdle
  <1>34. CASE UNCHANGED vars
    BY <1>34 DEF vars, queueVars, lockVars, chainVars, actorVars
  <1> QED
    BY <1>1, <1>2, <1>3, <1>4, <1>5, <1>6, <1>7, <1>8, <1>9, <1>10, <1>11,
       <1>12, <1>13, <1>14, <1>15, <1>16, <1>17, <1>18, <1>19, <1>20, <1>21,
       <1>22, <1>23, <1>24, <1>25, <1>26, <1>27, <1>28, <1>29, <1>30, <1>31,
       <1>32, <1>33, <1>34
    DEF Next, ProverNext, WorkerNext, AggNext, SettlementNext, MonitorNext

\* Every variable keeps its type, for every choice of the constants, with
\* torn writes and any number of restarts.
THEOREM TypeCorrect == Spec => []TypeOK
  <1>1. TypeInv => TypeOK
    BY DEF TypeInv
  <1> QED BY TypeInit, TypeStep, <1>1, PTL DEF Spec

----------------------------------------------------------------------------
(* Settled votes                                                           *)

\* No step takes a vote out of done.  Only the steps listed write statuses;
\* each of them goes through WithStatus, or sets done itself.
LEMMA DoneStep ==
    ASSUME TypeInv, [Next]_vars, NEW v \in Votes, status[v] = "done"
    PROVE  status'[v] = "done"
  <1> USE DEF TypeInv, TypeOK
  <1>1. CASE \E w \in Votes : PushPendingBallot(w)
    BY <1>1, WithStatusKeepsDone DEF PushPendingBallot
  <1>2. CASE ProverStore
    BY <1>2, WithStatusKeepsDone DEF ProverStore, MarkBallotVerified, RemovePendingBallot
  <1>3. CASE \E w \in Votes : WorkerStore(w)
    BY <1>3, WithStatusKeepsDone DEF WorkerStore, MarkBallotVerified
  <1>4. CASE \E w \in Votes : AggReject(w)
    BY <1>4, WithStatusKeepsDone DEF AggReject, MarkVerifiedBallotsFailed
  <1>5. CASE AggFail
    <2>1. PICK bad \in SUBSET agg.chosen : MarkVerifiedBallotsFailed(bad)
      BY <1>5 DEF AggFail
    <2> QED BY <2>1, WithStatusKeepsDone DEF MarkVerifiedBallotsFailed
  <1>6. CASE AggPush
    BY <1>6, WithStatusKeepsDone DEF AggPush, PushAggregatorBatch
  <1>7. CASE \E k \in BatchKeys : TransitionCommit(k)
    BY <1>7, WithStatusKeepsDone DEF TransitionCommit
  <1>8. CASE \E k \in BatchKeys : TransitionFail(k)
    BY <1>8, WithStatusKeepsDone DEF TransitionFail, MarkAggregatorBatchFailed
  <1>9. CASE \E t \in transitions : Settle(t)
    BY <1>9 DEF Settle
  <1>10. CASE \E t \in transitions : SettleFail(t)
    BY <1>10, WithStatusKeepsDone DEF SettleFail, PushAggregatorBatch
  <1>11. CASE CleanupEndedProcess
    BY <1>11, WithStatusKeepsDone DEF CleanupEndedProcess
  <1>12. CASE UNCHANGED status
    BY <1>12
  <1> QED
    BY <1>1, <1>2, <1>3, <1>4, <1>5, <1>6, <1>7, <1>8, <1>9, <1>10, <1>11,
       <1>12
    DEF Next, ProverNext, WorkerNext, AggNext, SettlementNext, MonitorNext,
       NewVote, ProverTake, ProverStart, ProverReturn, WorkerNewJob,
       WorkerSubmit, JobTimeout, AggPull, AggLoadState, AggAccept,
       AggReleaseSurplus, ReleaseVerifiedBallotReservations, AggProve,
       AggRelease, AggDone, MarkVerifiedBallotsDone, StatusChange,
       ResultsEvent, CleanProcessStaleVotes, Expire, MarkEnded,
       CheckAndRegister, ReleaseStaleReservations, Restart, vars

\* A settled vote stays settled: no late call of any actor, no cleanup and no
\* crash reverts it.
THEOREM DoneStaysDone == Spec => DoneIsFinal
  <1>1. TypeInv /\ [Next]_vars =>
          [\A v \in Votes : status[v] = "done" => status'[v] = "done"]_vars
    BY DoneStep
  <1> QED BY TypeInit, TypeStep, <1>1, PTL DEF Spec, DoneIsFinal

----------------------------------------------------------------------------
(* Voters of a batch                                                       *)

\* No two votes in S are by the same voter.
DistinctVoters(S) == \A v, w \in S : AddressOf[v] = AddressOf[w] => v = w

\* The strengthening that makes UniqueAddressPerBatch inductive: the ballots
\* the aggregate processor works on have distinct voters, and so have the
\* transitions, which go back to the aggregator queue when they fail.
VoterInv ==
    /\ DistinctVoters(agg.todo \cup agg.chosen)
    /\ \A k \in BatchKeys : DistinctVoters(batches[k])
    /\ \A t \in transitions : DistinctVoters(t)

\* Every step preserves VoterInv.
LEMMA VoterStep == TypeInv /\ VoterInv /\ [Next]_vars => VoterInv'
  <1> SUFFICES ASSUME TypeInv, VoterInv, [Next]_vars PROVE VoterInv'
    OBVIOUS
  <1>1. CASE AggPull
    BY <1>1 DEF AggPull, Pullable, VoterInv, DistinctVoters, chainVars
  <1>2. CASE AggLoadState
    BY <1>2 DEF AggLoadState, AggIdle, VoterInv, DistinctVoters, chainVars, TypeInv, TypeOK
  <1>3. CASE \E v \in Votes : AggReject(v)
    BY <1>3 DEF AggReject, VoterInv, DistinctVoters, chainVars, TypeInv, TypeOK
  <1>4. CASE \E v \in Votes : AggAccept(v)
    BY <1>4 DEF AggAccept, VoterInv, DistinctVoters, chainVars, TypeInv, TypeOK
  <1>5. CASE AggReleaseSurplus
    BY <1>5 DEF AggReleaseSurplus, VoterInv, DistinctVoters, chainVars, TypeInv, TypeOK
  <1>6. CASE AggProve
    BY <1>6 DEF AggProve, AggIdle, VoterInv, DistinctVoters, chainVars, TypeInv, TypeOK
  <1>7. CASE AggFail
    BY <1>7 DEF AggFail, VoterInv, DistinctVoters, chainVars, TypeInv, TypeOK
  <1>8. CASE AggRelease \/ AggDone
    BY <1>8 DEF AggRelease, AggDone, AggIdle, VoterInv, DistinctVoters, chainVars
  <1>9. CASE AggPush
    <2>1. PICK k \in BatchKeys : batches' = [batches EXCEPT ![k] = agg.chosen]
      BY <1>9 DEF AggPush, PushAggregatorBatch
    <2>2. /\ UNCHANGED transitions
          /\ agg'.todo = agg.todo /\ agg'.chosen = agg.chosen
      BY <1>9 DEF AggPush, TypeInv, TypeOK
    <2> QED BY <2>1, <2>2 DEF VoterInv, DistinctVoters, TypeInv, TypeOK
  <1>10. CASE \E k \in BatchKeys : TransitionCommit(k)
    BY <1>10 DEF TransitionCommit, VoterInv, DistinctVoters, actorVars, TypeInv, TypeOK
  <1>11. CASE \E k \in BatchKeys : TransitionFail(k)
    BY <1>11 DEF TransitionFail, MarkAggregatorBatchFailed, VoterInv, DistinctVoters,
       actorVars, TypeInv, TypeOK
  <1>12. CASE \E t \in transitions : Settle(t)
    BY <1>12 DEF Settle, VoterInv, actorVars
  <1>13. CASE \E t \in transitions : SettleFail(t)
    <2>1. PICK t \in transitions : SettleFail(t)
      BY <1>13
    <2>2. \/ UNCHANGED batches
          \/ \E k \in BatchKeys : batches' = [batches EXCEPT ![k] = t]
      BY <2>1 DEF SettleFail, PushAggregatorBatch
    <2>3. transitions' = transitions \ {t} /\ UNCHANGED agg
      BY <2>1 DEF SettleFail, actorVars
    <2> QED BY <2>2, <2>3 DEF VoterInv, TypeInv, TypeOK
  <1>14. CASE CleanProcessStaleVotes
    BY <1>14 DEF CleanProcessStaleVotes, VoterInv, DistinctVoters
  <1>15. CASE CleanupEndedProcess
    BY <1>15 DEF CleanupEndedProcess, VoterInv, DistinctVoters
  <1>16. CASE Restart
    <2> DEFINE here == [pending |-> pending, verified |-> verified, batches |-> batches]
    <2>1. PICK disk \in {here} \cup TornQueues : batches' = disk.batches
      BY <1>16 DEF Restart
    <2>2. disk \in TornQueues =>
            \/ disk.batches = batches
            \/ \E k \in BatchKeys : disk.batches = [batches EXCEPT ![k] = agg.chosen]
      BY TornBatches
    <2>3. \/ UNCHANGED batches
          \/ \E k \in BatchKeys : batches' = [batches EXCEPT ![k] = agg.chosen]
      BY <2>1, <2>2
    <2>4. agg' = AggIdle /\ UNCHANGED transitions
      BY <1>16 DEF Restart
    <2> QED BY <2>3, <2>4 DEF VoterInv, DistinctVoters, AggIdle, TypeInv, TypeOK
  <1>17. CASE UNCHANGED <<agg, batches, transitions>>
    BY <1>17 DEF VoterInv
  <1> QED
    BY <1>1, <1>2, <1>3, <1>4, <1>5, <1>6, <1>7, <1>8, <1>9, <1>10, <1>11, <1>12, <1>13,
       <1>14, <1>15, <1>16, <1>17
    DEF Next, ProverNext, WorkerNext, AggNext, SettlementNext, MonitorNext,
       NewVote, PushPendingBallot, ProverTake, ProverStart, ProverReturn,
       ProverStore, WorkerNewJob, WorkerSubmit, WorkerStore, JobTimeout,
       StatusChange, ResultsEvent, Expire, MarkEnded, CheckAndRegister,
       ReleaseStaleReservations, vars, chainVars, actorVars

\* A batch never holds two votes of one voter, whatever the address locks let
\* into the verified queue: with resubmissions, duplicate worker results, torn
\* writes, restarts, and batches that go back to the aggregator queue.
THEOREM VotersOfBatchDistinct == Spec => []UniqueAddressPerBatch
  <1>1. Init => VoterInv
    BY DEF Init, VoterInv, DistinctVoters, AggIdle
  <1>2. VoterInv => UniqueAddressPerBatch
    BY DEF VoterInv, DistinctVoters, UniqueAddressPerBatch
  <1> QED BY TypeInit, TypeStep, <1>1, VoterStep, <1>2, PTL DEF Spec

----------------------------------------------------------------------------
(* Locks                                                                   *)

\* The ballots waiting to be proved or aggregated.
Queued == pending \cup verified

\* Every lock belongs to one of them.
QueuedLocks == voteIDLocks \subseteq Queued /\ addressLocks \subseteq {AddressOf[v] : v \in Queued}

\* A storage call that releases the locks of all the ballots it removes leaves
\* no lock behind.
LEMMA RemovalReleasesLocks ==
    ASSUME QueuedLocks, NEW S, ReleaseLocks(S), Queued \ S \subseteq Queued'
    PROVE  QueuedLocks'
  BY DEF QueuedLocks, ReleaseLocks, Queued

\* A step that takes no lock and removes no ballot leaves no lock behind.
LEMMA NoRemovalKeepsLocks ==
    ASSUME QueuedLocks, voteIDLocks' \subseteq voteIDLocks,
           addressLocks' \subseteq addressLocks, Queued \subseteq Queued'
    PROVE  QueuedLocks'
  BY DEF QueuedLocks, Queued

\* Every step but a restart leaves no lock behind.
LEMMA LocksStep ==
    ASSUME QueuedLocks, [Next]_vars, ~Restart
    PROVE  QueuedLocks'
  <1>1. CASE \E v \in Votes : PushPendingBallot(v)
    BY <1>1 DEF PushPendingBallot, QueuedLocks, Queued, lockVars
  <1>2. CASE ProverStore
    <2>1. CASE MarkBallotVerified(prover.vote)
      BY <2>1, NoRemovalKeepsLocks DEF MarkBallotVerified, Queued, lockVars
    <2>2. CASE RemovePendingBallot(prover.vote)
      BY <2>2, RemovalReleasesLocks DEF RemovePendingBallot, Queued
    <2> QED BY <1>2, <2>1, <2>2 DEF ProverStore
  <1>3. CASE \E v \in Votes : WorkerStore(v)
    BY <1>3, NoRemovalKeepsLocks DEF WorkerStore, MarkBallotVerified, Queued, lockVars
  <1>4. CASE \E v \in Votes : AggReject(v)
    BY <1>4, RemovalReleasesLocks DEF AggReject, MarkVerifiedBallotsFailed, Queued
  <1>5. CASE AggFail
    <2>1. PICK bad \in SUBSET agg.chosen : MarkVerifiedBallotsFailed(bad)
      BY <1>5 DEF AggFail
    <2> QED BY <2>1, RemovalReleasesLocks DEF MarkVerifiedBallotsFailed, Queued
  <1>6. CASE AggDone
    BY <1>6, RemovalReleasesLocks DEF AggDone, MarkVerifiedBallotsDone, Queued
  <1>7. CASE \E k \in BatchKeys : TransitionFail(k)
    BY <1>7, NoRemovalKeepsLocks
    DEF TransitionFail, MarkAggregatorBatchFailed, Queued, queueVars
  <1>8. CASE \E t \in transitions : Settle(t)
    BY <1>8, NoRemovalKeepsLocks DEF Settle, Queued, queueVars
  <1>9. CASE CleanProcessStaleVotes
    <2>1. CASE ReleaseLocks(pending) /\ UNCHANGED verified
      BY <2>1, RemovalReleasesLocks DEF Queued
    <2>2. CASE ReleaseLocks(verified) /\ UNCHANGED pending
      BY <2>2, RemovalReleasesLocks DEF Queued
    <2>3. CASE UNCHANGED <<queueVars, lockVars>>
      BY <2>3, NoRemovalKeepsLocks DEF Queued, queueVars, lockVars
    <2> QED BY <1>9, <2>1, <2>2, <2>3 DEF CleanProcessStaleVotes
  <1>10. CASE CleanupEndedProcess
    BY <1>10, RemovalReleasesLocks DEF CleanupEndedProcess, Queued
  <1>11. CASE UNCHANGED <<pending, verified, lockVars>>
    BY <1>11 DEF QueuedLocks, Queued, lockVars
  <1> QED
    BY <1>1, <1>2, <1>3, <1>4, <1>5, <1>6, <1>7, <1>8, <1>9, <1>10, <1>11
    DEF Next, ProverNext, WorkerNext, AggNext, SettlementNext, MonitorNext, NewVote,
        ProverTake, ProverStart, ProverReturn, WorkerNewJob, WorkerSubmit, JobTimeout,
        AggPull, AggLoadState, AggAccept, AggReleaseSurplus,
        ReleaseVerifiedBallotReservations, AggProve, AggRelease, AggPush,
        TransitionCommit, SettleFail, StatusChange, ResultsEvent, Expire, MarkEnded,
        CheckAndRegister, ReleaseStaleReservations, vars, queueVars, lockVars

\* Only a restart changes the number of restarts.
LEMMA RestartsStep ==
    ASSUME [Next]_vars, ~Restart
    PROVE  UNCHANGED restarts
  <1>1. CASE \E v \in Votes : NewVote(v) \/ PushPendingBallot(v)
    BY <1>1 DEF NewVote, PushPendingBallot
  <1>2. CASE ProverNext \/ WorkerNext
    BY <1>2 DEF ProverNext, WorkerNext, ProverTake, ProverStart, ProverReturn, ProverStore,
        WorkerNewJob, WorkerSubmit, WorkerStore, JobTimeout
  <1>3. CASE AggNext
    BY <1>3 DEF AggNext, AggPull, AggLoadState, AggReject, AggAccept, AggReleaseSurplus,
        AggProve, AggFail, AggRelease, AggPush, AggDone
  <1>4. CASE SettlementNext
    BY <1>4 DEF SettlementNext, TransitionCommit, TransitionFail, Settle, SettleFail
  <1>5. CASE MonitorNext
    BY <1>5 DEF MonitorNext, StatusChange, ResultsEvent, CleanProcessStaleVotes, Expire,
        MarkEnded, CleanupEndedProcess, CheckAndRegister, ReleaseStaleReservations
  <1>6. CASE UNCHANGED vars
    BY <1>6 DEF vars
  <1> QED BY <1>1, <1>2, <1>3, <1>4, <1>5, <1>6 DEF Next

\* LocksAreQueued is inductive: a restart leaves its premise for good.
LEMMA LocksAreQueuedStep ==
    ASSUME TypeInv, LocksAreQueued, [Next]_vars
    PROVE  LocksAreQueued'
  <1>1. CASE Restart
    BY <1>1 DEF Restart, TypeInv, TypeOK, LocksAreQueued
  <1>2. CASE ~Restart
    <2>1. UNCHANGED restarts
      BY <1>2, RestartsStep
    <2>2. ASSUME restarts = 0 PROVE QueuedLocks'
      BY <1>2, <2>2, LocksStep DEF LocksAreQueued, QueuedLocks, Queued
    <2> QED BY <2>1, <2>2 DEF LocksAreQueued, QueuedLocks, Queued
  <1> QED BY <1>1, <1>2

\* As long as the node has not restarted, no lock outlives its ballot: every
\* path out of the pending and the verified queue releases the vote ID and the
\* address.  (recoverNullifiers breaks this: it locks the addresses of
\* aggregated ballots, which nothing releases.)
THEOREM LocksBelongToBallots == Spec => []LocksAreQueued
  <1>1. Init => LocksAreQueued
    BY DEF Init, LocksAreQueued
  <1>2. TypeInv /\ LocksAreQueued /\ [Next]_vars => LocksAreQueued'
    BY LocksAreQueuedStep
  <1> QED BY TypeInit, TypeStep, <1>1, <1>2, PTL DEF Spec

----------------------------------------------------------------------------
(* The process record and its monitors                                     *)

Open == process.status \in {"ready", "paused"}

\* The cleanups run on processes that do not take votes any more, and without
\* an end time nothing is cleaned up as expired.
ProcInv ==
    /\ monitor.ended => ~Open
    /\ monitor.stale > 0 => process.status = "results"
    /\ "expire" \notin ProcessEvents => ~process.expired /\ ~monitor.ended

\* A process that ended stays so, and so does one with results.
LEMMA ProcStep ==
    ASSUME TypeInv, ProcInv, [Next]_vars
    PROVE  /\ ProcInv' /\ (Open' => Open)
           /\ process.status = "results" => process'.status = "results"
  <1> USE DEF TypeInv, TypeOK, ProcInv, Open
  <1>1. CASE StatusChange
    BY <1>1 DEF StatusChange, actorVars
  <1>2. CASE ResultsEvent
    BY <1>2 DEF ResultsEvent
  <1>3. CASE CleanProcessStaleVotes
    BY <1>3 DEF CleanProcessStaleVotes
  <1>4. CASE Expire \/ CheckAndRegister
    BY <1>4 DEF Expire, CheckAndRegister, actorVars
  <1>5. CASE MarkEnded
    BY <1>5 DEF MarkEnded
  <1>6. CASE CleanupEndedProcess
    BY <1>6 DEF CleanupEndedProcess
  <1>7. CASE Restart
    BY <1>7 DEF Restart
  <1>8. CASE UNCHANGED <<process, monitor>>
    BY <1>8
  <1>9. CASE ProverNext \/ WorkerNext \/ AggNext \/ SettlementNext
    <2>1. UNCHANGED <<process, monitor>>
      BY <1>9 DEF ProverNext, WorkerNext, AggNext, SettlementNext, ProverTake, ProverStart,
        ProverReturn, ProverStore, WorkerNewJob, WorkerSubmit, WorkerStore, JobTimeout, AggPull,
        AggLoadState, AggReject, AggAccept, AggReleaseSurplus, AggProve, AggFail, AggRelease,
        AggPush, AggDone, TransitionCommit, TransitionFail, Settle, SettleFail, actorVars
    <2> QED BY <1>8, <2>1
  <1> QED
    BY <1>1, <1>2, <1>3, <1>4, <1>5, <1>6, <1>7, <1>8, <1>9
    DEF Next, MonitorNext, NewVote, PushPendingBallot, ReleaseStaleReservations, vars, actorVars

----------------------------------------------------------------------------
(* Locks of the queued ballots, without remote workers                     *)

\* Nobody but the local ballot processor proves ballots.
NoJobs == jobs = {} /\ \A v \in Votes : submits[v] = 0

LEMMA NoJobsStep ==
    ASSUME RemoteWorkers = FALSE, TypeInv, NoJobs, [Next]_vars
    PROVE  NoJobs'
  <1>1. CASE WorkerNext
    BY <1>1 DEF WorkerNext, WorkerNewJob, WorkerSubmit, WorkerStore, JobTimeout, NoJobs
  <1>2. CASE Restart
    BY <1>2 DEF Restart, NoJobs
  <1>3. CASE UNCHANGED <<jobs, submits>>
    BY <1>3 DEF NoJobs
  <1>4. CASE ProverNext \/ AggNext \/ SettlementNext
    <2>1. UNCHANGED <<jobs, submits>>
      BY <1>4 DEF ProverNext, AggNext, SettlementNext, ProverTake, ProverStart,
        ProverReturn, ProverStore, AggPull, AggLoadState, AggReject, AggAccept,
        AggReleaseSurplus, AggProve, AggFail, AggRelease, AggPush, AggDone,
        TransitionCommit, TransitionFail, Settle, SettleFail, actorVars
    <2> QED BY <1>3, <2>1
  <1>5. CASE MonitorNext
    <2>1. UNCHANGED <<jobs, submits>>
      BY <1>5 DEF MonitorNext, StatusChange, ResultsEvent, CleanProcessStaleVotes, Expire,
        MarkEnded, CleanupEndedProcess, CheckAndRegister, ReleaseStaleReservations, actorVars
    <2> QED BY <1>3, <2>1
  <1> QED
    BY <1>1, <1>2, <1>3, <1>4, <1>5 DEF Next, NewVote, PushPendingBallot, vars, actorVars

\* Every queued ballot is in one queue, has the lock of its address for itself,
\* and stays pending while it is being proved.
OneBallotPerLock ==
    /\ \A v \in Queued : AddressOf[v] \in addressLocks
    /\ DistinctVoters(Queued)
    /\ pending \cap verified = {}
    /\ prover.pc # "idle" => prover.vote \in pending

QueueInv == Open /\ restarts = 0 => OneBallotPerLock

\* Ballots leave the queues with the locks of their addresses.
LEMMA RemovalKeepsQueues ==
    ASSUME TypeInv, OneBallotPerLock, NEW S, S \subseteq Queued, ReleaseLocks(S),
           pending' \subseteq pending, verified' \subseteq verified,
           Queued' \subseteq Queued \ S,
           prover'.pc # "idle" => prover'.vote \in pending'
    PROVE  OneBallotPerLock'
  <1>1. ASSUME NEW v \in Queued' PROVE AddressOf[v] \in addressLocks'
    <2>1. AddressOf[v] \in addressLocks /\ v \in Queued /\ v \notin S
      BY <1>1 DEF OneBallotPerLock
    <2>2. \A w \in S : AddressOf[w] # AddressOf[v]
      BY <2>1 DEF OneBallotPerLock, DistinctVoters
    <2> QED BY <2>1, <2>2 DEF ReleaseLocks
  <1>2. DistinctVoters(Queued')
    BY DEF OneBallotPerLock, DistinctVoters
  <1> QED BY <1>1, <1>2 DEF OneBallotPerLock, DistinctVoters, Queued

\* Nothing moves between the queues.
LEMMA QuietQueues ==
    ASSUME OneBallotPerLock, UNCHANGED <<pending, verified, addressLocks>>,
           prover'.pc # "idle" => prover'.vote \in pending
    PROVE  OneBallotPerLock'
  BY DEF OneBallotPerLock, DistinctVoters, Queued

\* The ballot processor stores a ballot.
LEMMA StoreKeepsQueues ==
    ASSUME TypeInv, OneBallotPerLock, ProverStore
    PROVE  OneBallotPerLock'
  <1>1. prover.vote \in pending /\ prover'.pc = "idle"
    BY DEF ProverStore, OneBallotPerLock, Idle
  <1>2. CASE MarkBallotVerified(prover.vote)
    <2>1. /\ Queued' = Queued /\ pending' \cap verified' = {} /\ addressLocks' = addressLocks
      BY <1>1, <1>2 DEF MarkBallotVerified, Queued, OneBallotPerLock, lockVars
    <2> QED BY <1>1, <2>1 DEF OneBallotPerLock, DistinctVoters
  <1>3. CASE RemovePendingBallot(prover.vote)
    <2> DEFINE S == {prover.vote} \cap pending
    <2>1. /\ ReleaseLocks(S) /\ pending' = pending \ S /\ verified' = verified
      BY <1>1, <1>3 DEF RemovePendingBallot
    <2>2. S \subseteq Queued /\ Queued' \subseteq Queued \ S
      BY <2>1 DEF Queued, OneBallotPerLock
    <2> QED BY <1>1, <2>1, <2>2, RemovalKeepsQueues
  <1> QED BY <1>2, <1>3 DEF ProverStore

\* Steps of the aggregate processor that drop ballots from the verified queue.
LEMMA VerifiedRemoval ==
    ASSUME TypeInv, OneBallotPerLock, NEW S, ReleaseLocks(S \cap verified),
           verified' = verified \ S, UNCHANGED <<pending, prover>>
    PROVE  OneBallotPerLock'
  <1> DEFINE found == S \cap verified
  <1>1. found \subseteq Queued /\ Queued' \subseteq Queued \ found
    BY DEF Queued, OneBallotPerLock
  <1>2. prover'.pc # "idle" => prover'.vote \in pending'
    BY DEF OneBallotPerLock
  <1> QED BY <1>1, <1>2, RemovalKeepsQueues

LEMMA QueueStep ==
    ASSUME TypeInv, ProcInv, NoJobs, OneBallotPerLock, [Next]_vars, ~Restart, Open'
    PROVE  OneBallotPerLock'
  <1>0. Open
    BY ProcStep
  <1>1. ASSUME NEW v \in Votes, PushPendingBallot(v) PROVE OneBallotPerLock'
    <2>1. CASE UNCHANGED <<pending, lockVars>>
      BY <1>1, <2>1, QuietQueues DEF PushPendingBallot, OneBallotPerLock, lockVars
    <2>2. CASE /\ AddressOf[v] \notin addressLocks /\ pending' = pending \cup {v}
               /\ addressLocks' = addressLocks \cup {AddressOf[v]}
      <3>1. \A w \in Queued : AddressOf[w] # AddressOf[v]
        BY <2>2 DEF OneBallotPerLock
      <3>2. Queued' = Queued \cup {v} /\ UNCHANGED <<verified, prover>>
        BY <1>1, <2>2 DEF Queued, PushPendingBallot
      <3>3. DistinctVoters(Queued') /\ v \notin verified
        BY <3>1, <3>2 DEF OneBallotPerLock, DistinctVoters, Queued
      <3> QED BY <2>2, <3>2, <3>3 DEF OneBallotPerLock, DistinctVoters
    <2> QED BY <1>1, <2>1, <2>2 DEF PushPendingBallot
  <1>2. CASE ProverNext
    <2>1. CASE \E v \in Votes : ProverTake(v)
      BY <2>1, QuietQueues DEF ProverTake, Idle, lockVars, OneBallotPerLock
    <2>2. CASE ProverStart \/ ProverReturn
      BY <2>2, QuietQueues
      DEF ProverStart, ProverReturn, queueVars, lockVars, OneBallotPerLock, TypeInv, TypeOK
    <2>3. CASE ProverStore
      BY <2>3, StoreKeepsQueues
    <2> QED BY <1>2, <2>1, <2>2, <2>3 DEF ProverNext
  <1>3. CASE WorkerNext
    <2>1. UNCHANGED <<pending, verified, addressLocks, prover>>
      BY <1>3 DEF WorkerNext, WorkerNewJob, WorkerSubmit, WorkerStore, JobTimeout, NoJobs,
          lockVars, queueVars
    <2> QED BY <2>1, QuietQueues DEF OneBallotPerLock
  <1>4. CASE AggNext
    <2>1. CASE \E v \in Votes : AggReject(v)
      BY <2>1, VerifiedRemoval DEF AggReject, MarkVerifiedBallotsFailed
    <2>2. CASE AggFail
      <3>1. PICK bad \in SUBSET agg.chosen : MarkVerifiedBallotsFailed(bad)
        BY <2>2 DEF AggFail
      <3> QED BY <2>2, <3>1, VerifiedRemoval DEF AggFail, MarkVerifiedBallotsFailed
    <2>3. CASE AggDone
      BY <2>3, VerifiedRemoval DEF AggDone, MarkVerifiedBallotsDone
    <2>4. CASE UNCHANGED <<pending, verified, addressLocks, prover>>
      BY <2>4, QuietQueues DEF OneBallotPerLock
    <2> QED
      BY <1>4, <2>1, <2>2, <2>3, <2>4
      DEF AggNext, AggPull, AggLoadState, AggAccept, AggReleaseSurplus,
          ReleaseVerifiedBallotReservations, AggProve, AggRelease, AggPush, queueVars, lockVars
  <1>5. CASE SettlementNext
    <2>1. UNCHANGED <<pending, verified, addressLocks, prover>>
      BY <1>5 DEF SettlementNext, TransitionCommit, TransitionFail, Settle, SettleFail,
          queueVars, lockVars, actorVars
    <2> QED BY <2>1, QuietQueues DEF OneBallotPerLock
  <1>6. CASE MonitorNext
    <2>1. ~CleanupEndedProcess /\ ~CleanProcessStaleVotes
      BY <1>0 DEF CleanupEndedProcess, CleanProcessStaleVotes, ProcInv, Open
    <2>2. UNCHANGED <<pending, verified, addressLocks, prover>>
      BY <1>6, <2>1 DEF MonitorNext, StatusChange, ResultsEvent, Expire, MarkEnded,
          CheckAndRegister, ReleaseStaleReservations, queueVars, lockVars, actorVars
    <2> QED BY <2>2, QuietQueues DEF OneBallotPerLock
  <1>7. CASE (\E v \in Votes : NewVote(v)) \/ UNCHANGED vars
    BY <1>7, QuietQueues DEF NewVote, vars, queueVars, lockVars, actorVars, OneBallotPerLock
  <1> QED BY <1>1, <1>2, <1>3, <1>4, <1>5, <1>6, <1>7 DEF Next

\* Without remote workers, as long as the node has not restarted and the
\* process takes votes, a queued ballot holds the lock of its address and no
\* address has two ballots queued: also with resubmissions, slow jobs and
\* batches that fail.
THEOREM LocalBallotsHoldLocks ==
    ASSUME RemoteWorkers = FALSE
    PROVE  Spec => []QueuedBallotsLocked
  <1> DEFINE Inv == TypeInv /\ ProcInv /\ NoJobs /\ QueueInv
  <1>1. Init => Inv
    BY TypeInit DEF Init, ProcInv, Open, NoJobs, QueueInv, OneBallotPerLock, DistinctVoters,
        Queued, Idle
  <1>2. Inv /\ [Next]_vars => Inv'
    <2> SUFFICES ASSUME Inv, [Next]_vars PROVE Inv'
      OBVIOUS
    <2>1. TypeInv' /\ ProcInv' /\ NoJobs' /\ (Open' => Open)
      BY TypeStep, ProcStep, NoJobsStep
    <2>2. QueueInv'
      <3>1. CASE Restart
        BY <3>1 DEF Restart, QueueInv, TypeInv, TypeOK
      <3>2. CASE ~Restart
        BY <2>1, <3>2, RestartsStep, QueueStep DEF QueueInv
      <3> QED BY <3>1, <3>2
    <2> QED BY <2>1, <2>2
  <1>3. Inv => QueuedBallotsLocked
    BY DEF QueueInv, QueuedBallotsLocked, IsAcceptingVotes, Open, OneBallotPerLock,
        DistinctVoters, Queued
  <1> QED BY <1>1, <1>2, <1>3, PTL DEF Spec

----------------------------------------------------------------------------
(* Ballots are not lost                                                    *)

Waits == {"pending", "verified", "aggregated", "processed"}

\* NoLostBallot and what it needs speak of a node that has not restarted and a
\* process without results.
Running == process.status # "results" /\ restarts = 0

\* Only the votes of S get the new status; one that gets a final status does
\* not wait.
LEMMA WithStatusWaits ==
    ASSUME NEW st, NEW S, NEW new, NEW v \in Votes, WithStatus(st, S, new)[v] \in Waits
    PROVE  /\ v \in S \/ st[v] \in Waits
           /\ new \notin Waits => v \notin S /\ st[v] \in Waits
  BY DEF WithStatus, Waits

\* The ballot processor never works on a ballot of the aggregate processor.
ApartInv ==
    restarts = 0 /\ agg.pc # "idle" /\ prover.pc \in {"proving", "proved"} =>
        prover.vote \notin agg.todo \cup agg.chosen

\* Between the two storage calls that end an aggregation, the ballots of the
\* batch are found elsewhere than in the verified queue, which they leave next;
BatchedElsewhere == \A v \in agg.chosen : status[v] \in Waits => v \in pending \cup Aggregated
PushedInv == agg.pc = "pushed" /\ Running => BatchedElsewhere

\* in their batch, if no cleanup of expired processes comes in between.
BatchInv == agg.pc = "pushed" /\ Running => agg.chosen \subseteq Aggregated

\* The aggregate processor works on the ballots that it pulled until it is
\* idle again, and only pushes batches at the end.
LEMMA AggMoves ==
    ASSUME TypeInv, AggNext
    PROVE  /\ prover' = prover
           /\ \/ AggPull \/ agg'.pc = "idle"
              \/ agg.pc # "idle" /\ agg'.todo \cup agg'.chosen \subseteq agg.todo \cup agg.chosen
           /\ agg'.pc = "pushed" => AggPush
  <1> USE DEF TypeInv, TypeOK
  <1>1. CASE AggPull
    <2>1. prover' = prover /\ agg'.pc = "pulled"
      BY <1>1 DEF AggPull
    <2> QED BY <1>1, <2>1
  <1>2. CASE AggLoadState
    <2>1. /\ prover' = prover /\ agg.pc = "pulled"
          /\ agg' = AggIdle \/ agg' = [agg EXCEPT !.pc = "collect"]
      BY <1>2 DEF AggLoadState
    <2> QED BY <2>1 DEF AggIdle
  <1>3. ASSUME NEW v \in Votes, AggReject(v) \/ AggAccept(v)
        PROVE  /\ prover' = prover /\ agg.pc = "collect" /\ agg'.pc = "collect"
               /\ agg'.todo \cup agg'.chosen \subseteq agg.todo \cup agg.chosen
    <2>1. CASE AggReject(v)
      BY <2>1 DEF AggReject
    <2>2. CASE AggAccept(v)
      <3>1. /\ v \in agg.todo /\ agg.pc = "collect" /\ prover' = prover
            /\ agg'.pc = "collect" /\ agg'.todo = agg.todo \ {v}
            /\ agg'.chosen = agg.chosen \cup {v}
        BY <2>2 DEF AggAccept
      <3> QED BY <3>1
    <2> QED BY <1>3, <2>1, <2>2
  <1>4. CASE AggReleaseSurplus
    BY <1>4 DEF AggReleaseSurplus
  <1>5. CASE AggProve
    <2>1. /\ prover' = prover /\ agg.pc = "collect"
          /\ \/ agg' = AggIdle
             \/ \E result \in {"proved", "failed"} : agg' = [agg EXCEPT !.pc = result]
      BY <1>5 DEF AggProve
    <2> QED BY <2>1 DEF AggIdle
  <1>6. CASE AggFail
    BY <1>6 DEF AggFail
  <1>7. CASE AggRelease \/ AggDone
    BY <1>7 DEF AggRelease, AggDone, AggIdle
  <1>8. CASE AggPush
    BY <1>8 DEF AggPush
  <1> QED BY <1>1, <1>2, <1>3, <1>4, <1>5, <1>6, <1>7, <1>8 DEF AggNext

LEMMA ApartStep ==
    ASSUME TypeInv, QueueInv, ApartInv, [Next]_vars, ~Restart
    PROVE  ApartInv'
  <1>0. UNCHANGED restarts
    BY RestartsStep
  <1>1. CASE AggPull
    <2>1. prover' = prover /\ prover.pc # "proving"
      BY <1>1 DEF AggPull, NoReader
    <2>2. PICK S \in SUBSET verified : agg' = [pc |-> "pulled", todo |-> S, chosen |-> {}]
      BY <1>1 DEF AggPull
    <2>3. restarts = 0 => OneBallotPerLock
      BY <1>1 DEF AggPull, IsAcceptingVotes, QueueInv, Open
    <2> QED BY <1>0, <2>1, <2>2, <2>3 DEF ApartInv, OneBallotPerLock
  <1>2. CASE AggNext /\ ~AggPull
    <2>1. /\ prover' = prover
          /\ agg'.pc # "idle" =>
                agg.pc # "idle" /\ agg'.todo \cup agg'.chosen \subseteq agg.todo \cup agg.chosen
      BY <1>2, AggMoves
    <2> QED BY <1>0, <2>1 DEF ApartInv
  <1>3. CASE ProverNext
    <2>1. /\ agg' = agg
          /\ prover'.pc \in {"proving", "proved"} =>
                prover'.vote = prover.vote /\ (prover.pc = "proving" \/ agg.pc = "idle")
      BY <1>3 DEF ProverNext, ProverTake, ProverStart, ProverReturn, ProverStore, NoWriter, Idle,
          TypeInv, TypeOK
    <2> QED BY <1>0, <2>1 DEF ApartInv
  <1>4. CASE UNCHANGED <<prover, agg>>
    BY <1>0, <1>4 DEF ApartInv
  <1>5. CASE WorkerNext \/ SettlementNext \/ MonitorNext
    <2>1. UNCHANGED <<prover, agg>>
      BY <1>5 DEF WorkerNext, SettlementNext, MonitorNext, WorkerNewJob, WorkerSubmit,
        WorkerStore, JobTimeout, TransitionCommit, TransitionFail, Settle, SettleFail,
        StatusChange, ResultsEvent, CleanProcessStaleVotes, Expire, MarkEnded,
        CleanupEndedProcess, CheckAndRegister, ReleaseStaleReservations, actorVars
    <2> QED BY <1>4, <2>1
  <1> QED
    BY <1>1, <1>2, <1>3, <1>4, <1>5 DEF Next, NewVote, PushPendingBallot, vars, actorVars

\* The steps that change what is stored, besides those of the aggregation and
\* of a restart.
LEMMA StoringSteps ==
    ASSUME [Next]_vars, ~Restart, ~AggNext
    PROVE  \/ \E v \in Votes : PushPendingBallot(v) \/ WorkerStore(v)
           \/ ProverStore \/ SettlementNext \/ CleanProcessStaleVotes \/ CleanupEndedProcess
           \/ UNCHANGED <<pending, verified, batches, transitions, status, agg>>
  <1>1. CASE ProverNext \/ WorkerNext
    BY <1>1 DEF ProverNext, WorkerNext, ProverTake, ProverStart, ProverReturn, WorkerNewJob,
        WorkerSubmit, JobTimeout, queueVars, chainVars
  <1>2. CASE MonitorNext
    BY <1>2 DEF MonitorNext, StatusChange, ResultsEvent, Expire, MarkEnded, CheckAndRegister,
        ReleaseStaleReservations, queueVars, chainVars, actorVars
  <1>3. CASE (\E v \in Votes : NewVote(v)) \/ UNCHANGED vars
    BY <1>3 DEF NewVote, vars, queueVars, chainVars, actorVars
  <1> QED BY <1>1, <1>2, <1>3 DEF Next

\* Settlement leaves the ballots of the earlier stages alone.
LEMMA SettlementIs ==
    ASSUME SettlementNext
    PROVE  UNCHANGED <<pending, verified, agg>>
  BY DEF SettlementNext, TransitionCommit, TransitionFail, Settle, SettleFail, queueVars, actorVars

\* The batch stays where it is until the aggregation is over.
LEMMA BatchStep ==
    ASSUME "expire" \notin ProcessEvents, TypeInv, ProcInv, BatchInv, [Next]_vars, ~Restart
    PROVE  BatchInv'
  <1> SUFFICES ASSUME agg'.pc = "pushed", Running' PROVE agg'.chosen \subseteq Aggregated'
    BY DEF BatchInv
  <1>1. Running
    BY ProcStep, RestartsStep DEF Running
  <1>2. CASE AggNext
    <2>1. AggPush
      BY <1>2, AggMoves
    <2>2. PICK k \in BatchKeys : batches' = [batches EXCEPT ![k] = agg.chosen]
      BY <2>1 DEF AggPush, PushAggregatorBatch
    <2>3. agg'.chosen = agg.chosen
      BY <2>1 DEF AggPush, TypeInv, TypeOK
    <2> QED BY <2>2, <2>3 DEF Aggregated, TypeInv, TypeOK
  <1>3. CASE UNCHANGED <<agg, batches>>
    BY <1>1, <1>3 DEF BatchInv, Aggregated
  <1>4. CASE SettlementNext
    <2>1. agg' = agg /\ agg.pc = "pushed"
      BY <1>4, SettlementIs
    <2>2. \A k \in BatchKeys : batches[k] # {} => batches'[k] = batches[k]
      BY <1>4, <2>1 DEF SettlementNext, TransitionCommit, TransitionFail, TransitionRuns, NoWriter,
          Settle, SettleFail, PushAggregatorBatch, TypeInv, TypeOK
    <2>3. Aggregated \subseteq Aggregated'
      BY <2>2 DEF Aggregated
    <2> QED BY <1>1, <2>1, <2>3 DEF BatchInv
  <1>5. ~CleanProcessStaleVotes /\ ~CleanupEndedProcess
    BY <1>1 DEF CleanProcessStaleVotes, CleanupEndedProcess, ProcInv, Running
  <1>6. ASSUME NEW v \in Votes, PushPendingBallot(v) \/ WorkerStore(v)
        PROVE  UNCHANGED <<agg, batches>>
    BY <1>6 DEF PushPendingBallot, WorkerStore, chainVars
  <1>7. ProverStore => UNCHANGED <<agg, batches>>
    BY DEF ProverStore, chainVars
  <1> QED BY <1>2, <1>3, <1>4, <1>5, <1>6, <1>7, StoringSteps

\* A ballot that is stored as verified while its batch is being finished is
\* found in that batch, or it was not in the batch at all.
LEMMA VerifiedElsewhere ==
    ASSUME TypeInv, BatchedElsewhere, NEW v \in Votes, MarkBallotVerified(v),
           UNCHANGED <<batches, agg>>, v \notin agg.chosen \/ v \in Aggregated
    PROVE  BatchedElsewhere'
  <1> SUFFICES ASSUME NEW w \in agg.chosen, status'[w] \in Waits
               PROVE  w \in pending' \cup Aggregated'
    BY DEF BatchedElsewhere
  <1>1. Aggregated' = Aggregated /\ pending' = pending \ {v} /\ w \in Votes
    BY DEF Aggregated, MarkBallotVerified, TypeInv, TypeOK
  <1>2. w = v \/ status[w] \in Waits
    BY <1>1, WithStatusWaits DEF MarkBallotVerified
  <1> QED BY <1>1, <1>2 DEF BatchedElsewhere

LEMMA PushedStep ==
    ASSUME TypeInv, ProcInv, PushedInv, [Next]_vars, ~Restart,
           \/ RemoteWorkers = FALSE /\ NoJobs /\ ApartInv
           \/ BatchInv
    PROVE  PushedInv'
  <1> SUFFICES ASSUME agg'.pc = "pushed", Running' PROVE BatchedElsewhere'
    BY DEF PushedInv
  <1>1. Running
    BY ProcStep, RestartsStep DEF Running
  <1>2. CASE AggNext
    <2>1. AggPush
      BY <1>2, AggMoves
    <2>2. PICK k \in BatchKeys : batches' = [batches EXCEPT ![k] = agg.chosen]
      BY <2>1 DEF AggPush, PushAggregatorBatch
    <2>3. agg'.chosen = agg.chosen
      BY <2>1 DEF AggPush, TypeInv, TypeOK
    <2> QED BY <2>2, <2>3 DEF BatchedElsewhere, Aggregated, TypeInv, TypeOK
  <1>3. CASE UNCHANGED <<pending, verified, batches, transitions, status, agg>>
    BY <1>1, <1>3 DEF PushedInv, BatchedElsewhere, Aggregated
  <1>4. CASE ~AggNext /\ agg' = agg
    <2>0. BatchedElsewhere /\ agg.pc = "pushed" /\ agg.chosen \subseteq Votes
      BY <1>1, <1>4 DEF PushedInv, TypeInv, TypeOK
    <2>1. ASSUME NEW v \in Votes, PushPendingBallot(v) PROVE BatchedElsewhere'
      <3>1. Aggregated' = Aggregated /\ pending \subseteq pending'
        BY <2>1 DEF PushPendingBallot, Aggregated, chainVars
      <3>2. \A w \in Votes : status'[w] \in Waits => status[w] \in Waits \/ w \in pending'
        BY <2>1, WithStatusWaits DEF PushPendingBallot
      <3> QED BY <1>4, <2>0, <3>1, <3>2 DEF BatchedElsewhere
    <2>2. ASSUME NEW v \in Votes, WorkerStore(v) PROVE BatchedElsewhere'
      <3>1. MarkBallotVerified(v) /\ UNCHANGED batches
        BY <2>2 DEF WorkerStore, chainVars
      <3>2. v \notin agg.chosen \/ v \in Aggregated
        BY <1>1, <2>0, <2>2 DEF WorkerStore, NoJobs, BatchInv
      <3> QED BY <1>4, <2>0, <3>1, <3>2, VerifiedElsewhere
    <2>3. CASE ProverStore
      <3>1. UNCHANGED batches /\ prover.vote \in Votes
        BY <2>3 DEF ProverStore, chainVars, TypeInv, ProverHasVote
      <3>2. CASE prover.pc = "proved" /\ MarkBallotVerified(prover.vote)
        <4>1. prover.vote \notin agg.chosen \/ prover.vote \in Aggregated
          BY <1>1, <2>0, <3>2 DEF ApartInv, BatchInv, Running
        <4> QED BY <1>4, <2>0, <3>1, <3>2, <4>1, VerifiedElsewhere
      <3>3. CASE RemovePendingBallot(prover.vote)
        <4>1. Aggregated' = Aggregated /\ pending' = pending \ {prover.vote}
          BY <3>1, <3>3 DEF RemovePendingBallot, Aggregated
        <4>2. \A w \in Votes : status'[w] \in Waits => status[w] \in Waits /\ w # prover.vote
          BY <3>3, WithStatusWaits DEF RemovePendingBallot, Waits
        <4> QED BY <1>4, <2>0, <4>1, <4>2 DEF BatchedElsewhere
      <3> QED BY <2>3, <3>2, <3>3 DEF ProverStore
    <2>4. CASE SettlementNext
      <3>1. \A k \in BatchKeys : batches[k] # {} => batches'[k] = batches[k]
        BY <2>0, <2>4 DEF SettlementNext, TransitionCommit, TransitionFail, TransitionRuns, NoWriter,
            Settle, SettleFail, PushAggregatorBatch, TypeInv, TypeOK
      <3>2. Aggregated \subseteq Aggregated' /\ pending' = pending
        BY <2>4, <3>1, SettlementIs DEF Aggregated
      <3>3. PICK t \in transitions : Settle(t) \/ SettleFail(t)
        BY <2>0, <2>4 DEF SettlementNext, TransitionCommit, TransitionFail, TransitionRuns, NoWriter
      <3>4. ASSUME NEW w \in Votes, status'[w] \in Waits
            PROVE  status[w] \in Waits \/ w \in Aggregated'
        <4>1. CASE Settle(t)
          BY <3>4, <4>1 DEF Settle, Waits
        <4>2. CASE status' = WithStatus(status, t, "error")
          BY <3>4, <4>2, WithStatusWaits DEF Waits
        <4>3. ASSUME NEW k \in BatchKeys, PushAggregatorBatch(k, t)
              PROVE  status[w] \in Waits \/ w \in Aggregated'
          <5>1. w \in t \/ status[w] \in Waits
            BY <3>4, <4>3, WithStatusWaits DEF PushAggregatorBatch
          <5>2. batches'[k] = t
            BY <4>3 DEF PushAggregatorBatch, TypeInv, TypeOK
          <5> QED BY <5>1, <5>2 DEF Aggregated
        <4> QED BY <3>3, <4>1, <4>2, <4>3 DEF SettleFail
      <3> QED BY <1>4, <2>0, <3>2, <3>4 DEF BatchedElsewhere
    <2>5. CASE CleanupEndedProcess
      BY <1>4, <2>0, <2>5, WithStatusWaits DEF CleanupEndedProcess, BatchedElsewhere, Waits
    <2>6. ~CleanProcessStaleVotes
      BY <1>1 DEF CleanProcessStaleVotes, ProcInv, Running
    <2> QED BY <1>3, <1>4, <2>1, <2>2, <2>3, <2>4, <2>5, <2>6, StoringSteps
  <1>5. ~AggNext => agg' = agg
    BY StoringSteps, SettlementIs DEF PushPendingBallot, WorkerStore, ProverStore,
        CleanProcessStaleVotes, CleanupEndedProcess
  <1> QED BY <1>2, <1>4, <1>5

\* The votes that wait are in the pipeline.
WaitsStored == \A v \in Votes : status[v] \in Waits => v \in InPipeline

LEMMA WaitsStoredMove ==
    ASSUME WaitsStored,
           \A v \in Votes : status'[v] \in Waits =>
                \/ v \in InPipeline'
                \/ status[v] \in Waits /\ (v \in InPipeline => v \in InPipeline')
    PROVE  WaitsStored'
  BY DEF WaitsStored

\* A ballot that is found invalid leaves the queue with its status.
LEMMA FailedIsStored ==
    ASSUME TypeInv, WaitsStored, NEW S, MarkVerifiedBallotsFailed(S), UNCHANGED chainVars
    PROVE  WaitsStored'
  <1>1. \A v \in Votes : status'[v] \in Waits => status[v] \in Waits /\ v \notin S \cap verified
    BY WithStatusWaits DEF MarkVerifiedBallotsFailed, Waits
  <1>2. InPipeline \ (S \cap verified) \subseteq InPipeline'
    BY DEF MarkVerifiedBallotsFailed, InPipeline, Aggregated, chainVars
  <1> QED BY <1>1, <1>2, WaitsStoredMove

LEMMA VerifiedIsStored ==
    ASSUME TypeInv, WaitsStored, NEW w \in Votes, MarkBallotVerified(w), UNCHANGED chainVars
    PROVE  WaitsStored'
  <1>1. \A v \in Votes : status'[v] \in Waits => status[v] \in Waits \/ v = w
    BY WithStatusWaits DEF MarkBallotVerified
  <1>2. InPipeline \subseteq InPipeline' /\ w \in InPipeline'
    BY DEF MarkBallotVerified, InPipeline, Aggregated, chainVars
  <1> QED BY <1>1, <1>2, WaitsStoredMove

LEMMA ProverIsStored ==
    ASSUME TypeInv, WaitsStored, ProverStore
    PROVE  WaitsStored'
  <1>1. prover.vote \in Votes /\ UNCHANGED chainVars
    BY DEF ProverStore, TypeInv, ProverHasVote
  <1>2. CASE MarkBallotVerified(prover.vote)
    BY <1>1, <1>2, VerifiedIsStored
  <1>3. CASE RemovePendingBallot(prover.vote)
    <2>1. \A v \in Votes : status'[v] \in Waits => status[v] \in Waits /\ v # prover.vote
      BY <1>3, WithStatusWaits DEF RemovePendingBallot, Waits
    <2>2. InPipeline \ {prover.vote} \subseteq InPipeline'
      BY <1>1, <1>3 DEF RemovePendingBallot, InPipeline, Aggregated, chainVars
    <2> QED BY <2>1, <2>2, WaitsStoredMove
  <1> QED BY <1>2, <1>3 DEF ProverStore

\* A batch of the aggregator queue gets a new place or a new status.
LEMMA TransitionIsStored ==
    ASSUME TypeInv, WaitsStored, NEW k \in BatchKeys, TransitionCommit(k) \/ TransitionFail(k)
    PROVE  WaitsStored'
  <1>1. /\ batches' = [batches EXCEPT ![k] = {}] /\ UNCHANGED <<pending, verified>>
    BY DEF TransitionCommit, TransitionFail, MarkAggregatorBatchFailed, queueVars
  <1>2. Aggregated \ batches[k] \subseteq Aggregated'
    BY <1>1 DEF Aggregated, TypeInv, TypeOK
  <1>3. CASE TransitionCommit(k)
    <2>1. \A v \in Votes : status'[v] \in Waits => status[v] \in Waits \/ v \in batches[k]
      BY <1>3, WithStatusWaits DEF TransitionCommit
    <2>2. UNION transitions \subseteq UNION transitions' /\ batches[k] \subseteq UNION transitions'
      BY <1>3 DEF TransitionCommit
    <2>3. InPipeline \subseteq InPipeline' /\ batches[k] \subseteq InPipeline'
      BY <1>1, <1>2, <2>2 DEF InPipeline
    <2> QED BY <2>1, <2>3, WaitsStoredMove
  <1>4. CASE TransitionFail(k)
    <2>1. \A v \in Votes : status'[v] \in Waits => status[v] \in Waits /\ v \notin batches[k]
      BY <1>4, WithStatusWaits DEF TransitionFail, MarkAggregatorBatchFailed, Waits
    <2>2. transitions' = transitions
      BY <1>4 DEF TransitionFail
    <2>3. InPipeline \ batches[k] \subseteq InPipeline'
      BY <1>1, <1>2, <2>2 DEF InPipeline
    <2> QED BY <2>1, <2>3, WaitsStoredMove
  <1> QED BY <1>3, <1>4

LEMMA SettleIsStored ==
    ASSUME TypeInv, WaitsStored, NEW t \in transitions, Settle(t) \/ SettleFail(t)
    PROVE  WaitsStored'
  <1>1. transitions' = transitions \ {t} /\ UNCHANGED <<pending, verified>>
    BY DEF Settle, SettleFail, queueVars
  <1>2. (UNION transitions) \ t \subseteq UNION transitions'
    BY <1>1
  <1>3. CASE UNCHANGED batches /\ \A v \in Votes : status'[v] \in Waits => status[v] \in Waits
                                                                            /\ v \notin t
    <2>1. InPipeline \ t \subseteq InPipeline'
      BY <1>1, <1>2, <1>3 DEF InPipeline, Aggregated
    <2> QED BY <1>3, <2>1, WaitsStoredMove
  <1>4. ASSUME NEW k \in BatchKeys, PushAggregatorBatch(k, t) PROVE WaitsStored'
    <2>1. \A v \in Votes : status'[v] \in Waits => status[v] \in Waits \/ v \in t
      BY <1>4, WithStatusWaits DEF PushAggregatorBatch
    <2>2. Aggregated \subseteq Aggregated' /\ t \subseteq Aggregated'
      BY <1>4 DEF PushAggregatorBatch, Aggregated, TypeInv, TypeOK
    <2>3. InPipeline \subseteq InPipeline' /\ t \subseteq InPipeline'
      BY <1>1, <1>2, <2>2 DEF InPipeline
    <2> QED BY <2>1, <2>3, WaitsStoredMove
  <1>5. CASE Settle(t)
    BY <1>3, <1>5 DEF Settle, Waits
  <1>6. CASE status' = WithStatus(status, t, "error") /\ UNCHANGED batches
    BY <1>3, <1>6, WithStatusWaits DEF Waits
  <1> QED BY <1>4, <1>5, <1>6 DEF SettleFail

\* The aggregation: the batch is stored before its ballots leave the verified
\* queue.
LEMMA AggregationIsStored ==
    ASSUME TypeInv, WaitsStored, Running, PushedInv, AggNext
    PROVE  WaitsStored'
  <1>1. CASE \E v \in Votes : AggReject(v)
    BY <1>1, FailedIsStored DEF AggReject
  <1>2. CASE AggFail
    <2>1. PICK bad \in SUBSET agg.chosen : MarkVerifiedBallotsFailed(bad)
      BY <1>2 DEF AggFail
    <2> QED BY <1>2, <2>1, FailedIsStored DEF AggFail
  <1>3. CASE AggPush
    <2>1. PICK k \in BatchKeys : PushAggregatorBatch(k, agg.chosen)
      BY <1>3 DEF AggPush
    <2>2. \A v \in Votes : status'[v] \in Waits => status[v] \in Waits \/ v \in agg.chosen
      BY <2>1, WithStatusWaits DEF PushAggregatorBatch
    <2>3. Aggregated \subseteq Aggregated' /\ agg.chosen \subseteq Aggregated'
      BY <2>1 DEF PushAggregatorBatch, Aggregated, TypeInv, TypeOK
    <2>4. InPipeline \subseteq InPipeline' /\ agg.chosen \subseteq InPipeline'
      BY <1>3, <2>3 DEF InPipeline, AggPush, queueVars
    <2> QED BY <2>2, <2>4, WaitsStoredMove
  <1>4. CASE AggDone
    <2>1. /\ verified' = verified \ agg.chosen
          /\ UNCHANGED <<pending, batches, transitions, status>>
      BY <1>4 DEF AggDone, MarkVerifiedBallotsDone, chainVars
    <2>2. BatchedElsewhere
      BY <1>4 DEF AggDone, PushedInv
    <2>3. \A v \in Votes : status[v] \in Waits => (v \in InPipeline => v \in InPipeline')
      BY <2>1, <2>2 DEF InPipeline, Aggregated, BatchedElsewhere
    <2> QED BY <2>1, <2>3, WaitsStoredMove
  <1>5. CASE UNCHANGED <<pending, verified, batches, transitions, status>>
    BY <1>5 DEF WaitsStored, InPipeline, Aggregated
  <1> QED
    BY <1>1, <1>2, <1>3, <1>4, <1>5
    DEF AggNext, AggPull, AggLoadState, AggAccept, AggReleaseSurplus,
        ReleaseVerifiedBallotReservations, AggProve, AggRelease, queueVars, chainVars

LEMMA StoredStep ==
    ASSUME TypeInv, ProcInv, PushedInv, WaitsStored, Running, [Next]_vars, ~Restart
    PROVE  WaitsStored'
  <1>1. CASE AggNext
    BY <1>1, AggregationIsStored
  <1>2. ASSUME NEW w \in Votes, PushPendingBallot(w) PROVE WaitsStored'
    <2>1. \A v \in Votes : status'[v] \in Waits => status[v] \in Waits \/ v \in pending'
      BY <1>2, WithStatusWaits DEF PushPendingBallot
    <2>2. InPipeline \subseteq InPipeline' /\ pending' \subseteq InPipeline'
      BY <1>2 DEF PushPendingBallot, InPipeline, Aggregated, chainVars
    <2> QED BY <2>1, <2>2, WaitsStoredMove
  <1>3. ASSUME NEW w \in Votes, WorkerStore(w) PROVE WaitsStored'
    BY <1>3, VerifiedIsStored DEF WorkerStore
  <1>4. CASE ProverStore
    BY <1>4, ProverIsStored
  <1>5. CASE SettlementNext
    BY <1>5, TransitionIsStored, SettleIsStored DEF SettlementNext
  <1>6. CASE CleanupEndedProcess
    <2>1. \A v \in Votes : status'[v] \notin Waits
      BY <1>6, WithStatusWaits DEF CleanupEndedProcess, Waits
    <2> QED BY <2>1 DEF WaitsStored
  <1>7. ~CleanProcessStaleVotes
    BY DEF CleanProcessStaleVotes, ProcInv, Running
  <1>8. CASE UNCHANGED <<pending, verified, batches, transitions, status>>
    BY <1>8 DEF WaitsStored, InPipeline, Aggregated
  <1> QED BY <1>1, <1>2, <1>3, <1>4, <1>5, <1>6, <1>7, <1>8, StoringSteps

\* No vote is left waiting without being stored, as long as the node has not
\* restarted and the process has no results: either with the local ballot
\* processor alone, or with remote workers on a process that does not expire.
\* (A worker's late submission between the cleanup of an expired process and
\* the end of an aggregation is stored and then removed with the batch.)
THEOREM NoBallotIsLost ==
    ASSUME RemoteWorkers = FALSE \/ "expire" \notin ProcessEvents
    PROVE  Spec => []NoLostBallot
  <1> DEFINE Local == RemoteWorkers = FALSE => NoJobs /\ QueueInv /\ ApartInv
             Batch == "expire" \notin ProcessEvents => BatchInv
             Stored == Running => WaitsStored
             Inv == TypeInv /\ ProcInv /\ PushedInv /\ Local /\ Batch /\ Stored
  <1>1. Init => Inv
    <2> SUFFICES ASSUME Init PROVE Inv
      OBVIOUS
    <2>1. TypeInv /\ ProcInv
      BY TypeInit DEF Init, ProcInv, Open
    <2>2. NoJobs /\ QueueInv /\ ApartInv /\ PushedInv /\ BatchInv
      BY DEF Init, NoJobs, QueueInv, OneBallotPerLock, DistinctVoters, Queued, Idle, AggIdle,
          ApartInv, PushedInv, BatchInv
    <2>3. WaitsStored
      BY DEF Init, WaitsStored, Waits
    <2> QED BY <2>1, <2>2, <2>3
  <1>2. Inv /\ [Next]_vars => Inv'
    <2> SUFFICES ASSUME Inv, [Next]_vars PROVE Inv'
      OBVIOUS
    <2>1. TypeInv' /\ ProcInv' /\ (Open' => Open)
      BY TypeStep, ProcStep
    <2>2. CASE Restart
      <3>1. restarts' # 0 /\ agg'.pc = "idle"
        BY <2>2 DEF Restart, TypeInv, TypeOK, AggIdle
      <3>2. NoJobs'
        BY <2>2 DEF Restart, NoJobs
      <3> QED BY <2>1, <3>1, <3>2 DEF PushedInv, QueueInv, ApartInv, BatchInv, Running
    <2>3. CASE ~Restart
      <3>1. UNCHANGED restarts
        BY <2>3, RestartsStep
      <3>2. RemoteWorkers = FALSE => NoJobs' /\ QueueInv' /\ ApartInv'
        BY <2>1, <2>3, <3>1, NoJobsStep, QueueStep, ApartStep DEF QueueInv
      <3>3. "expire" \notin ProcessEvents => BatchInv'
        BY <2>3, BatchStep
      <3>4. PushedInv'
        BY <2>3, PushedStep
      <3>5. Running' => Running
        BY <3>1, ProcStep DEF Running
      <3>6. Running' => WaitsStored'
        BY <2>3, <3>5, StoredStep
      <3> QED BY <2>1, <3>2, <3>3, <3>4, <3>6
    <2> QED BY <2>2, <2>3
  <1>3. Inv => NoLostBallot
    BY DEF NoLostBallot, WaitsStored, Waits, Running
  <1> QED BY <1>1, <1>2, <1>3, PTL DEF Spec

----------------------------------------------------------------------------
(* ExclusiveJob: a ballot that the local prover or a worker holds is not   *)
(* handed out again, because it is reserved while it is pending, and       *)
(* because a ballot that left the pending queue does not come back: its    *)
(* vote ID has a status, and a request for a vote ID with a status is      *)
(* refused.                                                                *)

\* The votes that some queue or some actor holds.
Working ==
    pending \cup verified \cup Aggregated \cup (UNION transitions)
      \cup agg.todo \cup agg.chosen \cup jobs \cup ({prover.vote} \cap Votes)
      \cup {v \in Votes : submits[v] > 0}

\* Such a vote has a status; a request on its way to the storage has none.
StartedInv ==
    /\ \A v \in Working : status[v] # "none"
    /\ \A v \in requests : status[v] = "none"

\* What the prover and the workers hold is reserved as long as it is pending.
HeldInv == \A v \in pending \ pendingRes : v # prover.vote /\ v \notin jobs

\* A status is never withdrawn, and only the votes of S get one.
LEMMA WithStatusStarts ==
    ASSUME NEW st, NEW S, NEW new, NEW v \in Votes, new # "none"
    PROVE  /\ st[v] # "none" => WithStatus(st, S, new)[v] # "none"
           /\ v \notin S => WithStatus(st, S, new)[v] = st[v]
           /\ v \in S => WithStatus(st, S, new)[v] # "none"
  BY DEF WithStatus

\* A step that hands out nothing new and gives no other vote a status.
LEMMA StartedMove ==
    ASSUME TypeInv, StartedInv, TypeInv', NEW S, S \cap requests' = {},
           Working' \subseteq Working \cup S, requests' \subseteq requests,
           \A v \in Votes : status[v] # "none" => status'[v] # "none",
           \A v \in S : status'[v] # "none",
           \A v \in Votes : status[v] = "none" /\ v \notin Working \cup S => status'[v] = "none"
    PROVE  StartedInv'
  <1>1. Working \subseteq Votes
    <2>1. \A k \in BatchKeys : batches[k] \subseteq Votes
      BY DEF TypeInv, TypeOK
    <2>2. Aggregated \subseteq Votes
      BY <2>1 DEF Aggregated
    <2>3. UNION transitions \subseteq Votes
      BY DEF TypeInv, TypeOK
    <2>4. pending \cup verified \cup agg.todo \cup agg.chosen \cup jobs \subseteq Votes
      BY DEF TypeInv, TypeOK
    <2> QED BY <2>2, <2>3, <2>4 DEF Working
  <1>2. ASSUME NEW v \in Working' PROVE status'[v] # "none"
    BY <1>1, <1>2 DEF StartedInv
  <1>3. ASSUME NEW v \in requests' PROVE status'[v] = "none"
    <2>1. v \in Votes /\ status[v] = "none" /\ v \notin Working /\ v \notin S
      BY <1>3 DEF StartedInv, TypeInv, TypeOK
    <2> QED BY <2>1
  <1> QED BY <1>2, <1>3 DEF StartedInv

\* The votes the prover, the workers and the aggregate processor work on were
\* in a queue before.
LEMMA WorkingMoves ==
    ASSUME TypeInv, ~Restart, [Next]_vars
    PROVE  /\ \A v \in Votes : submits'[v] > 0 => submits[v] > 0 \/ v \in jobs
           /\ jobs' \subseteq jobs \cup pending
           /\ {prover'.vote} \cap Votes \subseteq pending \cup ({prover.vote} \cap Votes)
           /\ agg'.todo \cup agg'.chosen \subseteq agg.todo \cup agg.chosen \cup verified
  <1>1. CASE ProverNext
    <2>1. UNCHANGED <<submits, jobs, agg>>
      BY <1>1 DEF ProverNext, ProverTake, ProverStart, ProverReturn, ProverStore
    <2>2. ASSUME NEW v \in Votes, ProverTake(v)
          PROVE  prover'.vote = v \/ prover'.vote = prover.vote
      BY <2>2 DEF ProverTake, Idle
    <2>3. CASE ProverStart \/ ProverReturn
      BY <2>3 DEF ProverStart, ProverReturn, TypeInv, TypeOK
    <2>4. CASE ProverStore
      BY <2>1, <2>4, VoteAssumption DEF ProverStore, Idle
    <2> QED BY <1>1, <2>1, <2>2, <2>3, <2>4 DEF ProverNext, ProverTake
  <1>2. CASE WorkerNext
    <2>1. UNCHANGED <<prover, agg>>
      BY <1>2 DEF WorkerNext, WorkerNewJob, WorkerSubmit, WorkerStore, JobTimeout
    <2>2. jobs' \subseteq jobs \cup pending
      BY <1>2 DEF WorkerNext, WorkerNewJob, WorkerSubmit, WorkerStore, JobTimeout
    <2>3. PICK w \in Votes : WorkerNewJob(w) \/ WorkerSubmit(w) \/ WorkerStore(w) \/ JobTimeout(w)
      BY <1>2 DEF WorkerNext
    <2>4. \A v \in Votes : submits'[v] > 0 => submits[v] > 0 \/ v \in jobs
      BY <2>3 DEF WorkerNewJob, WorkerSubmit, WorkerStore, JobTimeout, TypeInv, TypeOK
    <2> QED BY <2>1, <2>2, <2>4
  <1>3. CASE AggNext
    <2>1. UNCHANGED <<submits, jobs, prover>>
      BY <1>3 DEF AggNext, AggPull, AggLoadState, AggReject, AggAccept, AggReleaseSurplus,
          AggProve, AggFail, AggRelease, AggPush, AggDone
    <2>2. CASE AggPull
      BY <2>1, <2>2 DEF AggPull
    <2>3. CASE agg' = AggIdle
      BY <2>1, <2>3 DEF AggIdle
    <2>4. CASE agg'.todo \cup agg'.chosen \subseteq agg.todo \cup agg.chosen
      BY <2>1, <2>4
    <2>5. agg'.pc = "idle" => agg' = AggIdle
      <3>1. CASE AggPull \/ AggPush \/ AggFail \/ AggReleaseSurplus
        BY <3>1 DEF AggPull, AggPush, AggFail, AggReleaseSurplus, TypeInv, TypeOK
      <3>2. CASE AggLoadState \/ AggProve
        BY <3>2 DEF AggLoadState, AggProve, TypeInv, TypeOK
      <3>3. CASE AggRelease \/ AggDone
        BY <3>3 DEF AggRelease, AggDone
      <3>4. ASSUME NEW v \in Votes, AggReject(v) \/ AggAccept(v) PROVE agg'.pc = "collect"
        BY <3>4 DEF AggReject, AggAccept, TypeInv, TypeOK
      <3> QED BY <1>3, <3>1, <3>2, <3>3, <3>4 DEF AggNext
    <2>6. AggPull \/ agg'.pc = "idle"
            \/ agg'.todo \cup agg'.chosen \subseteq agg.todo \cup agg.chosen
      BY <1>3, AggMoves
    <2> QED BY <2>1, <2>5, <2>6, <2>2, <2>3, <2>4
  <1>4. CASE ~ProverNext /\ ~WorkerNext /\ ~AggNext
    <2>1. UNCHANGED <<submits, jobs, prover, agg>>
      BY <1>4 DEF Next, NewVote, PushPendingBallot, SettlementNext, TransitionCommit,
          TransitionFail, Settle, SettleFail, MonitorNext, StatusChange, ResultsEvent,
          CleanProcessStaleVotes, Expire, MarkEnded, CleanupEndedProcess, CheckAndRegister,
          ReleaseStaleReservations, actorVars, vars
    <2> QED BY <2>1
  <1> QED BY <1>1, <1>2, <1>3, <1>4

\* Apart from the submission of a ballot, a step stores only votes that are
\* already in the pipeline or being worked on, and gives a status to no other.
LEMMA StoredMoves ==
    ASSUME TypeInv, ~Restart, [Next]_vars, \A v \in Votes : ~PushPendingBallot(v)
    PROVE  /\ InPipeline' \subseteq Working
           /\ \A v \in Votes :
                /\ status[v] # "none" => status'[v] # "none"
                /\ status[v] = "none" /\ v \notin Working => status'[v] = "none"
  <1> DEFINE Goal ==
        /\ InPipeline' \subseteq Working
        /\ \A v \in Votes :
             /\ status[v] # "none" => status'[v] # "none"
             /\ status[v] = "none" /\ v \notin Working => status'[v] = "none"
  <1>1. InPipeline \subseteq Working
    BY DEF InPipeline, Working
  <1>2. ASSUME NEW S \in SUBSET Working, NEW new, new # "none",
               status' = WithStatus(status, S, new), InPipeline' \subseteq Working
        PROVE  Goal
    BY <1>2, WithStatusStarts
  <1>3. ASSUME UNCHANGED status, InPipeline' \subseteq Working PROVE Goal
    BY <1>3
  <1>4. ASSUME NEW w \in Working, UNCHANGED chainVars, w \in Votes,
               MarkBallotVerified(w) \/ RemovePendingBallot(w)
        PROVE  Goal
    <2>1. InPipeline' \subseteq InPipeline \cup {w}
      BY <1>4 DEF InPipeline, Aggregated, chainVars, MarkBallotVerified, RemovePendingBallot
    <2> QED BY <1>1, <1>2, <1>4, <2>1 DEF MarkBallotVerified, RemovePendingBallot
  <1>5. ASSUME NEW S, MarkVerifiedBallotsFailed(S), UNCHANGED chainVars PROVE Goal
    <2>1. InPipeline' \subseteq InPipeline
      BY <1>5 DEF InPipeline, Aggregated, chainVars, MarkVerifiedBallotsFailed
    <2>2. S \cap verified \subseteq Working
      BY DEF Working
    <2> QED BY <1>1, <1>2, <1>5, <2>1, <2>2 DEF MarkVerifiedBallotsFailed
  <1>6. ASSUME NEW k \in BatchKeys, NEW S \in SUBSET Working, PushAggregatorBatch(k, S),
               UNCHANGED <<pending, verified>>, UNION transitions' \subseteq UNION transitions
        PROVE  Goal
    <2>1. Aggregated' \subseteq Aggregated \cup S
      BY <1>6 DEF Aggregated, PushAggregatorBatch, TypeInv, TypeOK
    <2>2. InPipeline' \subseteq Working
      BY <1>1, <1>6, <2>1 DEF InPipeline
    <2> QED BY <1>2, <1>6, <2>2 DEF PushAggregatorBatch
  <1>7. CASE AggNext
    <2>1. ASSUME NEW v \in Votes, AggReject(v) PROVE Goal
      BY <1>5, <2>1 DEF AggReject
    <2>2. CASE AggFail
      BY <1>5, <2>2 DEF AggFail
    <2>3. CASE AggPush
      BY <1>6, <2>3 DEF AggPush, Working, queueVars
    <2>4. CASE UNCHANGED <<pending, batches, transitions, status>> /\ verified' \subseteq verified
      <3>1. InPipeline' \subseteq InPipeline
        BY <2>4 DEF InPipeline, Aggregated
      <3> QED BY <1>1, <1>3, <2>4, <3>1
    <2>5. CASE AggPull \/ AggLoadState \/ AggReleaseSurplus \/ AggProve \/ AggRelease \/ AggDone
               \/ \E v \in Votes : AggAccept(v)
      BY <2>4, <2>5 DEF AggPull, AggLoadState, AggReleaseSurplus, AggProve, AggRelease, AggDone,
          AggAccept, MarkVerifiedBallotsDone, ReleaseVerifiedBallotReservations, queueVars,
          chainVars
    <2> QED BY <1>7, <2>1, <2>2, <2>3, <2>5 DEF AggNext
  <1>8. ASSUME NEW v \in Votes, WorkerStore(v) PROVE Goal
    BY <1>4, <1>8 DEF WorkerStore, Working
  <1>9. CASE ProverStore
    <2>1. prover.vote \in Votes /\ prover.vote \in Working
      BY <1>9 DEF ProverStore, TypeInv, ProverHasVote, Working
    <2> QED BY <1>4, <1>9, <2>1 DEF ProverStore
  <1>10. ASSUME NEW k \in BatchKeys, TransitionCommit(k) \/ TransitionFail(k) PROVE Goal
    <2>1. batches' = [batches EXCEPT ![k] = {}] /\ UNCHANGED <<pending, verified>>
      BY <1>10 DEF TransitionCommit, TransitionFail, MarkAggregatorBatchFailed, queueVars
    <2>2. Aggregated' \subseteq Aggregated /\ batches[k] \subseteq Aggregated
      BY <2>1 DEF Aggregated, TypeInv, TypeOK
    <2>3. UNION transitions' \subseteq (UNION transitions) \cup batches[k]
      BY <1>10 DEF TransitionCommit, TransitionFail
    <2>4. InPipeline' \subseteq Working /\ batches[k] \subseteq Working
      BY <1>1, <2>1, <2>2, <2>3 DEF InPipeline
    <2> QED BY <1>2, <1>10, <2>4 DEF TransitionCommit, TransitionFail, MarkAggregatorBatchFailed
  <1>11. ASSUME NEW t \in transitions, Settle(t) \/ SettleFail(t) PROVE Goal
    <2>1. UNCHANGED <<pending, verified>> /\ UNION transitions' \subseteq UNION transitions
            /\ t \subseteq Working
      BY <1>11 DEF Settle, SettleFail, queueVars, Working
    <2>2. CASE UNCHANGED batches
      <3>1. InPipeline' \subseteq Working
        BY <1>1, <2>1, <2>2 DEF InPipeline, Aggregated
      <3>2. CASE Settle(t)
        BY <2>1, <3>1, <3>2 DEF Settle
      <3>3. CASE status' = WithStatus(status, t, "error")
        BY <1>2, <2>1, <3>1, <3>3
      <3>4. ASSUME NEW k \in BatchKeys, PushAggregatorBatch(k, t) PROVE Goal
        BY <1>6, <2>1, <3>4
      <3> QED BY <1>11, <3>2, <3>3, <3>4 DEF SettleFail
    <2>3. ASSUME NEW k \in BatchKeys, PushAggregatorBatch(k, t) PROVE Goal
      BY <1>6, <2>1, <2>3
    <2> QED BY <1>11, <2>2, <2>3 DEF Settle, SettleFail
  <1>12. CASE CleanProcessStaleVotes
    <2>1. UNCHANGED status
      BY <1>12 DEF CleanProcessStaleVotes
    <2>2. /\ pending' \subseteq pending /\ verified' \subseteq verified
          /\ transitions' \subseteq transitions
          /\ UNCHANGED batches \/ batches' = [k \in BatchKeys |-> {}]
      BY <1>12 DEF CleanProcessStaleVotes, queueVars
    <2>3. InPipeline' \subseteq InPipeline
      BY <2>2 DEF InPipeline, Aggregated
    <2> QED BY <1>1, <1>3, <2>1, <2>3
  <1>13. CASE CleanupEndedProcess
    <2>1. InPipeline' = {}
      BY <1>13 DEF CleanupEndedProcess, InPipeline, Aggregated
    <2>2. status' = WithStatus(status, {v \in Votes : status[v] # "none"}, "timeout")
      BY <1>13 DEF CleanupEndedProcess
    <2> QED BY <2>1, <2>2, WithStatusStarts
  <1>14. CASE UNCHANGED <<pending, verified, batches, transitions, status>>
    BY <1>1, <1>3, <1>14 DEF InPipeline, Aggregated
  <1> QED BY <1>7, <1>8, <1>9, <1>10, <1>11, <1>12, <1>13, <1>14, StoringSteps
      DEF SettlementNext

\* Only the API changes the requests.
LEMMA RequestsStep ==
    ASSUME ~Restart, [Next]_vars, \A v \in Votes : ~PushPendingBallot(v) /\ ~NewVote(v)
    PROVE  UNCHANGED requests
  <1>1. CASE ProverNext \/ WorkerNext
    BY <1>1 DEF ProverNext, WorkerNext, ProverTake, ProverStart, ProverReturn, ProverStore,
        WorkerNewJob, WorkerSubmit, WorkerStore, JobTimeout
  <1>2. CASE AggNext
    BY <1>2 DEF AggNext, AggPull, AggLoadState, AggReject, AggAccept, AggReleaseSurplus,
        AggProve, AggFail, AggRelease, AggPush, AggDone
  <1>3. CASE SettlementNext \/ MonitorNext \/ UNCHANGED vars
    BY <1>3 DEF SettlementNext, TransitionCommit, TransitionFail, Settle, SettleFail, MonitorNext,
        StatusChange, ResultsEvent, CleanProcessStaleVotes, Expire, MarkEnded,
        CleanupEndedProcess, CheckAndRegister, ReleaseStaleReservations, actorVars, vars
  <1> QED BY <1>1, <1>2, <1>3 DEF Next

\* The requests of votes without a status become the pending ballots, and a
\* vote that has a status keeps having one.
LEMMA StartedStep ==
    ASSUME AllowResubmit = FALSE, TornWrites = FALSE, TypeInv, TypeInv', StartedInv, [Next]_vars
    PROVE  StartedInv'
  <1>1. CASE Restart
    <2>1. UNCHANGED <<pending, verified, batches, transitions, status>>
      BY <1>1 DEF Restart
    <2>2. /\ agg' = AggIdle /\ jobs' = {} /\ requests' = {}
          /\ prover' = Idle /\ submits' = [v \in Votes |-> 0]
      BY <1>1 DEF Restart
    <2>3. Aggregated' = Aggregated /\ {prover'.vote} \cap Votes = {}
      BY <2>1, <2>2, VoteAssumption DEF Aggregated, Idle
    <2>4. {v \in Votes : submits'[v] > 0} = {}
      BY <2>2
    <2>5. Working' \subseteq Working
      BY <2>1, <2>2, <2>3, <2>4 DEF Working, AggIdle
    <2> QED BY <2>1, <2>2, <2>5, StartedMove
  <1>2. ASSUME ~Restart PROVE Working' \subseteq Working \cup InPipeline'
    <2>1. /\ \A v \in Votes : submits'[v] > 0 => v \in Working
          /\ jobs' \subseteq Working /\ {prover'.vote} \cap Votes \subseteq Working
          /\ agg'.todo \cup agg'.chosen \subseteq Working
      BY <1>2, WorkingMoves DEF Working
    <2>2. Working' = InPipeline' \cup agg'.todo \cup agg'.chosen \cup jobs'
                       \cup ({prover'.vote} \cap Votes) \cup {v \in Votes : submits'[v] > 0}
      BY DEF Working, InPipeline
    <2> QED BY <2>1, <2>2
  <1>3. ASSUME NEW w \in Votes, NewVote(w), ~Restart PROVE StartedInv'
    <2>1. /\ status[w] = "none" /\ requests' = requests \cup {w}
          /\ UNCHANGED <<pending, verified, batches, transitions, jobs, prover, submits, agg,
                         status>>
      BY <1>3 DEF NewVote, queueVars, chainVars
    <2>2. Working' = Working
      BY <2>1 DEF Working, Aggregated
    <2> QED BY <2>1, <2>2 DEF StartedInv
  <1>4. ASSUME NEW w \in Votes, PushPendingBallot(w), ~Restart PROVE StartedInv'
    <2>1. /\ requests' = requests \ {w}
          /\ UNCHANGED <<verified, batches, transitions>>
          /\ \/ UNCHANGED <<pending, status>>
             \/ pending' = pending \cup {w} /\ status' = WithStatus(status, {w}, "pending")
      BY <1>4 DEF PushPendingBallot, chainVars
    <2>2. Aggregated' = Aggregated
      BY <2>1 DEF Aggregated
    <2>3. CASE UNCHANGED <<pending, status>>
      <3>1. InPipeline' \subseteq Working
        BY <2>1, <2>2, <2>3 DEF InPipeline, Working
      <3>2. Working' \subseteq Working
        BY <1>2, <1>4, <3>1
      <3> QED BY <2>1, <2>3, <3>2 DEF StartedInv
    <2>4. CASE pending' = pending \cup {w} /\ status' = WithStatus(status, {w}, "pending")
      <3>1. InPipeline' \subseteq Working \cup {w}
        BY <2>1, <2>2, <2>4 DEF InPipeline, Working
      <3>2. \A v \in Votes : /\ status[v] # "none" => status'[v] # "none"
                             /\ v # w => status'[v] = status[v]
        BY <2>4, WithStatusStarts
      <3>3. status'[w] # "none"
        BY <2>4, WithStatusStarts
      <3>4. Working' \subseteq Working \cup {w}
        BY <1>2, <1>4, <3>1
      <3> QED BY <2>1, <3>2, <3>3, <3>4, StartedMove
    <2> QED BY <2>1, <2>3, <2>4
  <1>5. CASE ~Restart /\ \A v \in Votes : ~NewVote(v) /\ ~PushPendingBallot(v)
    <2>1. UNCHANGED requests
      BY <1>5, RequestsStep
    <2>2. Working' \subseteq Working
      BY <1>2, <1>5, StoredMoves
    <2>3. \A v \in Votes :
            /\ status[v] # "none" => status'[v] # "none"
            /\ status[v] = "none" /\ v \notin Working => status'[v] = "none"
      BY <1>5, StoredMoves
    <2> DEFINE S == {}
    <2>4. /\ S \cap requests' = {} /\ Working' \subseteq Working \cup S
          /\ \A v \in S : status'[v] # "none"
          /\ \A v \in Votes : status[v] = "none" /\ v \notin Working \cup S => status'[v] = "none"
      BY <2>2, <2>3
    <2> HIDE DEF S
    <2> QED BY <2>1, <2>3, <2>4, StartedMove
  <1> QED BY <1>1, <1>3, <1>4, <1>5

\* A reservation ends with the job or with the pending ballot.
LEMMA HeldStep ==
    ASSUME SlowJobs = FALSE, TypeInv, TypeInv', StartedInv, HeldInv, ExclusiveJob, [Next]_vars
    PROVE  HeldInv' /\ ExclusiveJob'
  <1>1. CASE Restart
    <2>1. jobs' = {} /\ prover'.vote = NoVote /\ pending' \subseteq Votes
      BY <1>1 DEF Restart, Idle, TypeInv, TypeOK
    <2> QED BY <2>1, VoteAssumption DEF HeldInv, ExclusiveJob
  <1>2. ASSUME NEW w \in Votes, PushPendingBallot(w) PROVE HeldInv' /\ ExclusiveJob'
    <2>1. pending' \subseteq pending \cup {w} /\ UNCHANGED <<pendingRes, prover, jobs>>
      BY <1>2 DEF PushPendingBallot
    <2>2. w # prover.vote /\ w \notin jobs
      BY <1>2 DEF PushPendingBallot, StartedInv, Working
    <2> QED BY <2>1, <2>2 DEF HeldInv, ExclusiveJob
  <1>3. CASE ProverNext
    <2>1. ASSUME NEW w \in Votes, ProverTake(w) PROVE HeldInv' /\ ExclusiveJob'
      <3>1. /\ w \in pending \ pendingRes /\ pendingRes' = pendingRes \cup {w}
            /\ UNCHANGED <<pending, jobs>>
            /\ prover'.vote = w \/ prover'.vote = prover.vote
        BY <2>1 DEF ProverTake, Idle
      <3> QED BY <3>1 DEF HeldInv, ExclusiveJob
    <2>2. CASE ProverStart \/ ProverReturn
      <3>1. UNCHANGED <<pending, pendingRes, jobs>> /\ prover'.vote = prover.vote
        BY <2>2 DEF ProverStart, ProverReturn, queueVars, TypeInv, TypeOK
      <3> QED BY <3>1 DEF HeldInv, ExclusiveJob
    <2>3. CASE ProverStore
      <3>1. /\ pending' = pending \ {prover.vote} /\ pendingRes' = pendingRes \ {prover.vote}
            /\ UNCHANGED jobs /\ prover'.vote = NoVote
        BY <2>3 DEF ProverStore, MarkBallotVerified, RemovePendingBallot, Idle
      <3> QED BY <3>1, VoteAssumption DEF HeldInv, ExclusiveJob, TypeInv, TypeOK
    <2> QED BY <1>3, <2>1, <2>2, <2>3 DEF ProverNext
  <1>4. CASE WorkerNext
    <2>1. UNCHANGED prover
      BY <1>4 DEF WorkerNext, WorkerNewJob, WorkerSubmit, WorkerStore, JobTimeout
    <2>2. PICK w \in Votes : WorkerNewJob(w) \/ WorkerSubmit(w) \/ WorkerStore(w) \/ JobTimeout(w)
      BY <1>4 DEF WorkerNext
    <2>3. CASE WorkerNewJob(w)
      BY <2>1, <2>3 DEF WorkerNewJob, HeldInv, ExclusiveJob
    <2>4. CASE WorkerSubmit(w)
      BY <2>1, <2>4 DEF WorkerSubmit, queueVars, HeldInv, ExclusiveJob
    <2>5. CASE WorkerStore(w)
      BY <2>1, <2>5 DEF WorkerStore, MarkBallotVerified, HeldInv, ExclusiveJob
    <2>6. CASE JobTimeout(w)
      BY <2>1, <2>6 DEF JobTimeout, HeldInv, ExclusiveJob
    <2> QED BY <2>2, <2>3, <2>4, <2>5, <2>6
  <1>5. CASE ReleaseStaleReservations
    <2>1. PICK P \in SUBSET pendingRes : P \cap Held.pending = {} /\ pendingRes' = pendingRes \ P
      BY <1>5 DEF ReleaseStaleReservations
    <2>2. Held.pending = ({prover.vote} \cap Votes) \cup jobs
      BY DEF Held
    <2>3. UNCHANGED <<pending, prover, jobs>>
      BY <1>5 DEF ReleaseStaleReservations, actorVars
    <2> QED BY <2>1, <2>2, <2>3 DEF HeldInv, ExclusiveJob, TypeInv, TypeOK
  <1>6. CASE CleanProcessStaleVotes \/ CleanupEndedProcess
    <2>1. UNCHANGED <<prover, jobs>> /\ (pending' = {} \/ UNCHANGED <<pending, pendingRes>>)
      BY <1>6 DEF CleanProcessStaleVotes, CleanupEndedProcess, queueVars
    <2> QED BY <2>1 DEF HeldInv, ExclusiveJob
  <1>7. CASE UNCHANGED <<pending, pendingRes, prover, jobs>>
    BY <1>7 DEF HeldInv, ExclusiveJob
  <1>8. AggNext => UNCHANGED <<pending, pendingRes, prover, jobs>>
    BY DEF AggNext, AggPull, AggLoadState, AggReject, AggAccept, AggReleaseSurplus, AggProve,
        AggFail, AggRelease, AggPush, AggDone, MarkVerifiedBallotsFailed,
        MarkVerifiedBallotsDone, ReleaseVerifiedBallotReservations, queueVars
  <1>9. SettlementNext \/ (\E v \in Votes : NewVote(v)) \/ UNCHANGED vars
          => UNCHANGED <<pending, pendingRes, prover, jobs>>
    BY DEF SettlementNext, TransitionCommit, TransitionFail, Settle, SettleFail, NewVote, vars,
        queueVars, actorVars
  <1>10. MonitorNext => \/ CleanProcessStaleVotes \/ CleanupEndedProcess
                        \/ ReleaseStaleReservations
                        \/ UNCHANGED <<pending, pendingRes, prover, jobs>>
    BY DEF MonitorNext, StatusChange, ResultsEvent, Expire, MarkEnded, CheckAndRegister,
        queueVars, actorVars
  <1> QED BY <1>1, <1>2, <1>3, <1>4, <1>5, <1>6, <1>7, <1>8, <1>9, <1>10 DEF Next

\* The local prover and a remote worker never hold the same ballot, whatever
\* the process does and however often the node restarts, as long as jobs end
\* within the time of their reservation, a vote ID is submitted once and no
\* crash tears a storage call apart (NextPendingBallot, RegisterJob and
\* ReleasePendingBallotReservation).
THEOREM JobsExclusive ==
    ASSUME SlowJobs = FALSE, AllowResubmit = FALSE, TornWrites = FALSE
    PROVE  Spec => []ExclusiveJob
  <1> DEFINE Inv == TypeInv /\ StartedInv /\ HeldInv /\ ExclusiveJob
  <1>1. Init => Inv
    <2> SUFFICES ASSUME Init PROVE Inv
      OBVIOUS
    <2>1. TypeInv
      BY TypeInit
    <2>2. Aggregated = {} /\ UNION transitions = {}
      BY DEF Init, Aggregated
    <2>3. {prover.vote} \cap Votes = {} /\ {v \in Votes : submits[v] > 0} = {}
      BY VoteAssumption DEF Init, Idle
    <2>4. Working = {}
      BY <2>2, <2>3 DEF Working, Init, AggIdle
    <2> QED BY <2>1, <2>4 DEF Init, StartedInv, HeldInv, ExclusiveJob
  <1>2. Inv /\ [Next]_vars => Inv'
    BY TypeStep, StartedStep, HeldStep
  <1>3. Inv => ExclusiveJob
    OBVIOUS
  <1> QED BY <1>1, <1>2, <1>3, PTL DEF Spec
=============================================================================
