---------------------------- MODULE BallotQueue ----------------------------
(***************************************************************************)
(* Stages 1 to 3 of the vote pipeline of davinci-node, for one voting      *)
(* process: a ballot is submitted through the API, gets its individual     *)
(* proof from the local ballot processor or from a remote worker, and is   *)
(* aggregated with others into a batch.  The queues live in a key-value    *)
(* database (package storage); the goroutines that move ballots between    *)
(* them meet only through storage calls, each atomic under                 *)
(* Storage.globalLock, and through Sequencer.workInProgressLock.           *)
(*                                                                         *)
(* Persistent state: the queues, their reservations, the vote statuses,    *)
(* the process record and the state tree.  Volatile state: the vote ID and *)
(* address locks, the job table and the position of every goroutine.       *)
(* Restart drops the latter and runs Storage.recover.                      *)
(*                                                                         *)
(* What happens to a batch once it is aggregated is modelled in detail in  *)
(* module Settlement; here it is an environment with the effects that the  *)
(* first three stages can observe.                                         *)
(***************************************************************************)
EXTENDS Integers, FiniteSets

CONSTANTS
    Votes,            \* vote IDs
    Addresses,        \* voter addresses
    AddressOf,        \* AddressOf[v]: the address that casts the vote ID v
    BatchKeys,        \* keys of the aggregator queue (bound: batches stored at once)
    VotesPerBatch,    \* params.VotesPerBatch
    RemoteWorkers,    \* BOOLEAN: remote workers take ballots too
    MaxSubmits,       \* bound: concurrent submissions of one remote job
    ProcessEvents,    \* subset of {"pause", "end", "expire", "results"} that may happen
    AllowResubmit,    \* BOOLEAN: a client may submit a vote ID again
    SlowJobs,         \* BOOLEAN: a job may outlive the 5 minutes of its reservation
    AggProofMayFail,  \* BOOLEAN: the aggregator's prover may fail
    MaxRestarts,      \* bound: crashes followed by a restart
    TornWrites        \* BOOLEAN: a crash may hit the middle of a storage call

ASSUME AddressAssumption == AddressOf \in [Votes -> Addresses]
ASSUME BatchAssumption == VotesPerBatch \in Nat \ {0}
ASSUME BoundAssumption == MaxSubmits \in Nat \ {0} /\ MaxRestarts \in Nat
ASSUME EventAssumption == ProcessEvents \subseteq {"pause", "end", "expire", "results"}
ASSUME SwitchAssumption ==
    {RemoteWorkers, AllowResubmit, SlowJobs, AggProofMayFail, TornWrites} \subseteq BOOLEAN

VARIABLES
    \* database
    pending,        \* b/   : vote IDs of the pending ballots
    pendingRes,     \* reservations of b/
    verified,       \* vb/  : vote IDs of the verified ballots
    verifiedRes,    \* reservations of vb/
    batches,        \* ag/  : batch key -> votes of the batch ({} is absent)
    transitions,    \* st/  : vote sets of the state transitions not settled yet
    status,         \* vote ID status
    tree,           \* vote IDs in the state tree (in-construction root)
    process,        \* [status, expired, registered] of the process record
    \* memory
    voteIDLocks,    \* processingVoteIDs
    addressLocks,   \* processingAddresses
    requests,       \* POST /votes requests that passed their checks
    prover,         \* the local ballot processor: [pc, vote]
    jobs,           \* votes with a job in JobsManager.pending
    submits,        \* worker submissions that passed their checks, per vote
    agg,            \* the aggregate processor: [pc, todo, chosen]
    monitor,        \* what monitorEndedProcesses / statusChangeCallback still has to do
    restarts

queueVars == <<pending, pendingRes, verified, verifiedRes>>
lockVars == <<voteIDLocks, addressLocks>>
chainVars == <<batches, transitions, tree>>
actorVars == <<requests, prover, jobs, submits, agg, monitor>>
vars == <<queueVars, lockVars, chainVars, actorVars, status, process, restarts>>

Statuses == {"none", "pending", "verified", "aggregated", "processed", "done",
             "error", "timeout"}

NoVote == "no vote"

ASSUME VoteAssumption == NoVote \notin Votes

Idle == [pc |-> "idle", vote |-> NoVote]
AggIdle == [pc |-> "idle", todo |-> {}, chosen |-> {}]

----------------------------------------------------------------------------
(* Reading the state                                                       *)

\* processIsAcceptingVotes: ready, not past its end time, registered.
IsAcceptingVotes ==
    process.status = "ready" /\ ~process.expired /\ process.registered

\* Votes of the batches in the aggregator queue.
Aggregated == UNION {batches[k] : k \in BatchKeys}

\* workInProgressLock: processBallot holds it for reading, aggregateBatch and
\* the state transition processor for writing.
NoReader == prover.pc # "proving"
NoWriter == agg.pc = "idle"

----------------------------------------------------------------------------
(* Storage operations                                                      *)

\* Mutant of WithStatus: done is not protected.
WithStatusUnprotected(st, S, new) == [v \in Votes |-> IF v \in S THEN new ELSE st[v]]

\* setVoteIDStatus on a set of votes: done is final, any other transition is
\* at most logged.
WithStatus(st, S, new) ==
    [v \in Votes |-> IF v \in S /\ st[v] # "done" THEN new ELSE st[v]]

\* Mutant of ReleaseLocks: the address stays locked.
ReleaseVoteIDOnly(S) == voteIDLocks' = voteIDLocks \ S /\ UNCHANGED addressLocks

\* releaseVoteID and releaseAddress for the ballots in S.
ReleaseLocks(S) ==
    /\ voteIDLocks' = voteIDLocks \ S
    /\ addressLocks' = addressLocks \ {AddressOf[v] : v \in S}

\* Mutant of RemovePendingBallot: the vote keeps its status.
RemovePendingBallotSilently(v) ==
    /\ pendingRes' = pendingRes \ {v}
    /\ pending' = pending \ {v}
    /\ ReleaseLocks({v} \cap pending)
    /\ UNCHANGED <<verified, verifiedRes, status>>

\* RemovePendingBallot: locks are released only if the ballot is still there.
RemovePendingBallot(v) ==
    /\ pendingRes' = pendingRes \ {v}
    /\ pending' = pending \ {v}
    /\ ReleaseLocks({v} \cap pending)
    /\ status' = WithStatus(status, {v}, "error")
    /\ UNCHANGED <<verified, verifiedRes>>

\* MarkBallotVerified: stores the verified ballot even if the pending ballot
\* is gone.
MarkBallotVerified(v) ==
    /\ verified' = verified \cup {v}
    /\ pendingRes' = pendingRes \ {v}
    /\ pending' = pending \ {v}
    /\ status' = WithStatus(status, {v}, "verified")
    /\ UNCHANGED <<verifiedRes, lockVars>>

\* Mutant of MarkVerifiedBallotsFailed: the ballots stay in the queue.
MarkVerifiedBallotsFailedInPlace(S) ==
    /\ status' = WithStatus(status, S \cap verified, "error")
    /\ verifiedRes' = verifiedRes \ S
    /\ ReleaseLocks(S \cap verified)
    /\ UNCHANGED <<pending, pendingRes, verified>>

\* MarkVerifiedBallotsFailed: keys that are not found are skipped.
MarkVerifiedBallotsFailed(S) ==
    LET found == S \cap verified
    IN  /\ status' = WithStatus(status, found, "error")
        /\ verified' = verified \ found
        /\ verifiedRes' = verifiedRes \ found
        /\ ReleaseLocks(found)
        /\ UNCHANGED <<pending, pendingRes>>

\* MarkVerifiedBallotsDone: keys that are not found keep their locks.
MarkVerifiedBallotsDone(S) ==
    /\ ReleaseLocks(S \cap verified)
    /\ verified' = verified \ S
    /\ verifiedRes' = verifiedRes \ S
    /\ UNCHANGED <<pending, pendingRes, status>>

\* ReleaseVerifiedBallotReservations.
ReleaseVerifiedBallotReservations(S) ==
    /\ verifiedRes' = verifiedRes \ S
    /\ UNCHANGED <<pending, pendingRes, verified, lockVars, status>>

\* pushAggregatorBatch: a new key of the aggregator queue.
PushAggregatorBatch(k, S) ==
    /\ batches[k] = {}
    /\ batches' = [batches EXCEPT ![k] = S]
    /\ status' = WithStatus(status, S, "aggregated")

\* MarkAggregatorBatchFailed: only the vote ID locks are released.
MarkAggregatorBatchFailed(k) ==
    /\ voteIDLocks' = voteIDLocks \ batches[k]
    /\ status' = WithStatus(status, batches[k], "error")
    /\ batches' = [batches EXCEPT ![k] = {}]

----------------------------------------------------------------------------
(* The API: POST /votes                                                    *)

\* newVote: every check of the request passed, PushPendingBallot comes next.
NewVote(v) ==
    /\ v \notin requests
    /\ AllowResubmit \/ status[v] = "none"
    /\ IsAcceptingVotes
    /\ requests' = requests \cup {v}
    /\ UNCHANGED <<queueVars, lockVars, chainVars, prover, jobs, submits, agg,
                   monitor, status, process, restarts>>

\* PushPendingBallot takes both locks, or refuses and leaves them as they were.
PushPendingBallot(v) ==
    /\ v \in requests
    /\ requests' = requests \ {v}
    /\ IF v \in voteIDLocks \/ AddressOf[v] \in addressLocks \/ v \in pending
       THEN UNCHANGED <<pending, lockVars, status>>
       ELSE /\ pending' = pending \cup {v}
            /\ voteIDLocks' = voteIDLocks \cup {v}
            /\ addressLocks' = addressLocks \cup {AddressOf[v]}
            /\ status' = WithStatus(status, {v}, "pending")
    /\ UNCHANGED <<pendingRes, verified, verifiedRes, chainVars, prover, jobs,
                   submits, agg, monitor, process, restarts>>

----------------------------------------------------------------------------
(* The local ballot processor                                              *)

\* NextPendingBallot.  A ballot of a process that is not registered is
\* skipped and keeps its reservation.
ProverTake(v) ==
    /\ prover = Idle
    /\ v \in pending \ pendingRes
    /\ pendingRes' = pendingRes \cup {v}
    /\ prover' = IF process.registered THEN [pc |-> "taken", vote |-> v] ELSE Idle
    /\ UNCHANGED <<pending, verified, verifiedRes, lockVars, chainVars, requests,
                   jobs, submits, agg, monitor, status, process, restarts>>

\* processBallot takes the read lock and checks the process.
ProverStart ==
    /\ prover.pc = "taken"
    /\ NoWriter
    /\ prover' = [prover EXCEPT !.pc = IF IsAcceptingVotes THEN "proving" ELSE "invalid"]
    /\ UNCHANGED <<queueVars, lockVars, chainVars, requests, jobs, submits, agg,
                   monitor, status, process, restarts>>

\* processBallot returns: the proof was generated, or the ballot is invalid.
ProverReturn ==
    /\ prover.pc = "proving"
    /\ \E result \in {"proved", "invalid"} : prover' = [prover EXCEPT !.pc = result]
    /\ UNCHANGED <<queueVars, lockVars, chainVars, requests, jobs, submits, agg,
                   monitor, status, process, restarts>>

\* processAvailableBallots stores the outcome.
ProverStore ==
    /\ \/ prover.pc = "proved" /\ MarkBallotVerified(prover.vote)
       \/ prover.pc = "invalid" /\ RemovePendingBallot(prover.vote)
    /\ prover' = Idle
    /\ UNCHANGED <<chainVars, requests, jobs, submits, agg, monitor, process, restarts>>

----------------------------------------------------------------------------
(* Remote workers                                                          *)

\* workersNewJob: NextPendingBallot and RegisterJob.  The registration is
\* refused when the worker was banned in between; the reservation stays.
WorkerNewJob(v) ==
    /\ RemoteWorkers
    /\ v \in pending \ pendingRes
    /\ pendingRes' = pendingRes \cup {v}
    /\ jobs' \in {jobs, jobs \cup {v}}
    /\ UNCHANGED <<pending, verified, verifiedRes, lockVars, chainVars, requests,
                   prover, submits, agg, monitor, status, process, restarts>>

\* workersSubmitJob: the job exists, the pending ballot exists, the proof
\* verifies; MarkBallotVerified comes next.
WorkerSubmit(v) ==
    /\ v \in jobs /\ v \in pending
    /\ submits[v] < MaxSubmits
    /\ submits' = [submits EXCEPT ![v] = @ + 1]
    /\ UNCHANGED <<queueVars, lockVars, chainVars, requests, prover, jobs, agg,
                   monitor, status, process, restarts>>

\* Mutant of WorkerStore: runs for a submission that was not checked.
WorkerStoreUnchecked(v) ==
    /\ MarkBallotVerified(v)
    /\ submits' = [submits EXCEPT ![v] = @ - 1]
    /\ jobs' = jobs \ {v}
    /\ UNCHANGED <<chainVars, requests, prover, agg, monitor, process, restarts>>

\* workersSubmitJob stores the verified ballot, then completes the job.
WorkerStore(v) ==
    /\ submits[v] > 0
    /\ MarkBallotVerified(v)
    /\ submits' = [submits EXCEPT ![v] = @ - 1]
    /\ jobs' = jobs \ {v}
    /\ UNCHANGED <<chainVars, requests, prover, agg, monitor, process, restarts>>

\* checkTimeouts drops the job and the workers monitor calls
\* ReleasePendingBallotReservation.
JobTimeout(v) ==
    /\ v \in jobs
    /\ jobs' = jobs \ {v}
    /\ pendingRes' = pendingRes \ {v}
    /\ UNCHANGED <<pending, verified, verifiedRes, lockVars, chainVars, requests,
                   prover, submits, agg, monitor, status, process, restarts>>

----------------------------------------------------------------------------
(* The aggregate processor: aggregateBatch, under the write lock           *)

\* Mutant of Pullable: several ballots of one address are returned.
PullableAnyAddress(S) ==
    LET free == verified \ verifiedRes
    IN  /\ S # {} /\ S \subseteq free
        /\ Cardinality(S) <= 2 * VotesPerBatch
        /\ Cardinality(S) = 2 * VotesPerBatch \/ S = free

\* What PullVerifiedBallots may return: unreserved ballots of distinct
\* addresses, as many as there are up to twice the batch size.
Pullable(S) ==
    LET free == verified \ verifiedRes
    IN  /\ S # {} /\ S \subseteq free
        /\ \A v, w \in S : AddressOf[v] = AddressOf[w] => v = w
        /\ Cardinality(S) <= 2 * VotesPerBatch
        /\ \/ Cardinality(S) = 2 * VotesPerBatch
           \/ \A w \in free : \E v \in S : AddressOf[v] = AddressOf[w]

AggPull ==
    /\ agg = AggIdle
    /\ NoReader
    /\ IsAcceptingVotes
    /\ \E S \in SUBSET verified :
        /\ Pullable(S)
        /\ verifiedRes' = verifiedRes \cup S
        /\ agg' = [pc |-> "pulled", todo |-> S, chosen |-> {}]
    /\ UNCHANGED <<pending, pendingRes, verified, lockVars, chainVars, requests,
                   prover, jobs, submits, monitor, status, process, restarts>>

\* currentProcessState checks the process again; when it fails the pulled
\* ballots keep their reservations.
AggLoadState ==
    /\ agg.pc = "pulled"
    /\ agg' = IF IsAcceptingVotes THEN [agg EXCEPT !.pc = "collect"] ELSE AggIdle
    /\ UNCHANGED <<queueVars, lockVars, chainVars, requests, prover, jobs, submits,
                   monitor, status, process, restarts>>

\* collectAggregationBatchInputs drops a ballot: already in the state, over
\* the maximum of voters, or with a proof that does not verify.
AggReject(v) ==
    /\ agg.pc = "collect"
    /\ v \in agg.todo
    /\ v \in tree \/ AggProofMayFail
    /\ Cardinality(agg.chosen) < VotesPerBatch
    /\ MarkVerifiedBallotsFailed({v})
    /\ agg' = [agg EXCEPT !.todo = @ \ {v}]
    /\ UNCHANGED <<chainVars, requests, prover, jobs, submits, monitor, process,
                   restarts>>

\* collectAggregationBatchInputs takes a ballot into the batch.
AggAccept(v) ==
    /\ agg.pc = "collect"
    /\ v \in agg.todo
    /\ v \notin tree
    /\ Cardinality(agg.chosen) < VotesPerBatch
    /\ agg' = [agg EXCEPT !.todo = @ \ {v}, !.chosen = @ \cup {v}]
    /\ UNCHANGED <<queueVars, lockVars, chainVars, requests, prover, jobs, submits,
                   monitor, status, process, restarts>>

\* The batch is full: the reservations of the ballots left are released.
AggReleaseSurplus ==
    /\ agg.pc = "collect"
    /\ agg.todo # {}
    /\ Cardinality(agg.chosen) = VotesPerBatch
    /\ ReleaseVerifiedBallotReservations(agg.todo)
    /\ agg' = [agg EXCEPT !.todo = {}]
    /\ UNCHANGED <<chainVars, requests, prover, jobs, submits, monitor, process,
                   restarts>>

\* ProveAndVerify on the collected ballots; no ballot left means no batch.
AggProve ==
    /\ agg.pc = "collect"
    /\ agg.todo = {}
    /\ IF agg.chosen = {}
       THEN agg' = AggIdle
       ELSE \E result \in {"proved"} \cup (IF AggProofMayFail THEN {"failed"} ELSE {}) :
              agg' = [agg EXCEPT !.pc = result]
    /\ UNCHANGED <<queueVars, lockVars, chainVars, requests, prover, jobs, submits,
                   monitor, status, process, restarts>>

\* After a failed proof the ballots whose own proof does not verify fail...
AggFail ==
    /\ agg.pc = "failed"
    /\ \E bad \in SUBSET agg.chosen : MarkVerifiedBallotsFailed(bad)
    /\ agg' = [agg EXCEPT !.pc = "release"]
    /\ UNCHANGED <<chainVars, requests, prover, jobs, submits, monitor, process,
                   restarts>>

\* ... and every reservation is released.
AggRelease ==
    /\ agg.pc = "release"
    /\ ReleaseVerifiedBallotReservations(agg.chosen)
    /\ agg' = AggIdle
    /\ UNCHANGED <<chainVars, requests, prover, jobs, submits, monitor, process,
                   restarts>>

\* PushAggregatorBatch stores the batch ...
AggPush ==
    /\ agg.pc = "proved"
    /\ \E k \in BatchKeys : PushAggregatorBatch(k, agg.chosen)
    /\ agg' = [agg EXCEPT !.pc = "pushed"]
    /\ UNCHANGED <<queueVars, lockVars, transitions, tree, requests, prover, jobs,
                   submits, monitor, process, restarts>>

\* ... and, in a second storage call, its ballots leave the verified queue.
AggDone ==
    /\ agg.pc = "pushed"
    /\ MarkVerifiedBallotsDone(agg.chosen)
    /\ agg' = AggIdle
    /\ UNCHANGED <<chainVars, requests, prover, jobs, submits, monitor, process,
                   restarts>>

----------------------------------------------------------------------------
(* The environment: what happens to aggregated batches (module Settlement) *)

\* The state transition processor runs under the write lock on the batches of
\* registered processes.
TransitionRuns(k) ==
    batches[k] # {} /\ process.registered /\ NoReader /\ NoWriter

\* The transition is proved and queued for the chain.  The circuit inserts
\* every vote ID, so none may be in the tree already.
TransitionCommit(k) ==
    /\ TransitionRuns(k)
    /\ IsAcceptingVotes
    /\ batches[k] \cap tree = {}
    /\ tree' = tree \cup batches[k]
    /\ transitions' = transitions \cup {batches[k]}
    /\ status' = WithStatus(status, batches[k], "processed")
    /\ batches' = [batches EXCEPT ![k] = {}]
    /\ UNCHANGED <<queueVars, lockVars, actorVars, process, restarts>>

\* The process stopped accepting votes, or the proof cannot be generated.
TransitionFail(k) ==
    /\ TransitionRuns(k)
    /\ MarkAggregatorBatchFailed(k)
    /\ UNCHANGED <<queueVars, addressLocks, transitions, tree, actorVars, process,
                   restarts>>

\* MarkStateTransitionBatchDone: the transaction was mined.
Settle(t) ==
    /\ t \in transitions
    /\ transitions' = transitions \ {t}
    /\ voteIDLocks' = voteIDLocks \ t
    /\ status' = [v \in Votes |-> IF v \in t THEN "done" ELSE status[v]]
    /\ UNCHANGED <<queueVars, addressLocks, batches, tree, actorVars, process, restarts>>

\* MarkStateTransitionBatchFailed: the votes fail or the batch is queued again.
SettleFail(t) ==
    /\ t \in transitions
    /\ transitions' = transitions \ {t}
    /\ \/ /\ status' = WithStatus(status, t, "error")
          /\ UNCHANGED batches
       \/ /\ IsAcceptingVotes
          /\ \E k \in BatchKeys : PushAggregatorBatch(k, t)
    /\ UNCHANGED <<queueVars, lockVars, tree, actorVars, process, restarts>>

----------------------------------------------------------------------------
(* The process record and the monitors that follow it                      *)

\* The organizer's status change arrives from the chain (statusChangeCallback).
StatusChange ==
    /\ \/ "pause" \in ProcessEvents /\ process.status = "ready"
            /\ process' = [process EXCEPT !.status = "paused"]
       \/ "pause" \in ProcessEvents /\ process.status = "paused"
            /\ process' = [process EXCEPT !.status = "ready"]
       \/ "end" \in ProcessEvents /\ process.status \in {"ready", "paused"}
            /\ process' = [process EXCEPT !.status = "ended"]
    /\ UNCHANGED <<queueVars, lockVars, chainVars, actorVars, status, restarts>>

\* The results event: the record is updated, CleanProcessStaleVotes comes next.
ResultsEvent ==
    /\ "results" \in ProcessEvents
    /\ process.status = "ended"
    /\ process' = [process EXCEPT !.status = "results"]
    /\ monitor' = [monitor EXCEPT !.stale = 1]
    /\ UNCHANGED <<queueVars, lockVars, chainVars, requests, prover, jobs, submits,
                   agg, status, restarts>>

\* CleanProcessStaleVotes: four storage calls, none of which sets a status.
CleanProcessStaleVotes ==
    /\ monitor.stale > 0
    /\ monitor' = [monitor EXCEPT !.stale = (@ + 1) % 5]
    /\ \/ /\ monitor.stale = 1         \* RemovePendingBallotsByProcess
          /\ pendingRes' = pendingRes \ pending
          /\ pending' = {}
          /\ ReleaseLocks(pending)
          /\ UNCHANGED <<verified, verifiedRes, batches, transitions>>
       \/ /\ monitor.stale = 2         \* RemoveVerifiedBallotsByProcess
          /\ verifiedRes' = verifiedRes \ verified
          /\ verified' = {}
          /\ ReleaseLocks(verified)
          /\ UNCHANGED <<pending, pendingRes, batches, transitions>>
       \/ /\ monitor.stale = 3         \* RemoveAggregatorBatchesByProcess
          /\ batches' = [k \in BatchKeys |-> {}]
          /\ UNCHANGED <<queueVars, lockVars, transitions>>
       \/ /\ monitor.stale = 4         \* RemoveStateTransitionBatchesByProcess
          /\ transitions' = {}
          /\ UNCHANGED <<queueVars, lockVars, batches>>
    /\ UNCHANGED <<tree, requests, prover, jobs, submits, agg, status, process,
                   restarts>>

\* The end time of the process passes.
Expire ==
    /\ "expire" \in ProcessEvents
    /\ ~process.expired
    /\ process' = [process EXCEPT !.expired = TRUE]
    /\ UNCHANGED <<queueVars, lockVars, chainVars, actorVars, status, restarts>>

\* checkAndUpdateEndedProcesses: the status first ...
MarkEnded ==
    /\ process.expired /\ process.status \in {"ready", "paused"}
    /\ ~monitor.ended
    /\ process' = [process EXCEPT !.status = "ended"]
    /\ monitor' = [monitor EXCEPT !.ended = TRUE]
    /\ UNCHANGED <<queueVars, lockVars, chainVars, requests, prover, jobs, submits,
                   agg, status, restarts>>

\* ... then cleanupEndedProcess: every queue is emptied, the locks of the
\* queued ballots are released and every vote that is not done times out.
CleanupEndedProcess ==
    /\ monitor.ended
    /\ monitor' = [monitor EXCEPT !.ended = FALSE]
    /\ pending' = {} /\ pendingRes' = pendingRes \ pending
    /\ verified' = {} /\ verifiedRes' = verifiedRes \ verified
    /\ ReleaseLocks(pending \cup verified)
    /\ batches' = [k \in BatchKeys |-> {}]
    /\ transitions' = {}
    /\ status' = WithStatus(status, {v \in Votes : status[v] # "none"}, "timeout")
    /\ UNCHANGED <<tree, requests, prover, jobs, submits, agg, process, restarts>>

\* checkAndRegisterProcesses: a process is sequenced exactly while it is ready.
CheckAndRegister ==
    /\ process.registered # (process.status = "ready")
    /\ process' = [process EXCEPT !.registered = (process.status = "ready")]
    /\ UNCHANGED <<queueVars, lockVars, chainVars, actorVars, status, restarts>>

\* The reservations that a goroutine or a job still works under.
Held == [pending |-> ({prover.vote} \cap Votes) \cup jobs,
         verified |-> agg.todo \cup agg.chosen]

\* releaseStaleReservations: what was reserved for more than 5 minutes, which
\* includes ballots still being worked on only if jobs may take that long.
ReleaseStaleReservations ==
    /\ \E P \in SUBSET pendingRes, V \in SUBSET verifiedRes :
        /\ P # {} \/ V # {}
        /\ SlowJobs \/ (P \cap Held.pending = {} /\ V \cap Held.verified = {})
        /\ pendingRes' = pendingRes \ P
        /\ verifiedRes' = verifiedRes \ V
    /\ UNCHANGED <<pending, verified, lockVars, chainVars, actorVars, status, process,
                   restarts>>

----------------------------------------------------------------------------
(* Crash and restart                                                       *)

\* A storage call makes several database commits, with the status last.  The
\* queues a crash inside the next call of some goroutine can leave behind.
TornQueues ==
    LET disk == [pending |-> pending, verified |-> verified, batches |-> batches]
        storing == {v \in Votes : submits[v] > 0}
                     \cup {v \in Votes : prover = [pc |-> "proved", vote |-> v]}
    IN  {[disk EXCEPT !.pending = @ \cup {v}] :          \* PushPendingBallot
            v \in {w \in requests : w \notin voteIDLocks /\ AddressOf[w] \notin addressLocks}}
        \cup {[disk EXCEPT !.verified = @ \cup {v}] : v \in storing}   \* MarkBallotVerified
        \cup {[disk EXCEPT !.verified = @ \cup {v}, !.pending = @ \ {v}] : v \in storing}
        \cup {[disk EXCEPT !.pending = @ \ {v}] :       \* RemovePendingBallot
            v \in {w \in Votes : prover = [pc |-> "invalid", vote |-> w]}}
        \cup {[disk EXCEPT !.batches[k] = agg.chosen] : \* PushAggregatorBatch
            k \in {j \in BatchKeys : agg.pc = "proved" /\ batches[j] = {}}}
        \cup {[disk EXCEPT !.verified = @ \ S] :        \* MarkVerifiedBallotsDone
            S \in IF agg.pc = "pushed" THEN SUBSET agg.chosen ELSE {}}

\* The process dies and Storage.New runs recover: no reservation survives,
\* and recoverNullifiers takes the locks of the verified and the aggregated
\* ballots.  Registration is checked before the processors start.
Restart ==
    /\ restarts < MaxRestarts
    /\ restarts' = restarts + 1
    /\ \E disk \in {[pending |-> pending, verified |-> verified, batches |-> batches]}
                     \cup (IF TornWrites THEN TornQueues ELSE {}) :
        /\ pending' = disk.pending
        /\ verified' = disk.verified
        /\ batches' = disk.batches
        /\ voteIDLocks' = disk.verified \cup UNION {disk.batches[k] : k \in BatchKeys}
    /\ addressLocks' = {AddressOf[v] : v \in voteIDLocks'}
    /\ pendingRes' = {} /\ verifiedRes' = {}
    /\ requests' = {} /\ prover' = Idle /\ jobs' = {}
    /\ submits' = [v \in Votes |-> 0]
    /\ agg' = AggIdle
    /\ monitor' = [ended |-> FALSE, stale |-> 0]
    /\ process' = [process EXCEPT !.registered = (process.status = "ready")]
    /\ UNCHANGED <<transitions, tree, status>>

----------------------------------------------------------------------------
Init ==
    /\ pending = {} /\ pendingRes = {} /\ verified = {} /\ verifiedRes = {}
    /\ batches = [k \in BatchKeys |-> {}]
    /\ transitions = {} /\ tree = {}
    /\ status = [v \in Votes |-> "none"]
    /\ process = [status |-> "ready", expired |-> FALSE, registered |-> TRUE]
    /\ voteIDLocks = {} /\ addressLocks = {}
    /\ requests = {} /\ prover = Idle /\ jobs = {}
    /\ submits = [v \in Votes |-> 0]
    /\ agg = AggIdle
    /\ monitor = [ended |-> FALSE, stale |-> 0]
    /\ restarts = 0

ProverNext == (\E v \in Votes : ProverTake(v)) \/ ProverStart \/ ProverReturn \/ ProverStore

WorkerNext ==
    \E v \in Votes : WorkerNewJob(v) \/ WorkerSubmit(v) \/ WorkerStore(v) \/ JobTimeout(v)

AggNext ==
    \/ AggPull \/ AggLoadState \/ AggReleaseSurplus \/ AggProve
    \/ (\E v \in Votes : AggReject(v) \/ AggAccept(v))
    \/ AggFail \/ AggRelease \/ AggPush \/ AggDone

SettlementNext ==
    \/ \E k \in BatchKeys : TransitionCommit(k) \/ TransitionFail(k)
    \/ \E t \in transitions : Settle(t) \/ SettleFail(t)

MonitorNext ==
    \/ StatusChange \/ ResultsEvent \/ CleanProcessStaleVotes
    \/ Expire \/ MarkEnded \/ CleanupEndedProcess
    \/ CheckAndRegister \/ ReleaseStaleReservations

Next ==
    \/ \E v \in Votes : NewVote(v) \/ PushPendingBallot(v)
    \/ ProverNext \/ WorkerNext \/ AggNext \/ SettlementNext \/ MonitorNext
    \/ Restart

Spec == Init /\ [][Next]_vars

----------------------------------------------------------------------------
(* Properties                                                              *)

\* Every variable stays in its domain.
TypeOK ==
    /\ pending \subseteq Votes /\ pendingRes \subseteq Votes
    /\ verified \subseteq Votes /\ verifiedRes \subseteq Votes
    /\ batches \in [BatchKeys -> SUBSET Votes]
    /\ transitions \subseteq SUBSET Votes /\ tree \subseteq Votes
    /\ status \in [Votes -> Statuses]
    /\ process \in [status : {"ready", "paused", "ended", "results"},
                     expired : BOOLEAN, registered : BOOLEAN]
    /\ voteIDLocks \subseteq Votes /\ addressLocks \subseteq Addresses
    /\ requests \subseteq Votes /\ jobs \subseteq Votes
    /\ prover \in [pc : {"idle", "taken", "proving", "proved", "invalid"},
                    vote : Votes \cup {NoVote}]
    /\ submits \in [Votes -> 0 .. MaxSubmits]
    /\ agg \in [pc : {"idle", "pulled", "collect", "proved", "failed", "release", "pushed"},
                 todo : SUBSET Votes, chosen : SUBSET Votes]
    /\ monitor \in [ended : BOOLEAN, stale : 0 .. 4]
    /\ restarts \in 0 .. MaxRestarts

\* The votes that some queue of the pipeline holds.
InPipeline == pending \cup verified \cup Aggregated \cup UNION transitions

\* A batch never holds two ballots of one address (PullVerifiedBallots picks
\* unique addresses, whatever the address locks let into the verified queue).
UniqueAddressPerBatch ==
    \A k \in BatchKeys : \A v, w \in batches[k] : AddressOf[v] = AddressOf[w] => v = w

\* A vote whose status says that it is on its way is in some queue: no
\* storage call drops a ballot and leaves its voter waiting.  The cleanup
\* after the results are published is the one exception.
NoLostBallot ==
    process.status # "results" /\ restarts = 0 =>
        \A v \in Votes : status[v] \in {"pending", "verified", "aggregated", "processed"}
                            => v \in InPipeline

\* Every lock belongs to a ballot waiting to be proved or aggregated: whatever
\* removes a ballot from these queues releases its locks.  (A restart also
\* locks the ballots of the batches it finds.)
LocksAreQueued ==
    restarts = 0 =>
        /\ voteIDLocks \subseteq pending \cup verified
        /\ addressLocks \subseteq {AddressOf[v] : v \in pending \cup verified}

\* While the process takes votes, every ballot waiting to be proved or
\* aggregated holds its locks, and no address has two of them waiting.  (A
\* restart does not lock the ballots that are still pending.)
QueuedBallotsLocked ==
    IsAcceptingVotes /\ restarts = 0 =>
        /\ {AddressOf[v] : v \in pending \cup verified} \subseteq addressLocks
        /\ \A v, w \in pending \cup verified : AddressOf[v] = AddressOf[w] => v = w

\* The reservations keep the local prover and the remote workers apart.
ExclusiveJob == prover.vote \notin jobs

\* A settled vote keeps its status, whatever late call is made for it.
DoneIsFinal == [][\A v \in Votes : status[v] = "done" => status'[v] = "done"]_vars

----------------------------------------------------------------------------
(* Liveness                                                                *)

\* The goroutines and the timers of the node keep running; clients, remote
\* workers, the organizer and crashes are not obliged to do anything.
Fairness ==
    /\ \A v \in Votes : WF_vars(PushPendingBallot(v)) /\ WF_vars(WorkerStore(v))
                           /\ WF_vars(JobTimeout(v))
    /\ WF_vars(ProverNext) /\ WF_vars(AggNext) /\ WF_vars(SettlementNext)
    /\ WF_vars(Expire) /\ WF_vars(MarkEnded) /\ WF_vars(CleanupEndedProcess)
    /\ WF_vars(CleanProcessStaleVotes) /\ WF_vars(CheckAndRegister)
    /\ WF_vars(ReleaseStaleReservations)

FairSpec == Spec /\ Fairness

\* Every ballot waiting to be proved or aggregated once the node stays up leaves
\* the queues of the first stages and gets an outcome, even if a crash left it
\* half moved between two queues.
BallotsResolve ==
    \A v \in Votes : v \in pending \cup verified /\ restarts = MaxRestarts
        ~> v \notin pending \cup verified /\ status[v] \in {"done", "error"}

\* Once the process has ended, no vote is left without an outcome.
EndedVotesResolve ==
    process.status = "ended" ~>
        \A v \in Votes : status[v] \in {"none", "done", "error", "timeout"}
=============================================================================
