----------------------------- MODULE QueueStats -----------------------------
(***************************************************************************)
(* The counters that the storage keeps beside the vote queues              *)
(* (storage/process_stats.go) and the forced cleanup of those queues at    *)
(* start up (storage/cleanup.go).  A storage call holds globalLock, so     *)
(* that calls do not interleave, but it commits one artifact after another *)
(* and a crash may cut it anywhere.                                        *)
(***************************************************************************)
EXTENDS Integers, Sequences, FiniteSets, FiniteSetsExt, SequencesExt

CONSTANTS
    StatBallots, StatProcesses,
    StatProcess,            \* the process of a ballot
    MaxHolders,             \* workers that hold one ballot (a stale reservation was released)
    MaxTries,               \* MaxStateTransitionAttempts
    MaxPushes,              \* submissions of one vote ID
    MaxBatchPushes,         \* bound on the votes that were put into batches
    MaxStatCrashes,
    CrashPushes             \* bound on the submissions of a history with a crash

ASSUME StatsAssumption ==
    /\ StatProcess \in [StatBallots -> StatProcesses]
    /\ {MaxHolders, MaxTries, MaxPushes, MaxBatchPushes, MaxStatCrashes, CrashPushes} \subseteq Nat

VARIABLES
    disk,           \* what is committed: the queues, the marked batches, the statuses,
                    \* the counters of the processes and their totals
    holders,        \* workers that took a pending ballot
    job,            \* the ballots the aggregator moves, the batch being proved
    sweep,          \* the queues of a process that CleanProcessStaleVotes has not emptied
    pushes, statCrashes

statVars == <<disk, holders, job, sweep, pushes, statCrashes>>

QueueNames == <<"pending", "verified", "aggregated", "transition">>
Counters == {"pending", "verified", "aggregated", "transitions", "settled"}
NoItem == [votes |-> {}, tries |-> 0]
NoJob == [ballots |-> {}, batch |-> NoItem, pc |-> "idle"]

\* The items of a queue are sets of votes; a ballot is a set of one.
Single(b) == [votes |-> {b}, tries |-> 0]
ProcessOf(i) == StatProcess[CHOOSE b \in i.votes : TRUE]
VotesIn(items) == UNION {i.votes : i \in items}
Of(d, p, q) == {i \in d[q] : ProcessOf(i) = p}
Queued(q) == VotesIn(disk[q])

----------------------------------------------------------------------------
(* The commits of a storage call                                           *)

Put(q, i) == <<[op |-> "put", queue |-> q, item |-> i]>>
Delete(q, S) == [n \in 1 .. Cardinality(S) |-> [op |-> "delete", queue |-> q, item |-> SetToSeq(S)[n]]]
SetStatus(S, st) == [n \in 1 .. Cardinality(S) |-> [op |-> "status", vote |-> SetToSeq(S)[n], to |-> st]]
SetMark(p, i) == <<[op |-> "mark", process |-> p, item |-> i]>>

\* updateProcessStats: the process is saved, then the totals.
UpdateProcessStats(p, c, n) ==
    IF n = 0 THEN <<>>
    ELSE << [op |-> "process", process |-> p, counter |-> c, by |-> n],
            [op |-> "total", counter |-> c] >>

\* What a counter changes by: the pending votes of a process stop at zero.
PendingDelta(old, n) == IF old + n < 0 THEN -old ELSE n

\* The disk after commit c.  `delta' stands for the local variables that
\* updateProcessStats carries from the first artifact to the totals.
Commit(d, c) ==
    CASE c.op = "put" -> [d EXCEPT ![c.queue] = @ \cup {c.item}]
      [] c.op = "delete" -> [d EXCEPT ![c.queue] = @ \ {c.item}]
      [] c.op = "status" -> IF d.status[c.vote] = "done" THEN d
                            ELSE [d EXCEPT !.status[c.vote] = c.to]
      [] c.op = "mark" -> [d EXCEPT !.mark[c.process] = c.item]
      [] c.op = "process" ->
            LET old == d.stats[c.process][c.counter]
                sum == old + c.by
            IN  [d EXCEPT !.stats[c.process][c.counter] =
                                IF c.counter = "pending" /\ sum < 0 THEN 0 ELSE sum,
                          !.delta = IF c.counter = "pending" THEN PendingDelta(old, c.by) ELSE c.by]
      [] c.op = "total" -> [d EXCEPT !.totals[c.counter] = @ + d.delta, !.delta = 0]

Committed(d, commits) == FoldLeft(Commit, d, commits)

----------------------------------------------------------------------------
(* CleanAllPending                                                         *)

\* Mutant of CleanCount: every cleaned vote is taken off the counter.
CleanCountAny(d, items, st) == Cardinality(items)

\* The cleaned items that the counter still counts: in the status the queue
\* stands for, or with no status; a transition goes by its first ballot.
CleanCount(d, items, st) ==
    LET Counted(b) == d.status[b] \in {st, "none"}
    IN  IF st = "processed"
        THEN Cardinality({i \in items : Counted(CHOOSE b \in i.votes : TRUE)})
        ELSE Cardinality({b \in VotesIn(items) : Counted(b)})

\* cleanAllVerifiedBallots, cleanAllAggregatedBatches, cleanAllStateTransitions:
\* the votes fail, then the items and the counts of each process are removed.
Clean(d, q, st, counter, kept) ==
    LET Process(p) == Delete(q, Of(d, p, q))
                        \o UpdateProcessStats(p, counter, -CleanCount(d, Of(d, p, q), st))
    IN  Committed(d, SetStatus({b \in VotesIn(d[q]) : d.status[b] \notin kept}, "error")
                        \o FlattenSeq([n \in 1 .. Cardinality(StatProcesses) |->
                                            Process(SetToSeq(StatProcesses)[n])]))

CleanAllPending(d) ==
    LET d1 == Clean(d, "verified", "verified", "verified", {"done"})
        d2 == Clean(d1, "aggregated", "aggregated", "aggregated", {"done"})
    IN  Clean(d2, "transition", "processed", "transitions", {"processed", "done"})

Submissions == MapThenSumSet(LAMBDA b : pushes[b], StatBallots)

\* A storage call: it makes its commits; or the node crashes after some of
\* them and restarts, with a forced cleanup if the operator asks for one.
Call(commits, holding, doing) ==
    \/ /\ disk' = Committed(disk, commits)
       /\ holders' = holding /\ job' = doing
       /\ UNCHANGED statCrashes
    \/ /\ statCrashes < MaxStatCrashes
       /\ Submissions <= CrashPushes
       /\ statCrashes' = statCrashes + 1
       /\ \E n \in 0 .. Len(commits) :
            LET left == [Committed(disk, SubSeq(commits, 1, n)) EXCEPT !.delta = 0]
            IN  disk' = left \/ disk' = CleanAllPending(left)
       /\ holders' = [b \in StatBallots |-> 0] /\ job' = NoJob

----------------------------------------------------------------------------
(* Ballots                                                                 *)

\* PushPendingBallot: the vote ID lock is free and the key unused.
PushPendingBallot(b) ==
    /\ b \notin Queued("pending") \cup Queued("verified") /\ pushes[b] < MaxPushes
    /\ statCrashes > 0 => Submissions < CrashPushes
    /\ Call(Put("pending", Single(b)) \o UpdateProcessStats(StatProcess[b], "pending", 1)
                \o SetStatus({b}, "pending"), holders, job)
    /\ pushes' = [pushes EXCEPT ![b] = @ + 1]
    /\ UNCHANGED sweep

\* NextPendingBallot: a second worker gets a ballot whose reservation went stale.
NextPendingBallot(b) ==
    /\ b \in Queued("pending") /\ holders[b] < MaxHolders
    /\ holders' = [holders EXCEPT ![b] = @ + 1]
    /\ UNCHANGED <<disk, job, sweep, pushes, statCrashes>>

Released(b) == [holders EXCEPT ![b] = @ - 1]

\* removePendingBallot decrements whether or not the ballot was still there.
RemovePending(b) ==
    Delete("pending", {Single(b)}) \o UpdateProcessStats(StatProcess[b], "pending", -1)

\* RemovePendingBallot: a worker found the ballot invalid.
RemovePendingBallot(b) ==
    /\ holders[b] > 0
    /\ Call(RemovePending(b) \o SetStatus({b}, "error"), Released(b), job)
    /\ UNCHANGED <<sweep, pushes>>

\* MarkBallotVerified: the pending counter falls only if the ballot is there.
MarkBallotVerified(b) ==
    /\ holders[b] > 0
    /\ LET p == StatProcess[b]
           found == b \in Queued("pending")
       IN  Call(Put("verified", Single(b))
                \o (IF found THEN Delete("pending", {Single(b)}) ELSE <<>>)
                \o UpdateProcessStats(p, "verified", 1)
                \o UpdateProcessStats(p, "pending", IF found THEN -1 ELSE 0)
                \o SetStatus({b}, "verified"), Released(b), job)
    /\ UNCHANGED <<sweep, pushes>>

\* MarkVerifiedBallotsFailed for one key.
MarkVerifiedBallotsFailed(b) ==
    /\ b \in Queued("verified") \ job.ballots
    /\ Call(SetStatus({b}, "error") \o Delete("verified", {Single(b)})
                \o UpdateProcessStats(StatProcess[b], "verified",
                                      IF disk.status[b] = "verified" THEN -1 ELSE 0), holders, job)
    /\ UNCHANGED <<sweep, pushes>>

----------------------------------------------------------------------------
(* Batches                                                                 *)

\* pushAggregatorBatch
PushBatch(i) ==
    Put("aggregated", i) \o UpdateProcessStats(ProcessOf(i), "aggregated", Cardinality(i.votes))
        \o SetStatus(i.votes, "aggregated")

\* PushAggregatorBatch with ballots pulled from the verified queue ...
PushAggregatorBatch(p, S) ==
    /\ job.ballots = {}
    /\ S # {} /\ \A b \in S : Single(b) \in Of(disk, p, "verified")
    /\ disk.stats[p]["aggregated"] < MaxBatchPushes
    /\ Call(PushBatch([votes |-> S, tries |-> 0]), holders, [job EXCEPT !.ballots = S])
    /\ UNCHANGED <<sweep, pushes>>

\* ... then MarkVerifiedBallotsDone.
MarkVerifiedBallotsDone ==
    /\ job.ballots # {}
    /\ Call(Delete("verified", {Single(b) : b \in job.ballots}), holders, [job EXCEPT !.ballots = {}])
    /\ UNCHANGED <<sweep, pushes>>

\* NextAggregatorBatch
NextAggregatorBatch(i) ==
    /\ job.pc = "idle" /\ i \in disk.aggregated
    /\ job' = [job EXCEPT !.pc = "taken", !.batch = i]
    /\ UNCHANGED <<disk, holders, sweep, pushes, statCrashes>>

BatchLeft == [job EXCEPT !.pc = "idle", !.batch = NoItem]

\* MarkAggregatorBatchFailed; for a batch that is gone the call fails.
MarkAggregatorBatchFailed ==
    /\ job.pc = "taken"
    /\ LET i == job.batch
           n == Cardinality({b \in i.votes : disk.status[b] \in {"aggregated", "none"}})
       IN  Call(IF i \notin disk.aggregated THEN <<>>
                ELSE SetStatus(i.votes, "error") \o UpdateProcessStats(ProcessOf(i), "aggregated", -n)
                        \o Delete("aggregated", {i}), holders, BatchLeft)
    /\ UNCHANGED <<sweep, pushes>>

\* MarkAggregatorBatchPending; with a mark already there the batch is left.
MarkAggregatorBatchPending ==
    /\ job.pc = "taken"
    /\ LET p == ProcessOf(job.batch)
       IN  IF disk.mark[p] = NoItem
           THEN Call(SetMark(p, job.batch), holders, [job EXCEPT !.pc = "marked"])
           ELSE Call(<<>>, holders, BatchLeft)
    /\ UNCHANGED <<sweep, pushes>>

\* PushStateTransitionBatch ...
PushStateTransitionBatch ==
    /\ job.pc = "marked"
    /\ Call(Put("transition", job.batch) \o UpdateProcessStats(ProcessOf(job.batch), "transitions", 1)
                \o SetStatus(job.batch.votes, "processed"), holders, [job EXCEPT !.pc = "pushed"])
    /\ UNCHANGED <<sweep, pushes>>

\* ... then MarkAggregatorBatchDone.
MarkAggregatorBatchDone ==
    /\ job.pc = "pushed"
    /\ Call(Delete("aggregated", {job.batch}), holders, BatchLeft)
    /\ UNCHANGED <<sweep, pushes>>

\* MarkStateTransitionBatchDone
MarkStateTransitionBatchDone(i) ==
    /\ i \in disk.transition
    /\ Call(SetStatus(i.votes, "done") \o Delete("transition", {i}) \o SetMark(ProcessOf(i), NoItem)
                \o UpdateProcessStats(ProcessOf(i), "settled", 1), holders, job)
    /\ UNCHANGED <<sweep, pushes>>

\* MarkStateTransitionBatchOutdated: the marked batch is queued again.
MarkStateTransitionBatchOutdated(i) ==
    /\ i \in disk.transition /\ disk.stats[ProcessOf(i)]["aggregated"] < MaxBatchPushes
    /\ LET p == ProcessOf(i)
       IN  Call(Delete("transition", {i})
                \o (IF disk.mark[p] = NoItem THEN <<>>
                    ELSE SetMark(p, NoItem) \o PushBatch(disk.mark[p])), holders, job)
    /\ UNCHANGED <<sweep, pushes>>

\* MarkStateTransitionBatchFailed: the votes of `valid' are not in the state yet
\* (none if the process takes no more votes).
MarkStateTransitionBatchFailed(i, valid) ==
    /\ i \in disk.transition
    /\ LET p == ProcessOf(i)
           tries == disk.mark[p].tries + 1
           again == disk.mark[p] # NoItem /\ tries < MaxTries /\ valid # {}
       IN  Call((IF disk.mark[p] = NoItem THEN <<>> ELSE SetMark(p, NoItem))
                \o SetStatus(IF again THEN i.votes \ valid ELSE i.votes, "error")
                \o (IF again THEN PushBatch([votes |-> valid, tries |-> tries]) ELSE <<>>)
                \o Delete("transition", {i}), holders, job)
    /\ UNCHANGED <<sweep, pushes>>

----------------------------------------------------------------------------
(* Cleanup of one process                                                  *)

\* The pending ballots are counted one by one, the other queues are not counted.
RemovePendingBallotsByProcess(p) ==
    FlattenSeq([n \in 1 .. Cardinality(Of(disk, p, "pending")) |->
                    RemovePending(CHOOSE b \in SetToSeq(Of(disk, p, "pending"))[n].votes : TRUE)])
RemoveVerifiedBallotsByProcess(p) == Delete("verified", Of(disk, p, "verified"))
RemoveAggregatorBatchesByProcess(p) == Delete("aggregated", Of(disk, p, "aggregated"))
RemoveStateTransitionBatchesByProcess(p) == Delete("transition", Of(disk, p, "transition"))

RemoveByProcess(p, q) ==
    CASE q = "pending" -> RemovePendingBallotsByProcess(p)
      [] q = "verified" -> RemoveVerifiedBallotsByProcess(p)
      [] q = "aggregated" -> RemoveAggregatorBatchesByProcess(p)
      [] q = "transition" -> RemoveStateTransitionBatchesByProcess(p)

\* CleanProcessStaleVotes, when the process has ended: four calls in turn.
CleanProcessStaleVotes(p) ==
    /\ sweep[p] # <<>>
    /\ Call(RemoveByProcess(p, Head(sweep[p])), holders, job)
    /\ sweep' = [sweep EXCEPT ![p] = Tail(@)]
    /\ UNCHANGED pushes

\* cleanupEndedProcess, for a process that ends by its time and not by an event:
\* the queues are emptied, the counters stay, the votes that are not done time out.
CleanupEndedProcess(p) ==
    /\ sweep[p] = QueueNames
    /\ sweep' = [sweep EXCEPT ![p] = <<>>]
    /\ Call(FlattenSeq([n \in 1 .. 4 |-> Delete(QueueNames[n], Of(disk, p, QueueNames[n]))])
                \o SetStatus({b \in StatBallots : StatProcess[b] = p /\ disk.status[b] # "none"},
                             "timeout"), holders, job)
    /\ UNCHANGED pushes

StatInit ==
    /\ disk = [pending |-> {}, verified |-> {}, aggregated |-> {}, transition |-> {},
               mark |-> [p \in StatProcesses |-> NoItem],
               status |-> [b \in StatBallots |-> "none"],
               stats |-> [p \in StatProcesses |-> [c \in Counters |-> 0]],
               totals |-> [c \in Counters |-> 0], delta |-> 0]
    /\ holders = [b \in StatBallots |-> 0]
    /\ job = NoJob
    /\ sweep = [p \in StatProcesses |-> QueueNames]
    /\ pushes = [b \in StatBallots |-> 0]
    /\ statCrashes = 0

StatNext ==
    \/ \E b \in StatBallots :
            \/ PushPendingBallot(b) \/ NextPendingBallot(b) \/ RemovePendingBallot(b)
            \/ MarkBallotVerified(b) \/ MarkVerifiedBallotsFailed(b)
    \/ \E p \in StatProcesses :
            \/ \E S \in SUBSET StatBallots : PushAggregatorBatch(p, S)
            \/ CleanProcessStaleVotes(p) \/ CleanupEndedProcess(p)
    \/ MarkVerifiedBallotsDone
    \/ \E i \in disk.aggregated : NextAggregatorBatch(i)
    \/ MarkAggregatorBatchFailed \/ MarkAggregatorBatchPending
    \/ PushStateTransitionBatch \/ MarkAggregatorBatchDone
    \/ \E i \in disk.transition :
            \/ MarkStateTransitionBatchDone(i) \/ MarkStateTransitionBatchOutdated(i)
            \/ \E valid \in SUBSET i.votes : MarkStateTransitionBatchFailed(i, valid)

----------------------------------------------------------------------------
(* Properties                                                              *)

\* Until a second crash, the counters of a process never fall below what is
\* queued in the status that they count, so that no cleanup makes one of them
\* negative, although the first crash may have stored a ballot that was not
\* counted.  A second crash can bring a ballot without a status to a cleanup that
\* takes it off a counter that never counted it.
CountersCoverQueues ==
    statCrashes <= 1 =>
    \A p \in StatProcesses :
        LET InStatus(q, st) == Cardinality({b \in Queued(q) : StatProcess[b] = p /\ disk.status[b] = st})
        IN  /\ disk.stats[p]["verified"] >= InStatus("verified", "verified")
            /\ disk.stats[p]["aggregated"] >= InStatus("aggregated", "aggregated")
            /\ disk.stats[p]["transitions"] >= 0 /\ disk.stats[p]["pending"] >= 0

=============================================================================
