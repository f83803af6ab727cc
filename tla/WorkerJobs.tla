----------------------------- MODULE WorkerJobs -----------------------------
(***************************************************************************)
(* Remote workers of a sequencer: the HTTP handlers of api/workers.go, the *)
(* JobsManager and WorkerManager of package workers with their tickers,    *)
(* the monitor that gives failed jobs back to the queue, and the client    *)
(* loop of sequencer/worker.go.  A handler makes several calls, each       *)
(* atomic under JobsManager.pendingMtx or Storage.globalLock; checkTimeouts*)
(* keeps pendingMtx while it hands a job over the unbuffered channel       *)
(* FailedJobs.                                                             *)
(***************************************************************************)
EXTENDS Integers, FiniteSets

CONSTANTS
    Workers,                \* worker addresses
    Ballots,                \* vote IDs of the pending ballots
    FailuresToGetBanned,    \* WorkerBanRules
    MaxRequests,            \* job requests of one worker at the same time
    MaxJobs,                \* MaxJobs[w], bound: jobs that w is ever given
    Shutdown                \* BOOLEAN: the node's context may be cancelled

NoWorker == "no worker"
NoBallot == "no ballot"

\* Storage holds finitely many ballots.
ASSUME WorkerAssumption ==
    /\ NoWorker \notin Workers /\ NoBallot \notin Ballots /\ IsFiniteSet(Ballots)
    /\ FailuresToGetBanned \in Nat /\ MaxRequests \in Nat \ {0} /\ MaxJobs \in [Workers -> Nat]
    /\ Shutdown \in BOOLEAN

VARIABLES
    queue,          \* pending ballots in storage
    reserved,       \* their reservations
    done,           \* verified ballots
    pendingJobs,    \* JobsManager.pending: ballot -> worker or NoWorker
    expired,        \* ballots whose job is past its expiration
    roster,         \* WorkerManager.workers: [known, fails, ban]
    stats,          \* storage ws/ : [success, failed, given]; given is auxiliary
    asked,          \* newJob requests that found their worker available
    holding,        \* ballots reserved by newJob requests, before RegisterJob
    hands,          \* ballots that a worker is proving
    submitted,      \* submissions under way: <<worker, ballot, stage>>
    ticker,         \* the goroutine of JobsManager: [pc, job]
    failedJobs,     \* the goroutine that drains FailedJobs: [pc, job]
    ctxDone

workVars == <<queue, reserved, done>>
jobVars == <<pendingJobs, expired>>
clientVars == <<asked, holding, hands, submitted>>
jmVars == <<workVars, jobVars, roster, stats, clientVars, ticker, failedJobs, ctxDone>>

NewWorker == [known |-> FALSE, fails |-> 0, ban |-> "none"]

----------------------------------------------------------------------------
(* WorkerManager                                                           *)

\* IsBanned: too many consecutive failures, or a ban that still runs.
IsBanned(w) == roster[w].fails > FailuresToGetBanned \/ roster[w].ban = "active"

\* WorkerResult: an unknown worker is added; the counters are persisted.
WorkerResult(w, success) ==
    /\ roster' = [roster EXCEPT ![w].known = TRUE,
                                ![w].fails = IF success THEN 0 ELSE @ + 1]
    /\ stats' = IF success THEN [stats EXCEPT ![w].success = @ + 1]
                ELSE [stats EXCEPT ![w].failed = @ + 1]

\* The ticker of WorkerManager on a banned worker: SetBanDuration, or
\* ResetWorker once the ban has passed.
BanTick(w) ==
    /\ ~ctxDone
    /\ IsBanned(w)
    /\ \/ /\ roster[w].ban = "none"
          /\ roster' = [roster EXCEPT ![w].ban = "active"]
       \/ /\ roster[w].ban = "past"
          /\ roster' = [roster EXCEPT ![w] = [NewWorker EXCEPT !.known = TRUE]]
    /\ UNCHANGED <<workVars, jobVars, stats, clientVars, ticker, failedJobs, ctxDone>>

\* BanTimeout passes.
BanPasses(w) ==
    /\ roster[w].ban = "active"
    /\ roster' = [roster EXCEPT ![w].ban = "past"]
    /\ UNCHANGED <<workVars, jobVars, stats, clientVars, ticker, failedJobs, ctxDone>>

----------------------------------------------------------------------------
(* GET /workers/{uuid}/job                                                 *)

\* Job requests of a worker under way.
RequestsOf(w) == asked[w] + Cardinality(holding[w])

\* checkTimeouts holds pendingMtx while it sends.
MtxFree == ticker.pc # "send"

\* A worker asks for a job: authWorkerFromRequest registers it, then
\* IsWorkerAvailable refuses a banned or a busy one.
NewJob(w) ==
    /\ MtxFree /\ RequestsOf(w) < MaxRequests /\ stats[w].given + RequestsOf(w) < MaxJobs[w]
    /\ ~IsBanned(w)
    /\ \A b \in Ballots : pendingJobs[b] # w
    /\ roster' = [roster EXCEPT ![w].known = TRUE]
    /\ asked' = [asked EXCEPT ![w] = @ + 1]
    /\ UNCHANGED <<workVars, jobVars, stats, holding, hands, submitted, ticker, failedJobs,
                   ctxDone>>

\* NextPendingBallot reserves a ballot for the request, or there is none.
NextPendingBallot(w) ==
    /\ asked[w] > 0
    /\ asked' = [asked EXCEPT ![w] = @ - 1]
    /\ \/ \E b \in queue \ reserved :
            /\ reserved' = reserved \cup {b}
            /\ holding' = [holding EXCEPT ![w] = @ \cup {b}]
       \/ queue \subseteq reserved /\ UNCHANGED <<reserved, holding>>
    /\ UNCHANGED <<queue, done, jobVars, roster, stats, hands, submitted, ticker, failedJobs,
                   ctxDone>>

\* RegisterJob: a worker that is unknown or was banned meanwhile gets nothing,
\* and the reservation stays.
RegisterJob(w, b) ==
    /\ b \in holding[w] /\ MtxFree
    /\ holding' = [holding EXCEPT ![w] = @ \ {b}]
    /\ \/ /\ roster[w].known /\ ~IsBanned(w)
          /\ pendingJobs' = [pendingJobs EXCEPT ![b] = w]
          /\ expired' = expired \ {b}
          /\ stats' = [stats EXCEPT ![w].given = @ + 1]
          /\ hands' = [hands EXCEPT ![w] = @ \cup {b}]
       \/ /\ ~roster[w].known \/ IsBanned(w)
          /\ UNCHANGED <<jobVars, stats, hands>>
    /\ UNCHANGED <<workVars, roster, asked, submitted, ticker, failedJobs, ctxDone>>

\* releaseStaleReservations frees what no job or request stands behind.
ReleaseStale(b) ==
    /\ b \in reserved /\ pendingJobs[b] = NoWorker /\ failedJobs.job # b
    /\ \A w \in Workers : b \notin holding[w]
    /\ reserved' = reserved \ {b}
    /\ UNCHANGED <<queue, done, jobVars, roster, stats, clientVars, ticker, failedJobs, ctxDone>>

----------------------------------------------------------------------------
(* The worker and POST /workers/{uuid}/job                                 *)

\* processWorkerJob fails (process not fetched, ballot not proved, master not
\* reachable): nothing is submitted.
GiveUp(w, b) ==
    /\ b \in hands[w]
    /\ hands' = [hands EXCEPT ![w] = @ \ {b}]
    /\ UNCHANGED <<workVars, jobVars, roster, stats, asked, holding, submitted, ticker,
                   failedJobs, ctxDone>>

\* submitJobToMaster; the handler checks that the job is this worker's, that
\* the ballot is still there and that the proof is valid.
SubmitJob(w, b) ==
    /\ b \in hands[w] /\ MtxFree
    /\ hands' = [hands EXCEPT ![w] = @ \ {b}]
    /\ submitted' = IF pendingJobs[b] = w /\ b \in queue
                    THEN submitted \cup {<<w, b, "checked">>} ELSE submitted
    /\ UNCHANGED <<workVars, jobVars, roster, stats, asked, holding, ticker, failedJobs, ctxDone>>

\* MarkBallotVerified.
StoreBallot(w, b) ==
    /\ <<w, b, "checked">> \in submitted
    /\ submitted' = (submitted \ {<<w, b, "checked">>}) \cup {<<w, b, "stored">>}
    /\ queue' = queue \ {b} /\ reserved' = reserved \ {b} /\ done' = done \cup {b}
    /\ UNCHANGED <<jobVars, roster, stats, asked, holding, hands, ticker, failedJobs, ctxDone>>

\* Mutant of CompleteJob: the job stays in the table.
CompleteJobStays(w, b) ==
    /\ <<w, b, "stored">> \in submitted /\ MtxFree
    /\ submitted' = submitted \ {<<w, b, "stored">>}
    /\ IF pendingJobs[b] # NoWorker THEN WorkerResult(pendingJobs[b], TRUE)
       ELSE UNCHANGED <<roster, stats>>
    /\ UNCHANGED <<workVars, jobVars, asked, holding, hands, ticker, failedJobs, ctxDone>>

\* CompleteJob(voteID, true): the job is found by its vote ID, whoever it is
\* assigned to; a job that timed out meanwhile is not found.
CompleteJob(w, b) ==
    /\ <<w, b, "stored">> \in submitted /\ MtxFree
    /\ submitted' = submitted \ {<<w, b, "stored">>}
    /\ IF pendingJobs[b] # NoWorker
       THEN /\ WorkerResult(pendingJobs[b], TRUE)
            /\ pendingJobs' = [pendingJobs EXCEPT ![b] = NoWorker]
            /\ expired' = expired \ {b}
       ELSE UNCHANGED <<jobVars, roster, stats>>
    /\ UNCHANGED <<workVars, asked, holding, hands, ticker, failedJobs, ctxDone>>

----------------------------------------------------------------------------
(* Timeouts                                                                *)

\* A job passes its expiration.
JobExpires(b) ==
    /\ pendingJobs[b] # NoWorker /\ b \notin expired
    /\ expired' = expired \cup {b}
    /\ UNCHANGED <<workVars, pendingJobs, roster, stats, clientVars, ticker, failedJobs, ctxDone>>

\* checkTimeouts finds an expired job: the failure is counted, then the job is
\* offered on FailedJobs with pendingMtx held.
CheckTimeouts(b) ==
    /\ ticker.pc = "idle" /\ b \in expired
    /\ WorkerResult(pendingJobs[b], FALSE)
    /\ ticker' = [pc |-> "send", job |-> b]
    /\ UNCHANGED <<workVars, jobVars, clientVars, failedJobs, ctxDone>>

\* The monitor receives the job and checkTimeouts removes it from the table.
ReceiveFailedJob ==
    /\ ticker.pc = "send" /\ failedJobs.pc = "idle"
    /\ failedJobs' = [pc |-> "release", job |-> ticker.job]
    /\ pendingJobs' = [pendingJobs EXCEPT ![ticker.job] = NoWorker]
    /\ expired' = expired \ {ticker.job}
    /\ ticker' = [pc |-> "idle", job |-> NoBallot]
    /\ UNCHANGED <<workVars, roster, stats, clientVars, ctxDone>>

\* Mutant of ReleaseReservation: the monitor ends after its first job.
ReleaseReservationOnce ==
    /\ failedJobs.pc = "release"
    /\ reserved' = reserved \ {failedJobs.job}
    /\ failedJobs' = [pc |-> "stopped", job |-> NoBallot]
    /\ UNCHANGED <<queue, done, jobVars, roster, stats, clientVars, ticker, ctxDone>>

\* ... and gives its ballot back with ReleasePendingBallotReservation.
ReleaseReservation ==
    /\ failedJobs.pc = "release"
    /\ reserved' = reserved \ {failedJobs.job}
    /\ failedJobs' = [pc |-> "idle", job |-> NoBallot]
    /\ UNCHANGED <<queue, done, jobVars, roster, stats, clientVars, ticker, ctxDone>>

----------------------------------------------------------------------------
(* Shutdown                                                                *)

\* The parent context is cancelled.
Cancel ==
    /\ Shutdown /\ ~ctxDone
    /\ ctxDone' = TRUE
    /\ UNCHANGED <<workVars, jobVars, roster, stats, clientVars, ticker, failedJobs>>

\* The monitor sees it and returns.
MonitorStops ==
    /\ ctxDone /\ failedJobs.pc = "idle"
    /\ failedJobs' = [pc |-> "stopped", job |-> NoBallot]
    /\ UNCHANGED <<workVars, jobVars, roster, stats, clientVars, ticker, ctxDone>>

\* The goroutine of JobsManager sees it: Stop drops the jobs and the workers
\* and closes FailedJobs.
Stop ==
    /\ ctxDone /\ ticker.pc = "idle"
    /\ pendingJobs' = [b \in Ballots |-> NoWorker] /\ expired' = {}
    /\ roster' = [w \in Workers |-> NewWorker]
    /\ ticker' = [pc |-> "stopped", job |-> NoBallot]
    /\ UNCHANGED <<workVars, stats, clientVars, failedJobs, ctxDone>>

\* A monitor that picks the closed channel before the cancelled context gets a
\* nil job and dereferences it.
ReceiveNil ==
    /\ ticker.pc = "stopped" /\ failedJobs.pc = "idle"
    /\ failedJobs' = [pc |-> "panic", job |-> NoBallot]
    /\ UNCHANGED <<workVars, jobVars, roster, stats, clientVars, ticker, ctxDone>>

----------------------------------------------------------------------------
JobsInit ==
    /\ queue = Ballots /\ reserved = {} /\ done = {}
    /\ pendingJobs = [b \in Ballots |-> NoWorker] /\ expired = {}
    /\ roster = [w \in Workers |-> NewWorker]
    /\ stats = [w \in Workers |-> [success |-> 0, failed |-> 0, given |-> 0]]
    /\ asked = [w \in Workers |-> 0]
    /\ holding = [w \in Workers |-> {}] /\ hands = [w \in Workers |-> {}]
    /\ submitted = {}
    /\ ticker = [pc |-> "idle", job |-> NoBallot]
    /\ failedJobs = [pc |-> "idle", job |-> NoBallot]
    /\ ctxDone = FALSE

HandlerNext(w) ==
    \/ NextPendingBallot(w)
    \/ \E b \in Ballots : RegisterJob(w, b) \/ StoreBallot(w, b) \/ CompleteJob(w, b)

TimeoutNext ==
    \/ (\E b \in Ballots : JobExpires(b)) \/ (\E b \in Ballots : CheckTimeouts(b))
    \/ ReceiveFailedJob \/ ReleaseReservation

JobsNext ==
    \/ \E w \in Workers :
        \/ NewJob(w) \/ HandlerNext(w) \/ BanTick(w) \/ BanPasses(w)
        \/ \E b \in Ballots : GiveUp(w, b) \/ SubmitJob(w, b)
    \/ TimeoutNext \/ (\E b \in Ballots : ReleaseStale(b))
    \/ Cancel \/ MonitorStops \/ Stop \/ ReceiveNil

\* Handlers, tickers and the monitor run; workers need not do anything, and
\* nothing depends on a ban that ends.
JobsFairness ==
    /\ \A w \in Workers : WF_jmVars(HandlerNext(w))
    /\ \A b \in Ballots : WF_jmVars(JobExpires(b)) /\ WF_jmVars(ReleaseStale(b))
    /\ WF_jmVars(\E b \in Ballots : CheckTimeouts(b))
    /\ WF_jmVars(ReceiveFailedJob) /\ WF_jmVars(ReleaseReservation)

JobsSpec == JobsInit /\ [][JobsNext]_jmVars /\ JobsFairness

----------------------------------------------------------------------------
(* Properties                                                              *)

\* Every job that was given out has exactly one outcome, counted for the
\* worker it was given to: CompleteJob and checkTimeouts never both settle it.
JobsAccounted ==
    ~ctxDone => \A w \in Workers :
        stats[w].given = stats[w].success + stats[w].failed
            + Cardinality({b \in Ballots : pendingJobs[b] = w /\ ticker.job # b})

\* A job under way keeps its ballot reserved, so that nobody else proves it.
JobIsReserved ==
    \A b \in Ballots : pendingJobs[b] # NoWorker /\ b \in queue => b \in reserved

\* Whatever its worker does, a job ends: the ballot is proved or can be taken
\* by somebody else.
JobsResolve ==
    \A b \in Ballots : b \in reserved ~> b \notin reserved \/ ctxDone

=============================================================================
