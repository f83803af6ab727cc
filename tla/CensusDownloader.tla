-------------------------- MODULE CensusDownloader --------------------------
(***************************************************************************)
(* service/census_service.go with the importers of census/: requests for a *)
(* census put a job in a bounded queue and poll for the outcome; a pool of *)
(* workers takes the jobs, tracks each census in a status map and retries  *)
(* its import; tickers expire statuses and look for new roots of dynamic   *)
(* on-chain censuses.  There are two censuses: a static one, imported from *)
(* a dump and stored under its root, and a dynamic one, the events of a    *)
(* contract, stored under the address.  The contract's root is the number  *)
(* of its events; so is the root of a tree that applied them in order.     *)
(***************************************************************************)
EXTENDS Integers, FiniteSets, Sequences

CONSTANTS
    Requests,           \* callers of DownloadCensus and OnCensusDownloaded
    Wants,              \* Requests -> Censuses
    Downloaders,        \* the pool: ConcurrentDownloads workers
    Attempts,           \* config.Attempts
    QueueCap,           \* capacity of the job queue
    MaxEventsOnchain,   \* bound: events of the census contract
    MaxImportErrors     \* bound: attempts that fail

Censuses == {"static", "dynamic"}

ASSUME CensusDownloaderAssumption ==
    /\ Wants \in [Requests -> Censuses] /\ Attempts \in Nat \ {0} /\ QueueCap \in Nat \ {0}
    /\ MaxEventsOnchain \in Nat \ {0} /\ MaxImportErrors \in Nat

VARIABLES
    request,        \* request -> "new", "sending", "load", "status", or its answer
    dlQueue,        \* jobs: the census, its expected root, events already applied
    download,       \* worker -> its job, attempts made and step
    censusStatus,   \* census -> status of its download
    onchainCensuses,\* the dynamic census as last fetched
    onchainEvents,  \* events of the census contract
    tree,           \* census -> root of its stored tree, or Absent
    importErrors,   \* auxiliary: failed attempts, by census
    dlStopped       \* Stop was called

dlVars == <<request, dlQueue, download, censusStatus, onchainCensuses, onchainEvents, tree,
            importErrors, dlStopped>>

Absent == -1
OtherRoot == -2      \* a tree to which events were applied twice
StaticRoot == 1

Answers == {"ok", "failed", "timeout", "refused"}
NoStatus == [there |-> FALSE, complete |-> FALSE, attempts |-> 0, lastErr |-> FALSE,
             terminal |-> FALSE, touched |-> FALSE]
NoJob == [census |-> "none", root |-> 0, from |-> 0]
NoDownload == [job |-> NoJob, attempt |-> 0, result |-> "idle"]
Unfetched == [known |-> FALSE, root |-> 0, from |-> 0]

Downloading(c) == \E w \in Downloaders : download[w].job.census = c

----------------------------------------------------------------------------
(* The tickers' view of the contract                                       *)

\* addOnchainCensus: the root is fetched and remembered before anything is
\* imported.
Fetched(from) == [known |-> TRUE, root |-> onchainEvents, from |-> from]

\* DownloadCensus prepares the job and, for a dynamic census, fetches its root;
\* the send blocks while the queue is full.
DownloadCensus(r) ==
    /\ request[r] = "new"
    /\ IF dlStopped THEN request' = [request EXCEPT ![r] = "refused"] /\ UNCHANGED onchainCensuses
       ELSE /\ request' = [request EXCEPT ![r] = "sending"]
            /\ onchainCensuses' = IF Wants[r] = "dynamic" THEN Fetched(0) ELSE onchainCensuses
    /\ UNCHANGED <<dlQueue, download, censusStatus, onchainEvents, tree, importErrors, dlStopped>>

SendJob(r) ==
    /\ request[r] = "sending"
    /\ \/ /\ Len(dlQueue) < QueueCap
          /\ dlQueue' = Append(dlQueue,
                [census |-> Wants[r],
                 root |-> IF Wants[r] = "dynamic" THEN onchainCensuses.root ELSE StaticRoot,
                 from |-> 0])
          /\ request' = [request EXCEPT ![r] = "load"]
       \/ /\ dlStopped
          /\ request' = [request EXCEPT ![r] = "refused"] /\ UNCHANGED dlQueue
    /\ UNCHANGED <<download, censusStatus, onchainCensuses, onchainEvents, tree, importErrors,
                   dlStopped>>

\* checkOnchainCensuses: a census whose download is in progress is skipped; a
\* new root is queued with the events that were applied so far.
CheckOnchainCensuses ==
    /\ ~dlStopped /\ onchainCensuses.known
    /\ censusStatus["dynamic"].there => censusStatus["dynamic"].complete
    /\ onchainCensuses.root # onchainEvents /\ Len(dlQueue) < QueueCap
    /\ onchainCensuses' = Fetched(onchainCensuses.from)
    /\ censusStatus' = [censusStatus EXCEPT !["dynamic"] = NoStatus]
    /\ dlQueue' = Append(dlQueue,
            [census |-> "dynamic", root |-> onchainEvents, from |-> onchainCensuses.from])
    /\ UNCHANGED <<request, download, onchainEvents, tree, importErrors, dlStopped>>

\* cleanUpPendingCensuses: a status expires some time after its last update, at
\* once when it has not been updated yet; a terminal one never does.
Expire(c) ==
    /\ ~dlStopped /\ censusStatus[c].there /\ ~censusStatus[c].terminal
    /\ censusStatus[c].touched => ~Downloading(c)
    /\ censusStatus' = [censusStatus EXCEPT ![c] = NoStatus]
    /\ UNCHANGED <<request, dlQueue, download, onchainCensuses, onchainEvents, tree,
                   importErrors, dlStopped>>

----------------------------------------------------------------------------
(* The workers                                                             *)

\* A worker takes a job; addPendingCensus drops it when the census is tracked.
TakeDownload(w) ==
    /\ ~dlStopped /\ download[w] = NoDownload /\ dlQueue # <<>>
    /\ LET job == Head(dlQueue)
           fresh == ~censusStatus[job.census].there
       IN  /\ download' = IF fresh
                          THEN [download EXCEPT ![w] = [@ EXCEPT !.job = job, !.result = "import"]]
                          ELSE download
           /\ censusStatus' = IF fresh
                THEN [censusStatus EXCEPT ![job.census] = [NoStatus EXCEPT !.there = TRUE]]
                ELSE censusStatus
    /\ dlQueue' = Tail(dlQueue)
    /\ UNCHANGED <<request, onchainCensuses, onchainEvents, tree, importErrors, dlStopped>>

\* ImportCensus of a dump: nothing to do when the root is there; the dump is
\* stored when it has the root it should have.
ImportJSON(w) ==
    /\ download[w].job.census = "static"
    /\ tree' = [tree EXCEPT !["static"] = StaticRoot]
    /\ download' = [download EXCEPT ![w].result = "ok"]

\* ImportCensus of events: the ones after job.from that the subgraph has are
\* applied to the stored tree, a new one if there is none, and the root is
\* compared afterwards.  Events applied twice fail or give another root.
ImportEvents(w, seen) ==
    LET job == download[w].job
        known == IF tree["dynamic"] = Absent THEN 0 ELSE tree["dynamic"]
        applied == IF known = job.from THEN {seen} ELSE {known, OtherRoot}
    IN  /\ job.census = "dynamic" /\ seen >= job.from
        /\ IF seen = job.from
           THEN /\ download' = [download EXCEPT ![w].result = "ok"]
                /\ UNCHANGED tree
           ELSE \E t \in applied :
                /\ tree' = [tree EXCEPT !["dynamic"] = t]
                /\ download' = [download EXCEPT
                        ![w].result = IF known = job.from /\ t = job.root THEN "ok" ELSE "error",
                        ![w].job.from = IF known = job.from /\ t = job.root THEN seen ELSE 0]

\* The server, the network or the dump fails; "gone" is a status 404.
ImportFails(w, how) ==
    /\ download[w].job.census = "static" => tree["static"] = Absent
    /\ download' = [download EXCEPT ![w].result = how, ![w].job.from = 0]
    /\ UNCHANGED tree

\* One attempt.
ImportAttempt(w) ==
    /\ download[w].result = "import"
    /\ \/ ImportJSON(w)
       \/ \E seen \in 0..onchainEvents : ImportEvents(w, seen)
       \/ \E how \in {"error", "gone"} : ImportFails(w, how)
    /\ LET c == download[w].job.census
           bad == download'[w].result # "ok"
       IN  /\ bad => importErrors["static"] + importErrors["dynamic"] < MaxImportErrors
           /\ importErrors' = IF bad THEN [importErrors EXCEPT ![c] = @ + 1] ELSE importErrors
    /\ UNCHANGED <<request, dlQueue, censusStatus, onchainCensuses, onchainEvents, dlStopped>>

\* updateInternalStatus; the error of an earlier attempt stays when the last
\* one succeeds.
StatusAfter(s, result) ==
    IF ~s.there THEN s
    ELSE [there |-> TRUE, complete |-> result = "ok", terminal |-> result = "gone",
          attempts |-> s.attempts + 1, touched |-> TRUE,
          lastErr |-> IF result = "gone" THEN TRUE
                      ELSE IF s.attempts + 1 < Attempts THEN result # "ok"
                      ELSE result # "ok" \/ s.lastErr]

\* The worker records the outcome and tries again, or is done with the job.
ReportAttempt(w) ==
    /\ download[w].result \in {"ok", "error", "gone"}
    /\ LET d == download[w]
           again == d.result = "error" /\ d.attempt + 1 < Attempts /\ ~dlStopped
       IN  /\ download' = [download EXCEPT ![w] =
                IF again THEN [d EXCEPT !.attempt = d.attempt + 1, !.result = "import"]
                ELSE NoDownload]
           /\ censusStatus' = [censusStatus EXCEPT ![d.job.census] = StatusAfter(@, d.result)]
           /\ onchainCensuses' =
                IF d.job.census = "dynamic" /\ onchainCensuses.known /\ onchainCensuses.from < d.job.from
                THEN [known |-> TRUE, root |-> d.job.root, from |-> d.job.from] ELSE onchainCensuses
    /\ UNCHANGED <<request, dlQueue, onchainEvents, tree, importErrors, dlStopped>>

----------------------------------------------------------------------------
(* OnCensusDownloaded                                                      *)

Answer(r, answer) == request' = [request EXCEPT ![r] = answer]

\* Mutant of PollLoad: a tracked census counts as loaded.
PollLoadTracked(r) ==
    /\ request[r] = "load"
    /\ Answer(r, IF tree[Wants[r]] # Absent \/ censusStatus[Wants[r]].there THEN "ok" ELSE "status")
    /\ UNCHANGED <<dlQueue, download, censusStatus, onchainCensuses, onchainEvents, tree,
                   importErrors, dlStopped>>

\* The poll's first half: LoadCensus.
PollLoad(r) ==
    /\ request[r] = "load"
    /\ Answer(r, IF tree[Wants[r]] # Absent THEN "ok" ELSE "status")
    /\ UNCHANGED <<dlQueue, download, censusStatus, onchainCensuses, onchainEvents, tree,
                   importErrors, dlStopped>>

\* Its second half: the status, if there is one; a complete one is removed.
PollStatus(r) ==
    LET c == Wants[r]
        s == censusStatus[c]
        failed == s.there /\ s.lastErr /\ (s.terminal \/ s.attempts >= Attempts)
    IN  /\ request[r] = "status"
        /\ Answer(r, IF failed THEN "failed" ELSE IF s.complete THEN "ok" ELSE "load")
        /\ censusStatus' = IF ~failed /\ s.complete THEN [censusStatus EXCEPT ![c] = NoStatus]
                           ELSE censusStatus
        /\ UNCHANGED <<dlQueue, download, onchainCensuses, onchainEvents, tree, importErrors,
                       dlStopped>>

\* Mutant of WaitTimeout: waiters have no deadline.
WaitTimeoutNever(r) ==
    /\ FALSE
    /\ UNCHANGED dlVars

\* The waiter's deadline passes; the budget covers every attempt of a job that
\* a worker has.
WaitTimeout(r) ==
    /\ request[r] = "load" /\ ~Downloading(Wants[r])
    /\ Answer(r, "timeout")
    /\ UNCHANGED <<dlQueue, download, censusStatus, onchainCensuses, onchainEvents, tree,
                   importErrors, dlStopped>>

\* The census contract emits an event.
CensusEvent ==
    /\ onchainEvents < MaxEventsOnchain
    /\ onchainEvents' = onchainEvents + 1
    /\ UNCHANGED <<request, dlQueue, download, censusStatus, onchainCensuses, tree,
                   importErrors, dlStopped>>

StopDownloader ==
    /\ ~dlStopped
    /\ dlStopped' = TRUE
    /\ UNCHANGED <<request, dlQueue, download, censusStatus, onchainCensuses, onchainEvents,
                   tree, importErrors>>

----------------------------------------------------------------------------
DlInit ==
    /\ request = [r \in Requests |-> "new"] /\ dlQueue = <<>>
    /\ download = [w \in Downloaders |-> NoDownload]
    /\ censusStatus = [c \in Censuses |-> NoStatus] /\ onchainCensuses = Unfetched
    /\ onchainEvents = 1 /\ tree = [c \in Censuses |-> Absent]
    /\ importErrors = [c \in Censuses |-> 0] /\ dlStopped = FALSE

DlNext ==
    \/ \E r \in Requests :
        DownloadCensus(r) \/ SendJob(r) \/ PollLoad(r) \/ PollStatus(r) \/ WaitTimeout(r)
    \/ \E w \in Downloaders : TakeDownload(w) \/ ImportAttempt(w) \/ ReportAttempt(w)
    \/ \E c \in Censuses : Expire(c)
    \/ CheckOnchainCensuses \/ CensusEvent \/ StopDownloader

\* Workers and waiters run; a deadline passes.
DlFairness ==
    /\ \A r \in Requests :
        /\ WF_dlVars(SendJob(r)) /\ WF_dlVars(PollLoad(r))
        /\ WF_dlVars(PollStatus(r)) /\ SF_dlVars(WaitTimeout(r))
    /\ \A w \in Downloaders :
        /\ WF_dlVars(TakeDownload(w)) /\ WF_dlVars(ImportAttempt(w))
        /\ WF_dlVars(ReportAttempt(w))

DlSpec == DlInit /\ [][DlNext]_dlVars /\ DlFairness

----------------------------------------------------------------------------
(* Properties                                                              *)

\* A request for a static census that is told it succeeded finds the census
\* under its root, however statuses expire and duplicates are dropped.
OkMeansStored ==
    \A r \in Requests : request[r] = "ok" /\ Wants[r] = "static" => tree["static"] = StaticRoot

\* Every request that is made is answered, also when its status expires, its
\* job is dropped as a duplicate or the downloader stops.
RequestsAnswered == \A r \in Requests : request[r] # "new" ~> request[r] \in Answers
=============================================================================
