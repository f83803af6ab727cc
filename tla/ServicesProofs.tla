--------------------------- MODULE ServicesProofs ---------------------------
(***************************************************************************)
(* Proofs about the services beside the pipeline of votes: WorkerJobs, for *)
(* any number of workers, ballots and concurrent requests, and any number  *)
(* of jobs given out; CensusDB and CensusDownloader, for any sets of       *)
(* censuses, requests and download workers; Artifacts, for any number of   *)
(* threads and programs that share a cache directory, any number of        *)
(* downloads and crashes; and the life of a process (ProcessMonitor with   *)
(* Finalizer), for any number of contract events, faults and restarts.     *)
(***************************************************************************)
EXTENDS WorkerJobs, CensusDB, CensusDownloader, Artifacts, Finalizer,
        FiniteSetTheorems, WellFoundedInduction, TLAPS

----------------------------------------------------------------------------
(* WorkerJobs: the inductive invariant                                     *)

\* The part of the state that the proofs read.
JobsTypeOK ==
    /\ queue \subseteq Ballots /\ reserved \subseteq Ballots
    /\ pendingJobs \in [Ballots -> Workers \cup {NoWorker}]
    /\ expired \subseteq {b \in Ballots : pendingJobs[b] # NoWorker}
    /\ stats \in [Workers -> [success : Nat, failed : Nat, given : Nat]]
    /\ holding \in [Workers -> SUBSET Ballots]
    /\ ctxDone \in BOOLEAN

\* checkTimeouts offers a job that is still in the table, since it holds
\* pendingMtx; the monitor has a job only while it releases its ballot.
GoroutinesOK ==
    /\ ticker.job = NoBallot \/ ticker.pc = "send"
    /\ ticker.pc = "send" => ticker.job \in Ballots /\ pendingJobs[ticker.job] # NoWorker
    /\ failedJobs.pc = "release" => failedJobs.job \in Ballots
    /\ failedJobs.pc # "release" => failedJobs.job = NoBallot

\* A ballot has at most one of: a request that reserved it, a job, a failed job
\* whose reservation the monitor is about to release.
OneOwner ==
    \A b \in Ballots :
        /\ pendingJobs[b] # NoWorker => failedJobs.job # b
        /\ \A w \in Workers : b \in holding[w] =>
            /\ pendingJobs[b] = NoWorker /\ failedJobs.job # b
            /\ \A v \in Workers : b \in holding[v] => v = w

\* ... and an owned ballot that is still queued is reserved, so that
\* NextPendingBallot gives it to nobody else.
OwnedIsReserved ==
    \A b \in queue :
        \/ b \in reserved
        \/ /\ pendingJobs[b] = NoWorker /\ failedJobs.job # b
           /\ \A w \in Workers : b \notin holding[w]

\* JobIsReserved and JobsAccounted are not inductive by themselves: a job is
\* registered for a ballot that a request holds, and the monitor takes a
\* reservation away.
JobsInv == JobsTypeOK /\ GoroutinesOK /\ OneOwner /\ OwnedIsReserved /\ JobsAccounted

\* Jobs of w whose outcome is not counted yet.
Open(w) == {b \in Ballots : pendingJobs[b] = w /\ ticker.job # b}

----------------------------------------------------------------------------
(* Lemmas                                                                  *)

\* The open jobs of a worker are finitely many.
LEMMA OpenIsFinite ==
    ASSUME NEW w
    PROVE  IsFiniteSet(Open(w)) /\ Cardinality(Open(w)) \in Nat
<1>1. IsFiniteSet(Open(w))
  BY WorkerAssumption, FS_Subset DEF Open
<1> QED
  BY <1>1, FS_CardinalityType

\* JobsAccounted in terms of Open.
LEMMA AccountedByOpen ==
    JobsAccounted <=> (~ctxDone => \A w \in Workers :
        stats[w].given = stats[w].success + stats[w].failed + Cardinality(Open(w)))
BY DEF JobsAccounted, Open

\* ... and in the next state.
LEMMA AccountedByOpenNext ==
    JobsAccounted' <=> (~ctxDone' => \A w \in Workers :
        stats'[w].given = stats'[w].success + stats'[w].failed + Cardinality(Open(w)'))
BY DEF JobsAccounted, Open

\* The initial state has no jobs.
LEMMA JobsInitially == JobsInit => JobsInv
<1> SUFFICES ASSUME JobsInit PROVE JobsInv
  OBVIOUS
<1>1. JobsTypeOK
  BY DEF JobsInit, JobsTypeOK
<1>2. GoroutinesOK /\ OneOwner /\ OwnedIsReserved
  BY WorkerAssumption DEF JobsInit, GoroutinesOK, OneOwner, OwnedIsReserved
<1>3. ASSUME NEW w \in Workers PROVE Open(w) = {}
  BY WorkerAssumption DEF JobsInit, Open
<1>4. JobsAccounted
  BY <1>3, AccountedByOpen, FS_EmptySet DEF JobsInit
<1> QED
  BY <1>1, <1>2, <1>4 DEF JobsInv

\* A step that changes neither the job table, the ticker, the counters nor the
\* context accounts for the same jobs.
LEMMA AccountedUnchanged ==
    ASSUME JobsAccounted, pendingJobs' = pendingJobs, ticker' = ticker, stats' = stats,
           ctxDone' = ctxDone
    PROVE  JobsAccounted'
BY DEF JobsAccounted

\* Steps of the roster, of a client and of a first request change nothing that
\* the invariant reads.
LEMMA IdleSteps ==
    ASSUME JobsInv,
           \/ \E w \in Workers :
                \/ NewJob(w) \/ BanTick(w) \/ BanPasses(w)
                \/ \E b \in Ballots : GiveUp(w, b) \/ SubmitJob(w, b)
           \/ UNCHANGED jmVars
    PROVE  JobsInv'
<1>1. UNCHANGED <<queue, reserved, pendingJobs, expired, stats, holding, ticker, failedJobs,
                  ctxDone>>
  BY DEF NewJob, BanTick, BanPasses, GiveUp, SubmitJob, jmVars, workVars, jobVars, clientVars
<1> QED
  BY <1>1 DEF JobsInv, JobsTypeOK, GoroutinesOK, OneOwner, OwnedIsReserved, JobsAccounted

\* NextPendingBallot takes a ballot that nobody owns, because an owned one is
\* reserved.
LEMMA NextPendingBallotStep ==
    ASSUME JobsInv, NEW w \in Workers, NextPendingBallot(w)
    PROVE  JobsInv'
<1> USE DEF NextPendingBallot, JobsInv, jobVars
<1>1. JobsAccounted'
  BY AccountedUnchanged
<1>2. CASE UNCHANGED <<reserved, holding>>
  BY <1>1, <1>2 DEF JobsTypeOK, GoroutinesOK, OneOwner, OwnedIsReserved
<1>3. CASE \E b \in queue \ reserved :
            /\ reserved' = reserved \cup {b}
            /\ holding' = [holding EXCEPT ![w] = @ \cup {b}]
  <2>1. PICK b \in queue \ reserved :
            /\ reserved' = reserved \cup {b}
            /\ holding' = [holding EXCEPT ![w] = @ \cup {b}]
    BY <1>3
  <2>2. b \in Ballots /\ pendingJobs[b] = NoWorker /\ failedJobs.job # b
        /\ \A v \in Workers : b \notin holding[v]
    BY <2>1 DEF JobsTypeOK, OwnedIsReserved
  <2>3. JobsTypeOK' /\ GoroutinesOK'
    BY <2>1, <2>2 DEF JobsTypeOK, GoroutinesOK
  <2>4. \A v \in Workers, c \in Ballots :
            c \in holding'[v] <=> (c \in holding[v] \/ (c = b /\ v = w))
    BY <2>1 DEF JobsTypeOK
  <2>5. OneOwner'
    BY <2>2, <2>4 DEF OneOwner
  <2>6. OwnedIsReserved'
    BY <2>1, <2>2, <2>4 DEF OwnedIsReserved, JobsTypeOK
  <2> QED
    BY <1>1, <2>3, <2>5, <2>6
<1> QED
  BY <1>2, <1>3

\* RegisterJob turns a request that holds a ballot into the only job for it,
\* and counts one more job given out.
LEMMA RegisterJobStep ==
    ASSUME JobsInv, NEW w \in Workers, NEW b \in Ballots, RegisterJob(w, b)
    PROVE  JobsInv'
<1>1. /\ b \in holding[w] /\ ticker.pc # "send" /\ ticker.job = NoBallot
      /\ holding' = [holding EXCEPT ![w] = @ \ {b}]
      /\ UNCHANGED <<queue, reserved, ticker, failedJobs, ctxDone>>
  BY DEF RegisterJob, MtxFree, JobsInv, GoroutinesOK, workVars
<1>2. /\ pendingJobs[b] = NoWorker /\ failedJobs.job # b
      /\ \A v \in Workers : b \in holding[v] => v = w
  BY <1>1 DEF JobsInv, OneOwner
<1>3. holding' \in [Workers -> SUBSET Ballots]
      /\ \A v \in Workers, c \in Ballots :
            c \in holding'[v] <=> (c \in holding[v] /\ ~(c = b /\ v = w))
  BY <1>1 DEF JobsInv, JobsTypeOK
<1>4. CASE UNCHANGED <<jobVars, stats>>
  <2>1. JobsTypeOK' /\ GoroutinesOK' /\ JobsAccounted'
    BY <1>1, <1>3, <1>4, AccountedUnchanged DEF JobsInv, JobsTypeOK, GoroutinesOK, jobVars
  <2>2. OneOwner' /\ OwnedIsReserved'
    BY <1>1, <1>3, <1>4 DEF JobsInv, JobsTypeOK, OneOwner, OwnedIsReserved, jobVars
  <2> QED
    BY <2>1, <2>2 DEF JobsInv
<1>5. CASE /\ pendingJobs' = [pendingJobs EXCEPT ![b] = w]
           /\ expired' = expired \ {b}
           /\ stats' = [stats EXCEPT ![w].given = @ + 1]
  <2>1. JobsTypeOK'
    BY <1>1, <1>3, <1>5 DEF JobsInv, JobsTypeOK
  <2>2. GoroutinesOK'
    BY <1>1, <1>5 DEF JobsInv, GoroutinesOK
  <2>3. \A c \in Ballots : pendingJobs'[c] = IF c = b THEN w ELSE pendingJobs[c]
    BY <1>5 DEF JobsInv, JobsTypeOK
  <2>4. OneOwner'
    BY <1>1, <1>2, <1>3, <2>3 DEF JobsInv, OneOwner
  <2>5. OwnedIsReserved'
    BY <1>1, <1>3, <2>3 DEF JobsInv, JobsTypeOK, OwnedIsReserved
  <2>6. Open(w)' = Open(w) \cup {b} /\ b \notin Open(w)
    BY <1>1, <1>2, <2>3, WorkerAssumption DEF Open
  <2>7. Cardinality(Open(w)') = Cardinality(Open(w)) + 1
    BY <2>6, OpenIsFinite, FS_AddElement
  <2>8. ASSUME NEW v \in Workers, v # w PROVE Open(v)' = Open(v)
    BY <1>1, <1>2, <2>3, <2>8, WorkerAssumption DEF Open
  <2>9. JobsAccounted'
    <3>1. SUFFICES ASSUME ~ctxDone, NEW v \in Workers
                   PROVE  stats'[v].given = stats'[v].success + stats'[v].failed
                                            + Cardinality(Open(v)')
      BY <1>1, AccountedByOpenNext
    <3>2. stats[v].given = stats[v].success + stats[v].failed + Cardinality(Open(v))
      BY <3>1, AccountedByOpen DEF JobsInv
    <3>3. Cardinality(Open(v)) \in Nat /\ stats[v].given \in Nat /\ stats[v].success \in Nat
          /\ stats[v].failed \in Nat
      BY OpenIsFinite DEF JobsInv, JobsTypeOK
    <3>4. CASE v = w
      <4>1. stats'[v].given = stats[v].given + 1 /\ stats'[v].success = stats[v].success
            /\ stats'[v].failed = stats[v].failed
        BY <1>5, <3>4 DEF JobsInv, JobsTypeOK
      <4> QED
        BY <2>7, <3>2, <3>3, <3>4, <4>1
    <3>5. CASE v # w
      <4>1. stats'[v] = stats[v]
        BY <1>5, <3>5 DEF JobsInv, JobsTypeOK
      <4> QED
        BY <2>8, <3>2, <3>5, <4>1
    <3> QED
      BY <3>4, <3>5
  <2> QED
    BY <2>1, <2>2, <2>4, <2>5, <2>9 DEF JobsInv
<1> QED
  BY <1>4, <1>5 DEF RegisterJob

\* MarkBallotVerified takes the ballot out of the queue with its reservation.
\* ReleaseStale and ReleaseReservation take a reservation away only from a
\* ballot without a job or a request.
LEMMA ReservationSteps ==
    ASSUME JobsInv,
           \/ \E b \in Ballots : ReleaseStale(b) \/ \E w \in Workers : StoreBallot(w, b)
           \/ ReleaseReservation
    PROVE  JobsInv'
<1>1. ASSUME NEW w \in Workers, NEW b \in Ballots, StoreBallot(w, b) PROVE JobsInv'
  BY <1>1 DEF StoreBallot, jobVars, JobsInv, JobsTypeOK, GoroutinesOK, OneOwner,
              OwnedIsReserved, JobsAccounted
<1>2. ASSUME NEW b \in Ballots, ReleaseStale(b) PROVE JobsInv'
  BY <1>2 DEF ReleaseStale, jobVars, clientVars, JobsInv, JobsTypeOK, GoroutinesOK, OneOwner,
              OwnedIsReserved, JobsAccounted
<1>3. CASE ReleaseReservation
  <2>1. /\ failedJobs.job \in Ballots /\ failedJobs'.job = NoBallot /\ failedJobs'.pc = "idle"
        /\ reserved' = reserved \ {failedJobs.job}
        /\ UNCHANGED <<queue, pendingJobs, expired, stats, holding, ticker, ctxDone>>
    BY <1>3 DEF ReleaseReservation, JobsInv, GoroutinesOK, jobVars, clientVars
  <2>2. JobsTypeOK' /\ GoroutinesOK' /\ JobsAccounted'
    BY <2>1, AccountedUnchanged DEF JobsInv, JobsTypeOK, GoroutinesOK
  <2>3. OneOwner'
    BY <2>1, WorkerAssumption DEF JobsInv, OneOwner
  <2>4. OwnedIsReserved'
    BY <2>1, WorkerAssumption DEF JobsInv, JobsTypeOK, OneOwner, OwnedIsReserved
  <2> QED
    BY <2>2, <2>3, <2>4 DEF JobsInv
<1> QED
  BY <1>1, <1>2, <1>3

\* A job moved from the open ones to the failed ones leaves their sum.
LEMMA OneMoved ==
    ASSUME NEW s \in Nat, NEW f \in Nat, NEW n \in Nat
    PROVE  s + f + n = (s + 1) + f + (n - 1) /\ s + f + n = s + (f + 1) + (n - 1)
OBVIOUS

\* WorkerResult for the worker of a job that leaves the open ones keeps the
\* account, with success and with failure.
LEMMA OneOutcome ==
    ASSUME JobsInv, NEW b \in Ballots, NEW u \in Workers, NEW success \in BOOLEAN,
           WorkerResult(u, success), ctxDone' = ctxDone,
           b \in Open(u), \A v \in Workers : Open(v)' = Open(v) \ {b}
    PROVE  JobsAccounted' /\ stats' \in [Workers -> [success : Nat, failed : Nat, given : Nat]]
<1>1. stats' \in [Workers -> [success : Nat, failed : Nat, given : Nat]]
  BY DEF WorkerResult, JobsInv, JobsTypeOK
<1>2. SUFFICES ASSUME ~ctxDone, NEW v \in Workers
               PROVE  stats'[v].given = stats'[v].success + stats'[v].failed
                                        + Cardinality(Open(v)')
  BY <1>1, AccountedByOpenNext
<1>3. stats[v].given = stats[v].success + stats[v].failed + Cardinality(Open(v))
  BY <1>2, AccountedByOpen DEF JobsInv
<1>4. Cardinality(Open(v)) \in Nat /\ stats[v].given \in Nat /\ stats[v].success \in Nat
      /\ stats[v].failed \in Nat
  BY OpenIsFinite DEF JobsInv, JobsTypeOK
<1>5. CASE v = u
  <2>1. Cardinality(Open(v)') = Cardinality(Open(v)) - 1
    BY <1>5, OpenIsFinite, FS_RemoveElement
  <2>2. CASE success
    <3>1. stats'[v].given = stats[v].given /\ stats'[v].success = stats[v].success + 1
          /\ stats'[v].failed = stats[v].failed
      BY <1>5, <2>2 DEF WorkerResult, JobsInv, JobsTypeOK
    <3> QED
      BY <1>3, <1>4, <2>1, <3>1, OneMoved
  <2>3. CASE ~success
    <3>1. stats'[v].given = stats[v].given /\ stats'[v].success = stats[v].success
          /\ stats'[v].failed = stats[v].failed + 1
      BY <1>5, <2>3 DEF WorkerResult, JobsInv, JobsTypeOK
    <3>2. stats[v].success + stats[v].failed + Cardinality(Open(v))
            = stats[v].success + (stats[v].failed + 1) + (Cardinality(Open(v)) - 1)
      BY <1>4, OneMoved
    <3> QED
      BY <1>3, <2>1, <3>1, <3>2
  <2> QED
    BY <2>2, <2>3
<1>6. CASE v # u
  <2>1. stats'[v] = stats[v]
    BY <1>6 DEF WorkerResult, JobsInv, JobsTypeOK
  <2>2. b \notin Open(v)
    BY <1>6 DEF Open
  <2>3. Open(v)' = Open(v)
    BY <2>2
  <2> QED
    BY <1>3, <2>1, <2>3
<1> QED
  BY <1>5, <1>6

\* CompleteJob settles the job with success and takes it out of the table; a
\* job that timed out before is not found, and not counted again.
LEMMA CompleteJobStep ==
    ASSUME JobsInv, NEW w \in Workers, NEW b \in Ballots, CompleteJob(w, b)
    PROVE  JobsInv'
<1>1. /\ ticker.pc # "send" /\ ticker.job = NoBallot
      /\ UNCHANGED <<queue, reserved, holding, ticker, failedJobs, ctxDone>>
  BY DEF CompleteJob, MtxFree, JobsInv, GoroutinesOK, workVars
<1>2. CASE pendingJobs[b] = NoWorker
  <2>1. UNCHANGED <<pendingJobs, expired, stats>>
    BY <1>2 DEF CompleteJob, jobVars
  <2> QED
    BY <1>1, <2>1 DEF JobsInv, JobsTypeOK, GoroutinesOK, OneOwner, OwnedIsReserved,
                      JobsAccounted
<1>3. CASE pendingJobs[b] # NoWorker
  <2>1. /\ WorkerResult(pendingJobs[b], TRUE) /\ pendingJobs[b] \in Workers
        /\ pendingJobs' = [pendingJobs EXCEPT ![b] = NoWorker]
        /\ expired' = expired \ {b}
    BY <1>3 DEF CompleteJob, JobsInv, JobsTypeOK
  <2>2. \A c \in Ballots : pendingJobs'[c] = IF c = b THEN NoWorker ELSE pendingJobs[c]
    BY <2>1 DEF JobsInv, JobsTypeOK
  <2>3. b \in Open(pendingJobs[b]) /\ \A v \in Workers : Open(v)' = Open(v) \ {b}
    BY <1>1, <2>2, WorkerAssumption DEF Open
  <2>4. JobsAccounted' /\ stats' \in [Workers -> [success : Nat, failed : Nat, given : Nat]]
    BY <1>1, <2>1, <2>3, OneOutcome
  <2>5. JobsTypeOK' /\ GoroutinesOK'
    BY <1>1, <2>1, <2>2, <2>4 DEF JobsInv, JobsTypeOK, GoroutinesOK
  <2>6. OneOwner' /\ OwnedIsReserved'
    BY <1>1, <2>2 DEF JobsInv, JobsTypeOK, OneOwner, OwnedIsReserved
  <2> QED
    BY <2>4, <2>5, <2>6 DEF JobsInv
<1> QED
  BY <1>2, <1>3

\* checkTimeouts counts the failure when it offers the job, and removes the job
\* when the monitor has received it: between the two nothing else may settle it.
LEMMA TimeoutSteps ==
    ASSUME JobsInv,
           (\E b \in Ballots : JobExpires(b) \/ CheckTimeouts(b)) \/ ReceiveFailedJob
    PROVE  JobsInv'
<1>1. ASSUME NEW b \in Ballots, JobExpires(b) PROVE JobsInv'
  BY <1>1 DEF JobExpires, workVars, clientVars, JobsInv, JobsTypeOK, GoroutinesOK, OneOwner,
              OwnedIsReserved, JobsAccounted
<1>2. ASSUME NEW b \in Ballots, CheckTimeouts(b) PROVE JobsInv'
  <2>1. /\ ticker.job = NoBallot /\ ticker'.job = b /\ ticker'.pc = "send"
        /\ pendingJobs[b] \in Workers
        /\ WorkerResult(pendingJobs[b], FALSE)
        /\ UNCHANGED <<queue, reserved, pendingJobs, expired, holding, failedJobs, ctxDone>>
    BY <1>2 DEF CheckTimeouts, workVars, jobVars, clientVars, JobsInv, JobsTypeOK, GoroutinesOK
  <2>2. b \in Open(pendingJobs[b]) /\ \A v \in Workers : Open(v)' = Open(v) \ {b}
    BY <2>1, WorkerAssumption DEF Open
  <2>3. JobsAccounted' /\ stats' \in [Workers -> [success : Nat, failed : Nat, given : Nat]]
    BY <2>1, <2>2, OneOutcome
  <2>4. JobsTypeOK' /\ GoroutinesOK' /\ OneOwner' /\ OwnedIsReserved'
    BY <2>1, <2>3, WorkerAssumption DEF JobsInv, JobsTypeOK, GoroutinesOK, OneOwner,
                                        OwnedIsReserved
  <2> QED
    BY <2>3, <2>4 DEF JobsInv
<1>3. CASE ReceiveFailedJob
  <2> DEFINE j == ticker.job
  <2>1. /\ j \in Ballots /\ pendingJobs[j] # NoWorker
        /\ failedJobs'.pc = "release" /\ failedJobs'.job = j
        /\ pendingJobs' = [pendingJobs EXCEPT ![j] = NoWorker]
        /\ expired' = expired \ {j}
        /\ ticker'.pc = "idle" /\ ticker'.job = NoBallot
        /\ failedJobs.job = NoBallot
        /\ UNCHANGED <<queue, reserved, stats, holding, ctxDone>>
    BY <1>3 DEF ReceiveFailedJob, workVars, clientVars, JobsInv, GoroutinesOK
  <2>2. \A c \in Ballots : pendingJobs'[c] = IF c = j THEN NoWorker ELSE pendingJobs[c]
    BY <2>1 DEF JobsInv, JobsTypeOK
  <2>3. JobsTypeOK' /\ GoroutinesOK'
    BY <2>1, <2>2 DEF JobsInv, JobsTypeOK, GoroutinesOK
  <2>4. OneOwner'
    BY <2>1, <2>2 DEF JobsInv, OneOwner
  <2>5. OwnedIsReserved'
    BY <2>1, <2>2 DEF JobsInv, JobsTypeOK, OwnedIsReserved
  <2>6. ASSUME NEW v \in Workers PROVE Open(v)' = Open(v)
    BY <2>1, <2>2, WorkerAssumption DEF Open
  <2>7. JobsAccounted'
    BY <2>1, <2>6, AccountedByOpen, AccountedByOpenNext DEF JobsInv
  <2> QED
    BY <2>3, <2>4, <2>5, <2>7 DEF JobsInv
<1> QED
  BY <1>1, <1>2, <1>3

\* Stop empties the table when nobody is offering a job.
LEMMA ShutdownSteps ==
    ASSUME JobsInv, Cancel \/ MonitorStops \/ Stop \/ ReceiveNil
    PROVE  JobsInv'
<1>1. CASE Cancel \/ MonitorStops \/ ReceiveNil
  <2>1. /\ UNCHANGED <<queue, reserved, pendingJobs, expired, stats, holding, ticker>>
        /\ \/ failedJobs' = failedJobs
           \/ failedJobs'.pc # "release" /\ failedJobs'.job = NoBallot
    BY <1>1 DEF Cancel, MonitorStops, ReceiveNil, workVars, jobVars, clientVars
  <2>2. ctxDone' = ctxDone \/ ctxDone' = TRUE
    BY <1>1 DEF Cancel, MonitorStops, ReceiveNil
  <2>3. JobsTypeOK' /\ GoroutinesOK' /\ JobsAccounted'
    BY <2>1, <2>2 DEF JobsInv, JobsTypeOK, GoroutinesOK, JobsAccounted
  <2>4. OneOwner' /\ OwnedIsReserved'
    BY <2>1, WorkerAssumption DEF JobsInv, JobsTypeOK, OneOwner, OwnedIsReserved
  <2> QED
    BY <2>3, <2>4 DEF JobsInv
<1>2. CASE Stop
  <2>1. \A c \in Ballots : pendingJobs'[c] = NoWorker
    BY <1>2 DEF Stop
  <2> QED
    BY <1>2, <2>1 DEF Stop, workVars, clientVars, JobsInv, JobsTypeOK, GoroutinesOK, OneOwner,
                      OwnedIsReserved, JobsAccounted
<1> QED
  BY <1>1, <1>2

\* Every step keeps the invariant.
LEMMA JobsStep == JobsInv /\ [JobsNext]_jmVars => JobsInv'
<1> SUFFICES ASSUME JobsInv, [JobsNext]_jmVars PROVE JobsInv'
  OBVIOUS
<1>1. CASE UNCHANGED jmVars
  BY <1>1, IdleSteps
<1>2. ASSUME NEW w \in Workers, NewJob(w) \/ BanTick(w) \/ BanPasses(w) PROVE JobsInv'
  BY <1>2, IdleSteps
<1>3. ASSUME NEW w \in Workers, HandlerNext(w) PROVE JobsInv'
  BY <1>3, NextPendingBallotStep, RegisterJobStep, ReservationSteps, CompleteJobStep
     DEF HandlerNext
<1>4. ASSUME NEW w \in Workers, NEW b \in Ballots, GiveUp(w, b) \/ SubmitJob(w, b)
      PROVE  JobsInv'
  BY <1>4, IdleSteps
<1>5. CASE TimeoutNext
  BY <1>5, TimeoutSteps, ReservationSteps DEF TimeoutNext
<1>6. CASE \E b \in Ballots : ReleaseStale(b)
  BY <1>6, ReservationSteps
<1>7. CASE Cancel \/ MonitorStops \/ Stop \/ ReceiveNil
  BY <1>7, ShutdownSteps
<1> QED
  BY <1>1, <1>2, <1>3, <1>4, <1>5, <1>6, <1>7 DEF JobsNext

\* The invariant holds in every state of the jobs manager.
LEMMA JobsAlways == JobsSpec => []JobsInv
<1>1. JobsInit => JobsInv
  BY JobsInitially
<1>2. JobsInv /\ [JobsNext]_jmVars => JobsInv'
  BY JobsStep
<1> QED
  BY <1>1, <1>2, PTL DEF JobsSpec

----------------------------------------------------------------------------
(* Theorems                                                                *)

\* While a job is in the table, its ballot is queued only as a reserved one:
\* NextPendingBallot, ReleaseStale and the monitor of failed jobs never let a
\* second worker have it.
THEOREM JobsKeepReservations == JobsSpec => []JobIsReserved
<1>1. JobsInv => JobIsReserved
  BY DEF JobsInv, JobsTypeOK, OwnedIsReserved, JobIsReserved
<1> QED
  BY <1>1, JobsAlways, PTL

\* CompleteJob and checkTimeouts settle every job that RegisterJob gave out
\* exactly once, for the worker it was given to.
THEOREM JobsSettledOnce == JobsSpec => []JobsAccounted
<1>1. JobsInv => JobsAccounted
  BY DEF JobsInv
<1> QED
  BY <1>1, JobsAlways, PTL

----------------------------------------------------------------------------
(* CensusDB: the inductive invariant                                       *)

CdbTypeOK ==
    /\ refs \subseteq IDs /\ removing \subseteq WorkingIDs \cup Addresses
    /\ dirs \in [IDs -> Trees \cup {NoTree}] /\ treeDB \in [IDs -> Trees \cup {NoTree}]
    /\ loadedCensus \in [IDs -> [in : {"no", "dir", "db"}, root : Trees]]
    /\ updates \in Seq([id : WorkingIDs, root : Trees])
    /\ dbRestarts \in Nat

\* What is stored under a root is that tree, or an empty one that was opened in
\* the place of a directory that a restart had emptied.
RootStored(r) ==
    /\ dirs[r] \in {NoTree, r} \/ (dbRestarts > 0 /\ dirs[r] = 0)
    /\ treeDB[r] \in {NoTree, r}

\* A census in memory has its tree, and until the first restart a census by
\* root that is stored is in memory: Load opens no directory that is missing.
RootLoaded(r) ==
    /\ loadedCensus[r].in = "dir" => dirs[r] # NoTree
    /\ loadedCensus[r].in = "db" => treeDB[r] # NoTree
    /\ dbRestarts = 0 /\ r \in refs => loadedCensus[r].in # "no"

CdbInv == CdbTypeOK /\ DirsAreOwned /\ \A r \in Roots : RootStored(r) /\ RootLoaded(r)

\* The database starts empty.
LEMMA CdbInitially == CdbInit => CdbInv
BY CensusDBAssumption
   DEF CdbInit, CdbInv, CdbTypeOK, DirsAreOwned, RootStored, RootLoaded, NotLoaded, Trees, IDs,
       NoTree

----------------------------------------------------------------------------
(* CensusDB: steps                                                         *)

\* A tree that is opened is a tree.
LEMMA OpenedType ==
    ASSUME CdbTypeOK, NEW id \in IDs
    PROVE  Opened(id) \in Trees
BY CensusDBAssumption DEF Opened, CdbTypeOK, Trees

\* A step on working IDs and addresses only, which keeps what is stored and
\* loaded under every root.
LEMMA RootsUntouched ==
    ASSUME CdbInv, \A r \in Roots : /\ dirs'[r] = dirs[r] /\ treeDB'[r] = treeDB[r]
                                    /\ loadedCensus'[r].in = loadedCensus[r].in
                                    /\ r \in refs' => r \in refs,
           dbRestarts' = dbRestarts
    PROVE  \A r \in Roots : RootStored(r)' /\ RootLoaded(r)'
BY DEF CdbInv, RootStored, RootLoaded

\* New and Load open the directory of the census.
LEMMA NewStep ==
    ASSUME CdbInv, NEW id \in WorkingIDs, New(id)
    PROVE  CdbInv'
<1> USE DEF New, Remember
<1>1. id \in IDs /\ Opened(id) \in Trees /\ id \notin Roots
  BY OpenedType, CensusDBAssumption DEF CdbInv, IDs
<1>2. CdbTypeOK'
  BY <1>1 DEF CdbInv, CdbTypeOK
<1>3. DirsAreOwned'
  BY <1>1 DEF CdbInv, CdbTypeOK, DirsAreOwned
<1>4. \A r \in Roots : RootStored(r)' /\ RootLoaded(r)'
  BY <1>1, RootsUntouched DEF CdbInv, CdbTypeOK, IDs
<1> QED
  BY <1>2, <1>3, <1>4 DEF CdbInv

\* Load finds the tree where it was stored; it opens an empty one under a root
\* only after a restart.
LEMMA LoadStep ==
    ASSUME CdbInv, NEW id \in IDs, Load(id)
    PROVE  CdbInv'
<1> USE DEF Load, Remember, IsLoaded
<1>1. Opened(id) \in Trees
  BY OpenedType DEF CdbInv
<1>2. CdbTypeOK'
  BY <1>1 DEF CdbInv, CdbTypeOK
<1>3. DirsAreOwned'
  BY <1>1 DEF CdbInv, CdbTypeOK, DirsAreOwned
<1>4. ASSUME NEW r \in Roots PROVE RootStored(r)' /\ RootLoaded(r)'
  <2>1. CASE r = id
    <3>1. dbRestarts > 0
      BY <1>4, <2>1 DEF CdbInv, RootLoaded, CdbTypeOK
    <3>2. dirs'[r] = Opened(r) /\ loadedCensus'[r].in = "dir"
      BY <2>1 DEF CdbInv, CdbTypeOK
    <3>3. Opened(r) = r \/ Opened(r) = 0
      BY <1>4 DEF CdbInv, RootStored, Opened
    <3>4. NoTree \notin Trees
      BY CensusDBAssumption DEF Trees, NoTree
    <3> QED
      BY <1>1, <1>4, <2>1, <3>1, <3>2, <3>3, <3>4 DEF CdbInv, RootStored, RootLoaded
  <2>2. CASE r # id
    BY <1>4, <2>2 DEF CdbInv, CdbTypeOK, RootStored, RootLoaded, IDs
  <2> QED
    BY <2>1, <2>2
<1> QED
  BY <1>2, <1>3, <1>4 DEF CdbInv

\* A root is a tree, and no tree is NoTree.
LEMMA RootIsTree ==
    ASSUME NEW r \in Roots
    PROVE  r \in IDs /\ r \in Trees /\ r # NoTree
BY CensusDBAssumption DEF IDs, Trees, NoTree

\* The two imports by root store the dump under its own root.
LEMMA ImportStep ==
    ASSUME CdbInv, NEW r \in Roots, Import(r) \/ ImportAll(r)
    PROVE  CdbInv'
<1> USE DEF Import, ImportAll, Remember
<1>1. CdbTypeOK'
  BY RootIsTree DEF CdbInv, CdbTypeOK
<1>2. DirsAreOwned'
  BY RootIsTree DEF CdbInv, CdbTypeOK, DirsAreOwned
<1>3. ASSUME NEW q \in Roots PROVE RootStored(q)' /\ RootLoaded(q)'
  <2>1. CASE q = r
    BY <2>1, RootIsTree DEF CdbInv, CdbTypeOK, RootStored, RootLoaded
  <2>2. CASE q # r
    BY <1>3, <2>2, RootIsTree DEF CdbInv, CdbTypeOK, RootStored, RootLoaded
  <2> QED
    BY <2>1, <2>2
<1> QED
  BY <1>1, <1>2, <1>3 DEF CdbInv

\* A census of an address replaces the one that was there; the old directory
\* stays until the background goroutine removes it.
LEMMA ImportByAddressStep ==
    ASSUME CdbInv, NEW a \in Addresses, NEW q \in Roots, NEW streamed \in BOOLEAN,
           ImportByScopedAddress(a, q, streamed)
    PROVE  CdbInv'
<1>1. a \in IDs /\ a \notin Roots /\ q \in Trees
  BY RootIsTree, CensusDBAssumption DEF IDs
<1>2. /\ refs' = refs \cup {a} /\ removing \subseteq removing' /\ removing' \subseteq removing \cup {a}
      /\ dirs' = dirs \/ dirs' = [dirs EXCEPT ![a] = q]
      /\ treeDB' = treeDB \/ treeDB' = [treeDB EXCEPT ![a] = q]
      /\ updates' = updates /\ dbRestarts' = dbRestarts
  BY DEF ImportByScopedAddress
<1>3. \E where \in {"db", "dir"} :
        loadedCensus' = [loadedCensus EXCEPT ![a] = [in |-> where, root |-> q]]
  BY DEF ImportByScopedAddress
<1>4. CdbTypeOK'
  BY <1>1, <1>2, <1>3 DEF CdbInv, CdbTypeOK
<1>5. DirsAreOwned'
  BY <1>1, <1>2 DEF CdbInv, CdbTypeOK, DirsAreOwned
<1>6. \A r \in Roots : RootStored(r)' /\ RootLoaded(r)'
  BY <1>1, <1>2, <1>3, RootsUntouched, RootIsTree DEF CdbInv, CdbTypeOK
<1> QED
  BY <1>4, <1>5, <1>6 DEF CdbInv

\* Del, CleanupWorkingCensus and PurgeWorkingCensuses forget working IDs and
\* addresses; their directories are removed, at once or in the background.
LEMMA RemovalSteps ==
    ASSUME CdbInv,
           \/ \E id \in WorkingIDs \cup Addresses : Del(id)
           \/ \E id \in WorkingIDs : CleanupWorkingCensus(id)
           \/ \E old \in SUBSET WorkingIDs : PurgeWorkingCensuses(old)
    PROVE  CdbInv'
<1>1. PICK ids \in SUBSET (WorkingIDs \cup Addresses) :
        /\ refs' = refs \ ids /\ Forget(ids)
        /\ \/ removing' = removing \cup ids /\ dirs' = dirs
           \/ removing' = removing /\ \E id \in IDs : ids = {id} /\ dirs' = [dirs EXCEPT ![id] = NoTree]
        /\ treeDB' = treeDB /\ updates' = updates /\ dbRestarts' = dbRestarts
  <2>1. ASSUME NEW id \in WorkingIDs \cup Addresses, Del(id)
        PROVE  /\ {id} \in SUBSET (WorkingIDs \cup Addresses)
               /\ refs' = refs \ {id} /\ Forget({id})
               /\ removing' = removing \cup {id} /\ dirs' = dirs
               /\ treeDB' = treeDB /\ updates' = updates /\ dbRestarts' = dbRestarts
    BY <2>1 DEF Del
  <2>2. ASSUME NEW id \in WorkingIDs, CleanupWorkingCensus(id)
        PROVE  /\ {id} \in SUBSET (WorkingIDs \cup Addresses) /\ id \in IDs
               /\ refs' = refs \ {id} /\ Forget({id})
               /\ removing' = removing /\ dirs' = [dirs EXCEPT ![id] = NoTree]
               /\ treeDB' = treeDB /\ updates' = updates /\ dbRestarts' = dbRestarts
    BY <2>2 DEF CleanupWorkingCensus, IDs
  <2>3. ASSUME NEW old \in SUBSET WorkingIDs, PurgeWorkingCensuses(old)
        PROVE  /\ old \in SUBSET (WorkingIDs \cup Addresses)
               /\ refs' = refs \ old /\ Forget(old)
               /\ removing' = removing \cup old /\ dirs' = dirs
               /\ treeDB' = treeDB /\ updates' = updates /\ dbRestarts' = dbRestarts
    BY <2>3 DEF PurgeWorkingCensuses
  <2> QED
    BY <2>1, <2>2, <2>3
<1>2. \A r \in Roots : r \notin ids /\ r \in IDs
  BY RootIsTree, CensusDBAssumption
<1>3. loadedCensus' \in [IDs -> [in : {"no", "dir", "db"}, root : Trees]]
      /\ \A id \in IDs \ ids : loadedCensus'[id] = loadedCensus[id]
  BY <1>1, CensusDBAssumption DEF Forget, CdbInv, CdbTypeOK, NotLoaded, Trees
<1>4. CdbTypeOK'
  BY <1>1, <1>3 DEF CdbInv, CdbTypeOK
<1>5. DirsAreOwned'
  BY <1>1 DEF CdbInv, CdbTypeOK, DirsAreOwned
<1>6. \A r \in Roots : RootStored(r)' /\ RootLoaded(r)'
  BY <1>1, <1>2, <1>3, RootsUntouched DEF CdbInv, CdbTypeOK
<1> QED
  BY <1>4, <1>5, <1>6 DEF CdbInv

\* PublishCensus renames the directory of a working census to its own root.
LEMMA PublishStep ==
    ASSUME CdbInv, NEW id \in WorkingIDs, NEW q \in Roots, PublishCensus(id, q)
    PROVE  CdbInv'
<1>1. id \in IDs /\ q \in IDs /\ id # q /\ id \notin Roots /\ q \in Trees /\ q # NoTree
  BY RootIsTree, CensusDBAssumption DEF IDs
<1>2. /\ refs' = (refs \ {id}) \cup {q}
      /\ dirs' = [dirs EXCEPT ![q] = q, ![id] = NoTree]
      /\ loadedCensus' = [loadedCensus EXCEPT ![id] = NotLoaded,
                                              ![q] = [in |-> "dir", root |-> q]]
      /\ UNCHANGED <<treeDB, updates, removing, dbRestarts>>
  BY DEF PublishCensus
<1>3. NotLoaded \in [in : {"no", "dir", "db"}, root : Trees]
  BY CensusDBAssumption DEF NotLoaded, Trees
<1>4. CdbTypeOK'
  BY <1>1, <1>2, <1>3 DEF CdbInv, CdbTypeOK
<1>5. DirsAreOwned'
  BY <1>1, <1>2 DEF CdbInv, CdbTypeOK, DirsAreOwned
<1>6. ASSUME NEW r \in Roots PROVE RootStored(r)' /\ RootLoaded(r)'
  <2>1. CASE r = q
    BY <1>1, <1>2, <2>1 DEF CdbInv, CdbTypeOK, RootStored, RootLoaded
  <2>2. CASE r # q
    BY <1>1, <1>2, <1>6, <2>2, RootIsTree DEF CdbInv, CdbTypeOK, RootStored, RootLoaded
  <2> QED
    BY <2>1, <2>2
<1> QED
  BY <1>4, <1>5, <1>6 DEF CdbInv

\* A new root for a loaded census leaves what is loaded where it is.
LEMMA NewRoot ==
    ASSUME CdbTypeOK, NEW id \in IDs, NEW t \in Trees,
           loadedCensus' = [loadedCensus EXCEPT ![id].root = t]
    PROVE  /\ loadedCensus' \in [IDs -> [in : {"no", "dir", "db"}, root : Trees]]
           /\ \A i \in IDs : loadedCensus'[i].in = loadedCensus[i].in
<1> DEFINE c == [loadedCensus[id] EXCEPT !.root = t]
<1>1. c \in [in : {"no", "dir", "db"}, root : Trees] /\ c.in = loadedCensus[id].in
  BY DEF CdbTypeOK
<1>2. loadedCensus' = [loadedCensus EXCEPT ![id] = c]
  OBVIOUS
<1> HIDE DEF c
<1> QED
  BY <1>1, <1>2 DEF CdbTypeOK

\* Insert and the root update worker change the tree and the root of a working
\* census, RemoveDir a directory that nobody under a root has.
LEMMA BackgroundSteps ==
    ASSUME CdbInv,
           (\E id \in WorkingIDs : Insert(id)) \/ UpdateRoot \/ \E id \in IDs : RemoveDir(id)
    PROVE  CdbInv'
<1>1. ASSUME NEW id \in WorkingIDs, Insert(id) PROVE CdbInv'
  <2>1. id \in IDs /\ id \notin Roots /\ dirs[id] \in Trees /\ dirs[id] + 1 \in Trees
    BY <1>1, CensusDBAssumption DEF Insert, IDs, CdbInv, CdbTypeOK, Trees
  <2>2. [id |-> id, root |-> dirs[id] + 1] \in [id : WorkingIDs, root : Trees]
    BY <2>1
  <2>3. CdbTypeOK'
    <3>1. loadedCensus' \in [IDs -> [in : {"no", "dir", "db"}, root : Trees]]
      BY <1>1, <2>1, NewRoot DEF Insert, CdbInv
    <3> DEFINE U == [id : WorkingIDs, root : Trees]
    <3>2. updates \in Seq(U) /\ [id |-> id, root |-> dirs[id] + 1] \in U
      BY <2>2 DEF CdbInv, CdbTypeOK
    <3>3. updates' = Append(updates, [id |-> id, root |-> dirs[id] + 1]) \/ updates' = updates
      BY <1>1 DEF Insert
    <3> HIDE DEF U
    <3>4. updates' \in Seq(U)
      BY <3>2, <3>3
    <3>5. dirs' \in [IDs -> Trees \cup {NoTree}]
      BY <1>1, <2>1 DEF Insert, CdbInv, CdbTypeOK
    <3> QED
      BY <1>1, <3>1, <3>4, <3>5 DEF Insert, CdbInv, CdbTypeOK, U
  <2>4. DirsAreOwned'
    BY <1>1, <2>1 DEF Insert, CdbInv, CdbTypeOK, DirsAreOwned
  <2>5. \A r \in Roots : RootStored(r)' /\ RootLoaded(r)'
    BY <1>1, <2>1, RootsUntouched, RootIsTree DEF Insert, CdbInv, CdbTypeOK
  <2> QED
    BY <2>3, <2>4, <2>5 DEF CdbInv
<1>2. CASE UpdateRoot
  <2> DEFINE u == Head(updates)
  <2>1. u \in [id : WorkingIDs, root : Trees] /\ updates' \in Seq([id : WorkingIDs, root : Trees])
    <3> DEFINE U == [id : WorkingIDs, root : Trees]
    <3>1. updates \in Seq(U) /\ updates # <<>> /\ updates' = Tail(updates)
      BY <1>2 DEF UpdateRoot, CdbInv, CdbTypeOK
    <3> HIDE DEF U
    <3>2. Head(updates) \in U /\ Tail(updates) \in Seq(U)
      BY <3>1
    <3> QED
      BY <3>1, <3>2 DEF U
  <2>2. u.id \in IDs /\ u.root \in Trees /\ u.id \notin Roots
    BY <2>1, CensusDBAssumption DEF IDs
  <2> HIDE DEF u
  <2>3. loadedCensus' = loadedCensus \/ loadedCensus' = [loadedCensus EXCEPT ![u.id].root = u.root]
    BY <1>2 DEF UpdateRoot, u
  <2>4. loadedCensus' \in [IDs -> [in : {"no", "dir", "db"}, root : Trees]]
        /\ \A id \in IDs : loadedCensus'[id].in = loadedCensus[id].in
    BY <2>2, <2>3, NewRoot DEF CdbInv, CdbTypeOK
  <2>5. UNCHANGED <<refs, dirs, treeDB, removing, dbRestarts>>
    BY <1>2 DEF UpdateRoot
  <2>6. CdbTypeOK' /\ DirsAreOwned'
    BY <2>1, <2>4, <2>5 DEF CdbInv, CdbTypeOK, DirsAreOwned
  <2>7. \A r \in Roots : RootStored(r)' /\ RootLoaded(r)'
    BY <2>4, <2>5, RootsUntouched, RootIsTree
  <2> QED
    BY <2>6, <2>7 DEF CdbInv
<1>3. ASSUME NEW id \in IDs, RemoveDir(id) PROVE CdbInv'
  <2>1. id \notin Roots
    BY <1>3, CensusDBAssumption DEF RemoveDir, CdbInv, CdbTypeOK
  <2>2. CdbTypeOK' /\ DirsAreOwned'
    BY <1>3 DEF RemoveDir, CdbInv, CdbTypeOK, DirsAreOwned
  <2>3. \A r \in Roots : RootStored(r)' /\ RootLoaded(r)'
    BY <1>3, <2>1, RootsUntouched, RootIsTree DEF RemoveDir, CdbInv, CdbTypeOK
  <2> QED
    BY <2>2, <2>3 DEF CdbInv
<1> QED
  BY <1>1, <1>2, <1>3

\* A restart forgets what was in memory, and perhaps the directories.
LEMMA RestartStep ==
    ASSUME CdbInv, RestartDB
    PROVE  CdbInv'
<1>1. /\ dbRestarts' \in Nat /\ dbRestarts' > 0
      /\ loadedCensus' = [id \in IDs |-> NotLoaded]
      /\ dirs' = dirs \/ dirs' = [id \in IDs |-> NoTree]
      /\ updates' = <<>> /\ removing' = {} /\ UNCHANGED <<refs, treeDB>>
  BY DEF RestartDB, CdbInv, CdbTypeOK
<1>2. NotLoaded \in [in : {"no", "dir", "db"}, root : Trees] /\ NotLoaded.in = "no"
  BY CensusDBAssumption DEF NotLoaded, Trees
<1>3. CdbTypeOK' /\ DirsAreOwned'
  BY <1>1, <1>2 DEF CdbInv, CdbTypeOK, DirsAreOwned
<1>4. ASSUME NEW r \in Roots PROVE RootStored(r)' /\ RootLoaded(r)'
  BY <1>1, <1>2, <1>4, RootIsTree DEF CdbInv, CdbTypeOK, RootStored, RootLoaded
<1> QED
  BY <1>3, <1>4 DEF CdbInv

\* Every step keeps the invariant.
LEMMA CdbStep == CdbInv /\ [CdbNext]_cdbVars => CdbInv'
<1> SUFFICES ASSUME CdbInv, [CdbNext]_cdbVars PROVE CdbInv'
  OBVIOUS
<1>1. CASE UNCHANGED cdbVars
  BY <1>1 DEF cdbVars, CdbInv, CdbTypeOK, DirsAreOwned, RootStored, RootLoaded
<1>2. CASE CdbNext
  BY <1>2, NewStep, LoadStep, ImportStep, ImportByAddressStep, RemovalSteps, PublishStep,
     BackgroundSteps, RestartStep DEF CdbNext
<1> QED
  BY <1>1, <1>2

\* The invariant holds in every state of the census database.
LEMMA CdbAlways == CdbSpec => []CdbInv
<1>1. CdbInit => CdbInv
  BY CdbInitially
<1>2. CdbInv /\ [CdbNext]_cdbVars => CdbInv'
  BY CdbStep
<1> QED
  BY <1>1, <1>2, PTL DEF CdbSpec

\* A census found by its root has that root, in memory and in the database,
\* whatever was imported, published, loaded or removed in the meantime; only a
\* restart that loses the directories can leave an empty tree in its place.
THEOREM CensusesByRoot == CdbSpec => []RootIsTheRoot
<1>1. CdbInv => RootIsTheRoot
  BY RootIsTree DEF CdbInv, CdbTypeOK, RootStored, RootLoaded, RootIsTheRoot, IsLoaded, TreeOf
<1> QED
  BY <1>1, CdbAlways, PTL

\* Until a restart, every tree directory belongs to a stored census or waits
\* for the goroutine that removes it.
THEOREM NoDirectoryLeftBehind == CdbSpec => []DirsAreOwned
<1>1. CdbInv => DirsAreOwned
  BY DEF CdbInv
<1> QED
  BY <1>1, CdbAlways, PTL

----------------------------------------------------------------------------
(* CensusDownloader: the inductive invariant                               *)

DownloadJobs == [census : Censuses \cup {"none"}, root : Int, from : Int]
Results == {"idle", "import", "ok", "error", "gone"}
Downloads == [job : DownloadJobs, attempt : Nat, result : Results]

DlTypeOK ==
    /\ request \in [Requests -> {"new", "sending", "load", "status"} \cup Answers]
    /\ dlQueue \in Seq(DownloadJobs)
    /\ download \in [Downloaders -> Downloads]
    /\ censusStatus = [c \in Censuses |-> censusStatus[c]]
    /\ onchainCensuses.root \in Int /\ onchainCensuses.from \in Int /\ onchainEvents \in Nat
    /\ tree \in [Censuses -> Int]

StaticStored == tree["static"] = StaticRoot

\* A successful import of the static census, and the status that records one,
\* are evidence that it is stored; only the importer writes the tree, and never
\* with another root.
Evidence ==
    /\ tree["static"] \in {Absent, StaticRoot}
    /\ censusStatus["static"].complete => StaticStored
    /\ \A w \in Downloaders :
        download[w].job.census = "static" /\ download[w].result = "ok" => StaticStored

DlInv == DlTypeOK /\ Evidence /\ OkMeansStored

\* The downloader starts without requests, jobs and trees.
LEMMA DlInitially == DlInit => DlInv
<1> SUFFICES ASSUME DlInit PROVE DlInv
  OBVIOUS
<1>1. NoDownload \in Downloads
      /\ NoDownload.result = "idle"
  BY DEF NoDownload, NoJob, DownloadJobs, Downloads, Results
<1>2. censusStatus["static"] = NoStatus /\ tree["static"] = Absent
  BY DEF DlInit, Censuses
<1>3. DlTypeOK
  BY <1>1, CensusDownloaderAssumption DEF DlInit, DlTypeOK, Censuses, Unfetched, Absent
<1>4. Evidence
  BY <1>1, <1>2 DEF DlInit, Evidence, NoStatus
<1>5. OkMeansStored
  BY DEF DlInit, OkMeansStored
<1> QED
  BY <1>3, <1>4, <1>5 DEF DlInv

\* A step that leaves the tree of the static census, and adds no evidence.
LEMMA NoNewEvidence ==
    ASSUME DlInv, tree' = tree,
           censusStatus'["static"].complete => censusStatus["static"].complete,
           \A w \in Downloaders :
                download'[w].job.census = "static" /\ download'[w].result = "ok" =>
                    download[w].job.census = "static" /\ download[w].result = "ok"
    PROVE  Evidence'
BY DEF DlInv, Evidence, StaticStored

\* The steps of requests up to the poll, of the tickers and of the contract.
LEMMA RequestSteps ==
    ASSUME DlInv,
           \/ \E r \in Requests : DownloadCensus(r) \/ SendJob(r) \/ WaitTimeout(r)
           \/ CheckOnchainCensuses \/ CensusEvent \/ StopDownloader
           \/ \E c \in Censuses : Expire(c)
    PROVE  DlInv'
<1>1. ASSUME NEW r \in Requests, DownloadCensus(r) PROVE DlInv'
  <2>1. /\ request' \in [Requests -> {"new", "sending", "load", "status"} \cup Answers]
        /\ \A q \in Requests : request'[q] = "ok" => request[q] = "ok"
    BY <1>1 DEF DownloadCensus, DlInv, DlTypeOK, Answers
  <2>2. onchainCensuses'.root \in Int /\ onchainCensuses'.from \in Int
    BY <1>1 DEF DownloadCensus, DlInv, DlTypeOK, Fetched
  <2>3. UNCHANGED <<dlQueue, download, censusStatus, onchainEvents, tree>>
    BY <1>1 DEF DownloadCensus
  <2> QED
    BY <2>1, <2>2, <2>3, NoNewEvidence DEF DlInv, DlTypeOK, OkMeansStored
<1>2. ASSUME NEW r \in Requests, SendJob(r) PROVE DlInv'
  <2>1. /\ request' \in [Requests -> {"new", "sending", "load", "status"} \cup Answers]
        /\ \A q \in Requests : request'[q] = "ok" => request[q] = "ok"
    BY <1>2 DEF SendJob, DlInv, DlTypeOK, Answers
  <2> DEFINE job == [census |-> Wants[r],
                     root |-> IF Wants[r] = "dynamic" THEN onchainCensuses.root ELSE StaticRoot,
                     from |-> 0]
  <2>2. job \in DownloadJobs
    BY CensusDownloaderAssumption DEF DownloadJobs, DlInv, DlTypeOK, StaticRoot
  <2>3. dlQueue' \in Seq(DownloadJobs)
    <3>1. dlQueue' = Append(dlQueue, job) \/ dlQueue' = dlQueue
      BY <1>2 DEF SendJob
    <3>2. dlQueue \in Seq(DownloadJobs)
      BY DEF DlInv, DlTypeOK
    <3> HIDE DEF job
    <3> QED
      BY <2>2, <3>1, <3>2
  <2>4. UNCHANGED <<download, censusStatus, onchainCensuses, onchainEvents, tree>>
    BY <1>2 DEF SendJob
  <2> QED
    BY <2>1, <2>3, <2>4, NoNewEvidence DEF DlInv, DlTypeOK, OkMeansStored
<1>3. ASSUME NEW r \in Requests, WaitTimeout(r) PROVE DlInv'
  <2>1. /\ request' \in [Requests -> {"new", "sending", "load", "status"} \cup Answers]
        /\ \A q \in Requests : request'[q] = "ok" => request[q] = "ok"
    BY <1>3 DEF WaitTimeout, Answer, DlInv, DlTypeOK, Answers
  <2>2. UNCHANGED <<dlQueue, download, censusStatus, onchainCensuses, onchainEvents, tree>>
    BY <1>3 DEF WaitTimeout
  <2> QED
    BY <2>1, <2>2, NoNewEvidence DEF DlInv, DlTypeOK, OkMeansStored
<1>4. CASE CheckOnchainCensuses
  <2>1. [census |-> "dynamic", root |-> onchainEvents, from |-> onchainCensuses.from]
            \in DownloadJobs
    BY DEF DownloadJobs, Censuses, DlInv, DlTypeOK
  <2>2. dlQueue' \in Seq(DownloadJobs)
    BY <1>4, <2>1 DEF CheckOnchainCensuses, DlInv, DlTypeOK
  <2>3. /\ onchainCensuses'.root \in Int /\ onchainCensuses'.from \in Int
        /\ UNCHANGED <<request, download, onchainEvents, tree>>
    BY <1>4 DEF CheckOnchainCensuses, Fetched, DlInv, DlTypeOK
  <2>4. /\ censusStatus' = [c \in Censuses |-> censusStatus'[c]]
        /\ censusStatus'["static"] = censusStatus["static"]
    BY <1>4 DEF CheckOnchainCensuses, Censuses, DlInv, DlTypeOK
  <2> QED
    BY <2>2, <2>3, <2>4, NoNewEvidence DEF DlInv, DlTypeOK, OkMeansStored
<1>5. CASE CensusEvent \/ StopDownloader
  <2>1. /\ onchainEvents' \in Nat
        /\ UNCHANGED <<request, dlQueue, download, censusStatus, onchainCensuses, tree>>
    BY <1>5 DEF CensusEvent, StopDownloader, DlInv, DlTypeOK
  <2> QED
    BY <2>1, NoNewEvidence DEF DlInv, DlTypeOK, OkMeansStored
<1>6. ASSUME NEW c \in Censuses, Expire(c) PROVE DlInv'
  <2>1. /\ censusStatus' = [d \in Censuses |-> censusStatus'[d]]
        /\ censusStatus'["static"] = censusStatus["static"] \/ censusStatus'["static"] = NoStatus
    BY <1>6 DEF Expire, Censuses, DlInv, DlTypeOK
  <2>2. UNCHANGED <<request, dlQueue, download, onchainCensuses, onchainEvents, tree>>
    BY <1>6 DEF Expire
  <2> QED
    BY <2>1, <2>2, NoNewEvidence DEF DlInv, DlTypeOK, OkMeansStored, NoStatus
<1> QED
  BY <1>1, <1>2, <1>3, <1>4, <1>5, <1>6

\* The two halves of a poll answer ok when the tree is there, or on a complete
\* status, which is removed.
LEMMA PollSteps ==
    ASSUME DlInv, NEW r \in Requests, PollLoad(r) \/ PollStatus(r)
    PROVE  DlInv'
<1>1. CASE PollLoad(r)
  <2>1. UNCHANGED <<dlQueue, download, censusStatus, onchainCensuses, onchainEvents, tree>>
    BY <1>1 DEF PollLoad
  <2>2. request' = [request EXCEPT ![r] = IF tree[Wants[r]] # Absent THEN "ok" ELSE "status"]
    BY <1>1 DEF PollLoad, Answer
  <2>3. DlTypeOK'
    BY <2>1, <2>2 DEF DlInv, DlTypeOK, Answers
  <2>4. OkMeansStored'
    BY <2>1, <2>2 DEF DlInv, DlTypeOK, OkMeansStored, Evidence
  <2> QED
    BY <2>1, <2>3, <2>4, NoNewEvidence DEF DlInv
<1>2. CASE PollStatus(r)
  <2>1. UNCHANGED <<dlQueue, download, onchainCensuses, onchainEvents, tree>>
    BY <1>2 DEF PollStatus
  <2>2. /\ request' \in [Requests -> {"new", "sending", "load", "status"} \cup Answers]
        /\ \A q \in Requests : q # r => request'[q] = request[q]
        /\ request'[r] = "ok" => censusStatus[Wants[r]].complete
    BY <1>2 DEF PollStatus, Answer, DlInv, DlTypeOK, Answers
  <2>3. censusStatus' = censusStatus \/ censusStatus' = [censusStatus EXCEPT ![Wants[r]] = NoStatus]
    BY <1>2 DEF PollStatus
  <2>4. /\ censusStatus' = [d \in Censuses |-> censusStatus'[d]]
        /\ censusStatus'["static"] = censusStatus["static"] \/ censusStatus'["static"] = NoStatus
    BY <2>3 DEF Censuses, DlInv, DlTypeOK
  <2>5. Evidence'
    BY <2>1, <2>4, NoNewEvidence DEF NoStatus
  <2>6. OkMeansStored'
    BY <2>1, <2>2 DEF DlInv, Evidence, OkMeansStored, StaticStored
  <2> QED
    BY <2>1, <2>2, <2>4, <2>5, <2>6 DEF DlInv, DlTypeOK
<1> QED
  BY <1>1, <1>2

\* A worker takes a job; a status that is new is not complete.
LEMMA TakeDownloadStep ==
    ASSUME DlInv, NEW w \in Downloaders, TakeDownload(w)
    PROVE  DlInv'
<1> DEFINE job == Head(dlQueue)
           taken == [download[w] EXCEPT !.job = job, !.result = "import"]
           fresh == [NoStatus EXCEPT !.there = TRUE]
<1>1. job \in DownloadJobs /\ dlQueue' \in Seq(DownloadJobs)
  BY DEF TakeDownload, DlInv, DlTypeOK
<1>2. UNCHANGED <<request, onchainCensuses, onchainEvents, tree>>
  BY DEF TakeDownload
<1>3. \/ download' = download /\ censusStatus' = censusStatus
      \/ /\ download' = [download EXCEPT ![w] = taken]
         /\ censusStatus' = [censusStatus EXCEPT ![job.census] = fresh]
  BY DEF TakeDownload
<1>4. taken \in Downloads /\ taken.result = "import"
  BY <1>1 DEF DlInv, DlTypeOK, Downloads, Results
<1>5. fresh.complete = FALSE
  BY DEF NoStatus
<1> HIDE DEF job, taken, fresh
<1>6. /\ censusStatus' = [d \in Censuses |-> censusStatus'[d]]
      /\ censusStatus'["static"] = censusStatus["static"] \/ censusStatus'["static"] = fresh
  BY <1>3 DEF Censuses, DlInv, DlTypeOK
<1>7. /\ download' \in [Downloaders -> Downloads]
      /\ \A v \in Downloaders : download'[v] = download[v] \/ download'[v].result = "import"
  BY <1>3, <1>4 DEF DlInv, DlTypeOK
<1>8. Evidence'
  BY <1>2, <1>5, <1>6, <1>7, NoNewEvidence
<1> QED
  BY <1>1, <1>2, <1>6, <1>7, <1>8 DEF DlInv, DlTypeOK, OkMeansStored

\* One attempt: the dump is stored before it is reported, events go to the
\* other census, and a failed attempt stores nothing.
LEMMA ImportAttemptStep ==
    ASSUME DlInv, NEW w \in Downloaders, ImportAttempt(w)
    PROVE  DlInv'
<1>1. /\ UNCHANGED <<request, dlQueue, censusStatus, onchainCensuses, onchainEvents>>
      /\ \/ ImportJSON(w)
         \/ \E seen \in 0..onchainEvents : ImportEvents(w, seen)
         \/ \E how \in {"error", "gone"} : ImportFails(w, how)
  BY DEF ImportAttempt
<1>2. download[w] \in Downloads
      /\ download[w].job \in DownloadJobs /\ onchainEvents \in Nat
  BY DEF DlInv, DlTypeOK, Downloads
<1>3. SUFFICES
        /\ download' \in [Downloaders -> Downloads]
        /\ tree' \in [Censuses -> Int]
        /\ tree'["static"] = tree["static"] \/ tree'["static"] = StaticRoot
        /\ \A v \in Downloaders : download'[v] = download[v] \/
                (download'[v].job.census = "static" /\ download'[v].result = "ok" =>
                    tree'["static"] = StaticRoot)
  BY <1>1 DEF DlInv, DlTypeOK, Evidence, OkMeansStored, StaticStored
<1>4. CASE ImportJSON(w)
  <2>1. [download[w] EXCEPT !.result = "ok"] \in Downloads
    BY <1>2 DEF Downloads, Results
  <2>2. download' \in [Downloaders -> Downloads]
    BY <1>4, <2>1 DEF ImportJSON, DlInv, DlTypeOK
  <2>3. tree' \in [Censuses -> Int] /\ tree'["static"] = StaticRoot
    BY <1>4 DEF ImportJSON, DlInv, DlTypeOK, Censuses, StaticRoot
  <2> QED
    BY <2>2, <2>3
<1>5. ASSUME NEW seen \in 0..onchainEvents, ImportEvents(w, seen)
      PROVE  /\ download' \in [Downloaders -> Downloads]
             /\ tree' \in [Censuses -> Int]
             /\ tree'["static"] = tree["static"]
             /\ \A v \in Downloaders : download'[v] = download[v]
                    \/ download'[v].job.census = "dynamic"
  <2>1. seen \in Int
    BY <1>2, <1>5
  <2>2. CASE seen = download[w].job.from
    <3>1. download' = [download EXCEPT ![w].result = "ok"] /\ tree' = tree
          /\ download[w].job.census = "dynamic"
      BY <1>5, <2>2 DEF ImportEvents
    <3>2. [download[w] EXCEPT !.result = "ok"] \in Downloads
          /\ [download[w] EXCEPT !.result = "ok"].job = download[w].job
      BY <1>2 DEF Downloads, Results
    <3> QED
      BY <3>1, <3>2 DEF DlInv, DlTypeOK
  <2>3. CASE seen # download[w].job.from
    <3> DEFINE stored == IF tree["dynamic"] = Absent THEN 0 ELSE tree["dynamic"]
    <3>1. stored \in Int
      BY DEF DlInv, DlTypeOK, Censuses
    <3>2. PICK t \in {seen, stored, OtherRoot} :
            /\ tree' = [tree EXCEPT !["dynamic"] = t]
            /\ download[w].job.census = "dynamic"
            /\ \E result \in {"ok", "error"}, from \in {seen, 0} :
                download' = [download EXCEPT ![w].result = result, ![w].job.from = from]
      BY <1>5, <2>3 DEF ImportEvents
    <3>3. PICK result \in {"ok", "error"}, from \in {seen, 0} :
                download' = [download EXCEPT ![w].result = result, ![w].job.from = from]
      BY <3>2
    <3>4. t \in Int
      BY <2>1, <3>1, <3>2 DEF OtherRoot
    <3>5. tree' \in [Censuses -> Int] /\ tree'["static"] = tree["static"]
      BY <3>2, <3>4 DEF Censuses, DlInv, DlTypeOK
    <3> DEFINE j == [download[w].job EXCEPT !.from = from]
               d == [download[w] EXCEPT !.result = result, !.job = j]
    <3>6. j \in DownloadJobs /\ j.census = "dynamic"
      BY <1>2, <2>1, <3>2, <3>3 DEF DownloadJobs
    <3>7. d \in Downloads /\ d.job.census = "dynamic"
      BY <1>2, <3>3, <3>6 DEF Downloads, Results
    <3>8. download' = [download EXCEPT ![w] = d]
      BY <1>2, <3>3 DEF DlInv, DlTypeOK
    <3> QED
      BY <3>5, <3>7, <3>8 DEF DlInv, DlTypeOK
  <2> QED
    BY <2>2, <2>3
<1>6. ASSUME NEW how \in {"error", "gone"}, ImportFails(w, how)
      PROVE  /\ download' \in [Downloaders -> Downloads]
             /\ tree' = tree
             /\ \A v \in Downloaders : download'[v] = download[v] \/ download'[v].result # "ok"
  <2> DEFINE j == [download[w].job EXCEPT !.from = 0]
             d == [download[w] EXCEPT !.result = how, !.job = j]
  <2>1. j \in DownloadJobs
    BY <1>2 DEF DownloadJobs
  <2>2. d \in Downloads /\ d.result = how
    BY <1>2, <1>6, <2>1 DEF Downloads, Results
  <2>3. download' = [download EXCEPT ![w] = d] /\ tree' = tree
    BY <1>2, <1>6 DEF ImportFails, DlInv, DlTypeOK
  <2> QED
    BY <1>6, <2>2, <2>3 DEF DlInv, DlTypeOK
<1> QED
  BY <1>1, <1>4, <1>5, <1>6 DEF DlInv, DlTypeOK

\* updateInternalStatus makes a status complete only after an import that
\* succeeded.
LEMMA ReportAttemptStep ==
    ASSUME DlInv, NEW w \in Downloaders, ReportAttempt(w)
    PROVE  DlInv'
<1> DEFINE d == download[w]
           again == [d EXCEPT !.attempt = d.attempt + 1, !.result = "import"]
           s == StatusAfter(censusStatus[d.job.census], d.result)
<1>1. d \in Downloads /\ d.job \in DownloadJobs
  BY DEF DlInv, DlTypeOK, Downloads
<1>2. UNCHANGED <<request, dlQueue, onchainEvents, tree>>
  BY DEF ReportAttempt
<1>3. \/ download' = [download EXCEPT ![w] = again]
      \/ download' = [download EXCEPT ![w] = NoDownload]
  BY DEF ReportAttempt
<1>4. censusStatus' = [censusStatus EXCEPT ![d.job.census] = s]
  BY DEF ReportAttempt
<1>5. onchainCensuses' = onchainCensuses
      \/ (onchainCensuses'.root = d.job.root /\ onchainCensuses'.from = d.job.from)
  BY DEF ReportAttempt
<1>6. onchainCensuses'.root \in Int /\ onchainCensuses'.from \in Int
  BY <1>1, <1>5 DEF DlInv, DlTypeOK, DownloadJobs
<1>7. again \in Downloads /\ again.result = "import"
  <2>1. d.attempt + 1 \in Nat /\ "import" \in Results
    BY <1>1 DEF Downloads, Results
  <2> HIDE DEF d
  <2> QED
    BY <1>1, <2>1 DEF Downloads
<1>8. NoDownload \in Downloads
      /\ NoDownload.result = "idle"
  BY DEF NoDownload, NoJob, DownloadJobs, Downloads, Results
<1>9. s.complete => d.result = "ok" \/ censusStatus[d.job.census].complete
  BY DEF StatusAfter
<1> HIDE DEF again, s
<1>10. /\ download' \in [Downloaders -> Downloads]
       /\ \A v \in Downloaders : download'[v] = download[v] \/ download'[v].result # "ok"
  BY <1>3, <1>7, <1>8 DEF DlInv, DlTypeOK
<1>11. /\ censusStatus' = [c \in Censuses |-> censusStatus'[c]]
       /\ \/ censusStatus'["static"] = censusStatus["static"]
          \/ d.job.census = "static" /\ censusStatus'["static"] = s
  BY <1>4 DEF Censuses, DlInv, DlTypeOK
<1>12. censusStatus'["static"].complete => StaticStored
  BY <1>9, <1>11 DEF DlInv, Evidence
<1>13. Evidence'
  BY <1>2, <1>10, <1>12 DEF DlInv, Evidence, StaticStored
<1> QED
  BY <1>2, <1>6, <1>10, <1>11, <1>13 DEF DlInv, DlTypeOK, OkMeansStored

\* Every step keeps the invariant.
LEMMA DlStep == DlInv /\ [DlNext]_dlVars => DlInv'
<1> SUFFICES ASSUME DlInv, [DlNext]_dlVars PROVE DlInv'
  OBVIOUS
<1>1. CASE UNCHANGED dlVars
  BY <1>1 DEF dlVars, DlInv, DlTypeOK, Evidence, StaticStored, OkMeansStored
<1>2. CASE DlNext
  BY <1>2, RequestSteps, PollSteps, TakeDownloadStep, ImportAttemptStep, ReportAttemptStep
     DEF DlNext
<1> QED
  BY <1>1, <1>2

\* OnCensusDownloaded reports success for a static census only when its tree is
\* stored under its root, for any number of requests and download workers.
THEOREM DownloadedIsStored == DlSpec => []OkMeansStored
<1>1. DlInit => DlInv
  BY DlInitially
<1>2. DlInv /\ [DlNext]_dlVars => DlInv'
  BY DlStep
<1>3. DlInv => OkMeansStored
  BY DEF DlInv
<1> QED
  BY <1>1, <1>2, <1>3, PTL DEF DlSpec


----------------------------------------------------------------------------
(* Artifacts: the inductive invariant                                      *)

CacheFiles == {"definition", "provingKey", "verifyingKey"}
Steps == {"idle", "check", "download", "copy", "hash", "rename", "reread", "ready", "failed"}
LoaderStates == [pc : Steps, load : BOOLEAN, at : 1..3, got : Seq({"expected"})]

ArtTypeOK ==
    /\ cache \in [CacheFiles -> {NoFile} \cup Contents]
    /\ temp \in [Loaders -> {NoFile} \cup Contents]
    /\ loader \in [Loaders -> LoaderStates]

\* The artifacts that a loader has gone past are right; the temporary file that
\* it renames is right; so is the file that it reads back.
LoaderOK(l) ==
    /\ \A i \in 1..3 : i < loader[l].at => cache[ArtifactKinds[i]] = "expected"
    /\ At(l, "rename") => temp[l] = "expected"
    /\ At(l, "reread") => cache[Kind(l)] = "expected"
    /\ At(l, "ready") => cache[ArtifactKinds[3]] = "expected" /\ loader[l].at = 3

ArtInv == ArtTypeOK /\ \A l \in Loaders : LoaderOK(l)

\* The three artifacts.
LEMMA ArtifactKindsAre ==
    /\ Len(ArtifactKinds) = 3 /\ DOMAIN ArtifactKinds = 1..3
    /\ ArtifactKinds \in Seq(CacheFiles)
    /\ ArtifactKinds[1] = "definition" /\ ArtifactKinds[2] = "provingKey"
    /\ ArtifactKinds[3] = "verifyingKey"
    /\ \A i \in 1..3 : ArtifactKinds[i] \in CacheFiles
<1>1. /\ Len(ArtifactKinds) = 3 /\ DOMAIN ArtifactKinds = 1..3
      /\ ArtifactKinds \in Seq(CacheFiles)
      /\ ArtifactKinds[1] = "definition" /\ ArtifactKinds[2] = "provingKey"
      /\ ArtifactKinds[3] = "verifyingKey"
  BY DEF ArtifactKinds, CacheFiles
<1>2. \A i \in 1..3 : ArtifactKinds[i] \in CacheFiles
  BY <1>1 DEF CacheFiles
<1> QED
  BY <1>1, <1>2

\* Whatever is in the cache, no loader has taken anything from it yet.
LEMMA ArtInitially == ArtInit => ArtInv
<1> SUFFICES ASSUME ArtInit PROVE ArtInv
  OBVIOUS
<1>1. {ArtifactKinds[i] : i \in DOMAIN ArtifactKinds} = CacheFiles
  BY ArtifactKindsAre DEF CacheFiles
<1>2. Idle \in LoaderStates /\ Idle.at = 1 /\ Idle.pc = "idle"
  BY DEF Idle, LoaderStates, Steps
<1>3. ArtTypeOK
  BY <1>1, <1>2 DEF ArtInit, ArtTypeOK
<1>4. ASSUME NEW l \in Loaders PROVE LoaderOK(l)
  BY <1>2 DEF ArtInit, LoaderOK, At
<1> QED
  BY <1>3, <1>4 DEF ArtInv

\* A step of one loader that keeps right files right: what the others have
\* gone past stays right.
LEMMA OthersOK ==
    ASSUME ArtInv, NEW l \in Loaders,
           \A k \in CacheFiles : cache[k] = "expected" => cache'[k] = "expected",
           \A m \in Loaders : m # l => loader'[m] = loader[m] /\ temp'[m] = temp[m]
    PROVE  \A m \in Loaders : m # l => LoaderOK(m)'
<1> SUFFICES ASSUME NEW m \in Loaders, m # l PROVE LoaderOK(m)'
  OBVIOUS
<1>1. loader'[m] = loader[m] /\ temp'[m] = temp[m] /\ loader[m].at \in 1..3
  BY DEF ArtInv, ArtTypeOK, LoaderStates
<1>2. \A i \in 1..3 : ArtifactKinds[i] \in CacheFiles
  BY ArtifactKindsAre
<1> QED
  BY <1>1, <1>2 DEF ArtInv, LoaderOK, At, Kind

\* GoTo changes the step only.
LEMMA GoToIs ==
    ASSUME ArtTypeOK, NEW l \in Loaders, NEW pc \in Steps, GoTo(l, pc)
    PROVE  /\ loader' \in [Loaders -> LoaderStates]
           /\ loader'[l].pc = pc /\ loader'[l].at = loader[l].at
           /\ \A m \in Loaders : m # l => loader'[m] = loader[m]
<1> DEFINE s == [loader[l] EXCEPT !.pc = pc]
<1>1. s \in LoaderStates /\ s.pc = pc /\ s.at = loader[l].at
  BY DEF ArtTypeOK, LoaderStates
<1>2. loader' = [loader EXCEPT ![l] = s]
  BY DEF GoTo
<1> HIDE DEF s
<1> QED
  BY <1>1, <1>2 DEF ArtTypeOK

\* Have moves to the next artifact; content is the expected one when loading.
LEMMA HaveIs ==
    ASSUME ArtTypeOK, NEW l \in Loaders, NEW content, Have(l, content),
           loader[l].load => content = "expected"
    PROVE  /\ loader' \in [Loaders -> LoaderStates]
           /\ loader[l].at = 3 => loader'[l].pc = "ready" /\ loader'[l].at = 3
           /\ loader[l].at # 3 => loader'[l].pc = "check" /\ loader'[l].at = loader[l].at + 1
           /\ \A m \in Loaders : m # l => loader'[m] = loader[m]
<1> DEFINE p == IF loader[l].at = 3 THEN "ready" ELSE "check"
           n == IF loader[l].at = 3 THEN 3 ELSE loader[l].at + 1
           g == IF loader[l].load THEN Append(loader[l].got, content) ELSE loader[l].got
           s == [loader[l] EXCEPT !.pc = p, !.at = n, !.got = g]
<1>1. loader[l] \in LoaderStates /\ loader[l].at \in 1..3 /\ loader[l].got \in Seq({"expected"})
  BY DEF ArtTypeOK, LoaderStates
<1>2. p \in Steps /\ n \in 1..3 /\ g \in Seq({"expected"})
  BY <1>1 DEF Steps
<1>3. loader' = [loader EXCEPT ![l] = s]
  BY <1>1, ArtifactKindsAre DEF Have, ArtTypeOK
<1> HIDE DEF p, n, g
<1>4. s \in LoaderStates /\ s.pc = p /\ s.at = n
  BY <1>1, <1>2 DEF LoaderStates
<1> HIDE DEF s
<1>5. loader' \in [Loaders -> LoaderStates] /\ loader'[l].pc = p /\ loader'[l].at = n
      /\ \A m \in Loaders : m # l => loader'[m] = loader[m]
  BY <1>3, <1>4 DEF ArtTypeOK
<1> QED
  BY <1>5 DEF p, n

----------------------------------------------------------------------------
(* Steps                                                                   *)

\* Start, Request, CopyBody, CopyFails, VerifyDownload and a crash leave the
\* cache alone; only the expected bytes get as far as the rename.
LEMMA QuietSteps ==
    ASSUME ArtInv, NEW l \in Loaders,
           \/ \E load \in BOOLEAN : Start(l, load)
           \/ Request(l) \/ CopyFails(l) \/ VerifyDownload(l) \/ LoaderCrash(l)
           \/ \E content \in Contents : CopyBody(l, content)
    PROVE  ArtInv'
<1>1. \/ \E load \in BOOLEAN : loader' = [loader EXCEPT ![l] = [Idle EXCEPT !.pc = "check", !.load = load]]
      \/ loader' = [loader EXCEPT ![l] = Idle]
      \/ \E pc \in {"failed", "copy", "hash"} : GoTo(l, pc)
      \/ GoTo(l, "rename") /\ temp'[l] = "expected"
  BY DEF Start, Request, CopyFails, VerifyDownload, LoaderCrash, CopyBody, Abandon
<1>2. cache' = cache /\ \/ temp' = temp
                        \/ \E c \in {NoFile} \cup Contents : temp' = [temp EXCEPT ![l] = c]
  BY DEF Start, Request, CopyFails, VerifyDownload, LoaderCrash, CopyBody, Abandon, Contents
<1>3. temp' \in [Loaders -> {NoFile} \cup Contents] /\ \A m \in Loaders : m # l => temp'[m] = temp[m]
  BY <1>2 DEF ArtInv, ArtTypeOK
<1> DEFINE Typed == /\ loader' \in [Loaders -> LoaderStates]
                    /\ \A m \in Loaders : m # l => loader'[m] = loader[m]
<1>4. /\ Typed
      /\ loader'[l].pc \in {"idle", "check", "failed", "copy", "hash"}
            \/ (loader'[l].pc = "rename" /\ temp'[l] = "expected")
      /\ loader'[l].at = 1 \/ loader'[l].at = loader[l].at
  <2>1. ASSUME NEW load \in BOOLEAN,
               loader' = [loader EXCEPT ![l] = [Idle EXCEPT !.pc = "check", !.load = load]]
        PROVE  Typed /\ loader'[l].pc = "check" /\ loader'[l].at = 1
    <3> DEFINE s == [Idle EXCEPT !.pc = "check", !.load = load]
    <3>1. Idle \in LoaderStates /\ Idle.at = 1 /\ "check" \in Steps
      BY DEF Idle, LoaderStates, Steps
    <3>2. s \in LoaderStates /\ s.pc = "check" /\ s.at = 1
      BY <3>1 DEF LoaderStates
    <3> HIDE DEF s
    <3>3. loader' = [loader EXCEPT ![l] = s]
      BY <2>1 DEF s
    <3> QED
      BY <3>2, <3>3 DEF ArtInv, ArtTypeOK
  <2>2. ASSUME loader' = [loader EXCEPT ![l] = Idle]
        PROVE  Typed /\ loader'[l].pc = "idle" /\ loader'[l].at = 1
    BY <2>2 DEF Idle, LoaderStates, Steps, ArtInv, ArtTypeOK
  <2>3. ASSUME NEW pc \in {"failed", "copy", "hash", "rename"}, GoTo(l, pc)
        PROVE  Typed /\ loader'[l].pc = pc /\ loader'[l].at = loader[l].at
    BY <2>3, GoToIs DEF Steps, ArtInv
  <2> QED
    BY <1>1, <2>1, <2>2, <2>3
<1>5. \A m \in Loaders : m # l => LoaderOK(m)'
  BY <1>2, <1>3, <1>4, OthersOK
<1>6. LoaderOK(l)'
  BY <1>2, <1>4 DEF ArtInv, ArtTypeOK, LoaderStates, LoaderOK, At
<1> QED
  BY <1>2, <1>3, <1>4, <1>5, <1>6 DEF ArtInv, ArtTypeOK

\* checkFileHash goes past an artifact whose file has the expected hash.
LEMMA CheckHashStep ==
    ASSUME ArtInv, NEW l \in Loaders, CheckHash(l)
    PROVE  ArtInv'
<1>1. cache' = cache /\ temp' = temp /\ ArtTypeOK /\ loader[l].at \in 1..3 /\ At(l, "check")
  BY DEF CheckHash, ArtInv, ArtTypeOK, LoaderStates
<1>2. CASE cache[Kind(l)] = "expected"
  <2>1. Have(l, "expected")
    BY <1>2 DEF CheckHash
  <2>2. /\ loader' \in [Loaders -> LoaderStates]
        /\ loader[l].at = 3 => loader'[l].pc = "ready" /\ loader'[l].at = 3
        /\ loader[l].at # 3 => loader'[l].pc = "check" /\ loader'[l].at = loader[l].at + 1
        /\ \A m \in Loaders : m # l => loader'[m] = loader[m]
    BY <1>1, <2>1, HaveIs
  <2>3. LoaderOK(l)'
    BY <1>1, <1>2, <2>2 DEF ArtInv, LoaderOK, At, Kind
  <2> QED
    BY <1>1, <2>2, <2>3, OthersOK DEF ArtInv, ArtTypeOK
<1>3. CASE cache[Kind(l)] # "expected"
  <2>1. GoTo(l, "download")
    BY <1>3 DEF CheckHash
  <2>2. /\ loader' \in [Loaders -> LoaderStates]
        /\ loader'[l].pc = "download" /\ loader'[l].at = loader[l].at
        /\ \A m \in Loaders : m # l => loader'[m] = loader[m]
    BY <1>1, <2>1, GoToIs DEF Steps
  <2>3. LoaderOK(l)'
    BY <1>1, <2>2 DEF ArtInv, LoaderOK, At
  <2> QED
    BY <1>1, <2>2, <2>3, OthersOK DEF ArtInv, ArtTypeOK
<1> QED
  BY <1>2, <1>3

\* The rename puts the expected bytes in place, whatever was there.
LEMMA InstallStep ==
    ASSUME ArtInv, NEW l \in Loaders, Install(l)
    PROVE  ArtInv'
<1>1. temp[l] = "expected" /\ ArtTypeOK /\ loader[l].at \in 1..3 /\ Kind(l) \in CacheFiles
  <2>1. temp[l] = "expected"
    BY DEF Install, ArtInv, LoaderOK
  <2>2. ArtTypeOK /\ loader[l].at \in 1..3
    BY DEF ArtInv, ArtTypeOK, LoaderStates
  <2>3. \A i \in 1..3 : ArtifactKinds[i] \in CacheFiles
    BY ArtifactKindsAre
  <2> QED
    BY <2>1, <2>2, <2>3 DEF Kind
<1>2. /\ cache' = [cache EXCEPT ![Kind(l)] = "expected"]
      /\ temp' = [temp EXCEPT ![l] = NoFile]
  BY <1>1 DEF Install
<1>3. /\ cache' \in [CacheFiles -> {NoFile} \cup Contents] /\ cache'[Kind(l)] = "expected"
      /\ \A k \in CacheFiles : cache[k] = "expected" => cache'[k] = "expected"
  BY <1>1, <1>2 DEF ArtTypeOK, Contents
<1>4. /\ temp' \in [Loaders -> {NoFile} \cup Contents]
      /\ \A m \in Loaders : m # l => temp'[m] = temp[m]
  BY <1>1, <1>2 DEF ArtTypeOK
<1>5. \A i \in 1..3 : ArtifactKinds[i] \in CacheFiles
  BY ArtifactKindsAre
<1>6. CASE loader[l].load
  <2>1. GoTo(l, "reread")
    BY <1>6 DEF Install
  <2>2. /\ loader' \in [Loaders -> LoaderStates]
        /\ loader'[l].pc = "reread" /\ loader'[l].at = loader[l].at
        /\ \A m \in Loaders : m # l => loader'[m] = loader[m]
    BY <1>1, <2>1, GoToIs DEF Steps
  <2>3. LoaderOK(l)'
    BY <1>3, <1>5, <2>2 DEF ArtInv, LoaderOK, At, Kind
  <2> QED
    BY <1>3, <1>4, <2>2, <2>3, OthersOK DEF ArtInv, ArtTypeOK
<1>7. CASE ~loader[l].load
  <2>1. Have(l, NoFile)
    BY <1>7 DEF Install
  <2>2. /\ loader' \in [Loaders -> LoaderStates]
        /\ loader[l].at = 3 => loader'[l].pc = "ready" /\ loader'[l].at = 3
        /\ loader[l].at # 3 => loader'[l].pc = "check" /\ loader'[l].at = loader[l].at + 1
        /\ \A m \in Loaders : m # l => loader'[m] = loader[m]
    BY <1>1, <1>7, <2>1, HaveIs
  <2>3. LoaderOK(l)'
    BY <1>1, <1>3, <1>5, <2>2 DEF ArtInv, LoaderOK, At, Kind
  <2> QED
    BY <1>3, <1>4, <2>2, <2>3, OthersOK DEF ArtInv, ArtTypeOK
<1> QED
  BY <1>6, <1>7

\* readFromCache does not hash what it reads, but nobody has replaced it by
\* anything but the expected bytes.
LEMMA ReadFromCacheStep ==
    ASSUME ArtInv, NEW l \in Loaders, ReadFromCache(l)
    PROVE  ArtInv'
<1>1. /\ cache' = cache /\ temp' = temp /\ ArtTypeOK /\ loader[l].at \in 1..3
      /\ cache[Kind(l)] = "expected" /\ Have(l, "expected")
  BY DEF ReadFromCache, ArtInv, ArtTypeOK, LoaderStates, LoaderOK, NoFile
<1>2. /\ loader' \in [Loaders -> LoaderStates]
      /\ loader[l].at = 3 => loader'[l].pc = "ready" /\ loader'[l].at = 3
      /\ loader[l].at # 3 => loader'[l].pc = "check" /\ loader'[l].at = loader[l].at + 1
      /\ \A m \in Loaders : m # l => loader'[m] = loader[m]
  BY <1>1, HaveIs
<1>3. LoaderOK(l)'
  BY <1>1, <1>2 DEF ArtInv, LoaderOK, At, Kind
<1> QED
  BY <1>1, <1>2, <1>3, OthersOK DEF ArtInv, ArtTypeOK

\* Every step keeps the invariant.
LEMMA ArtStep == ArtInv /\ [ArtNext]_artVars => ArtInv'
<1> SUFFICES ASSUME ArtInv, [ArtNext]_artVars PROVE ArtInv'
  OBVIOUS
<1>1. CASE UNCHANGED artVars
  BY <1>1 DEF artVars, ArtInv, ArtTypeOK, LoaderOK, At, Kind
<1>2. CASE ArtNext
  BY <1>2, QuietSteps, CheckHashStep, InstallStep, ReadFromCacheStep DEF ArtNext
<1> QED
  BY <1>1, <1>2

----------------------------------------------------------------------------
(* Theorem                                                                 *)

\* Whoever else downloads, breaks off or crashes: a loader decodes only the
\* expected bytes, and when it is ready every artifact of the cache is right.
THEOREM ArtifactsAreExpected == ArtSpec => []LoadedIsExpected
<1>1. ArtInit => ArtInv
  BY ArtInitially
<1>2. ArtInv /\ [ArtNext]_artVars => ArtInv'
  BY ArtStep
<1>3. ArtInv => LoadedIsExpected
  <2> SUFFICES ASSUME ArtInv, NEW l \in Loaders
               PROVE  /\ \A i \in DOMAIN loader[l].got : loader[l].got[i] = "expected"
                      /\ At(l, "ready") => \A k \in DOMAIN cache : cache[k] = "expected"
    BY DEF LoadedIsExpected
  <2>1. loader[l].got \in Seq({"expected"}) /\ DOMAIN cache = CacheFiles
    BY DEF ArtInv, ArtTypeOK, LoaderStates
  <2>2. \A i \in DOMAIN loader[l].got : loader[l].got[i] = "expected"
    BY <2>1
  <2>3. ASSUME At(l, "ready") PROVE \A k \in CacheFiles : cache[k] = "expected"
    <3>1. LoaderOK(l) /\ loader[l].at = 3
      BY <2>3 DEF ArtInv, LoaderOK
    <3> QED
      BY <2>3, <3>1, ArtifactKindsAre DEF LoaderOK, CacheFiles
  <2> QED
    BY <2>1, <2>2, <2>3
<1> QED
  BY <1>1, <1>2, <1>3, PTL DEF ArtSpec

----------------------------------------------------------------------------
(* The life of a process: the inductive invariant                          *)

Statuses == {"ready", "paused", "ended", "canceled", "results"}
Counts == {"root", "voters", "census"}

Records == [status : Statuses \cup {"none"}, root : Nat, voters : Nat, census : Nat, result : Int]

MonTypeOK ==
    /\ contract \in Records /\ record \in Records
    /\ chainLog \in Seq([kind : Counts \cup {"created", "status"}, val : Nat \cup Statuses])
    /\ watch \in Nat /\ poll \in [filter : 0..5, next : Nat, end : Nat]
    /\ poll.end <= Len(chainLog)
    /\ setup \in BOOLEAN /\ ender \in BOOLEAN /\ imports \subseteq Nat

\* An event says what the contract had reached when it was emitted, and the
\* contract does not go back.
LogIsPast ==
    \A i \in 1..Len(chainLog) :
        /\ chainLog[i].kind \in Counts =>
            chainLog[i].val \in Nat /\ chainLog[i].val <= contract[chainLog[i].kind]
        /\ chainLog[i].kind = "status" => chainLog[i].val \in Statuses
        /\ chainLog[i].kind = "status" /\ chainLog[i].val = "results" => contract.result # NoResult

\* The contract has results exactly when it says so.
ResultsAreFinal == contract.result # NoResult <=> contract.status = "results"

\* Nothing exists before the process is created.
CreatedFirst ==
    /\ chainLog = <<>> <=> contract.status = "none"
    /\ contract.status = "none" => contract = NoRecord
    /\ record.status = "none" => record = NoRecord
    /\ setup \/ record # NoRecord => chainLog # <<>>

\* What the goroutines of the monitor still have in hand.
InHand ==
    /\ \A c \in imports : c <= contract.census
    /\ ender \/ imports # {} => record # NoRecord

MonInv ==
    MonTypeOK /\ LogIsPast /\ ResultsAreFinal /\ CreatedFirst /\ InHand /\ RecordIsNeverAhead

\* What is finalized was read from a record whose state had been applied.
FinInv ==
    /\ applied \in Int /\ applied <= contract.root
    /\ verified \in Int
    /\ verified # NoResult => verified <= applied
    /\ finalizing \in [pc : {"idle", "root", "prove"}, root : Nat]
    /\ finalizing.pc # "idle" => finalizing.root <= applied
    /\ upload \in [root : Int, tries : Int]
    /\ upload.root # NoResult => verified = upload.root

LifeInv == MonInv /\ FinInv

\* The counters of a record.
LEMMA KindsAre == Kinds \ {"status"} = Counts
<1>1. Len(Filters) = 5 /\ DOMAIN Filters = 1..5
  BY DEF Filters
<1>2. ToSet(Filters) = {Filters[1], Filters[2], Filters[3], Filters[4], Filters[5]}
  BY <1>1, SMT DEF ToSet
<1> QED
  BY <1>2 DEF Kinds, Counts, Filters

\* Every non-empty set of natural numbers has a least element.
LEMMA LeastNat ==
    ASSUME NEW S \in SUBSET Nat, S # {}
    PROVE  \E n \in S : \A m \in S : n <= m
<1>1. PICK n \in S : \A m \in S : ~(<<m, n>> \in OpToRel(<, Nat))
  BY NatLessThanWellFounded, WFMin
<1>2. \A m \in S : n <= m
  <2> SUFFICES ASSUME NEW m \in S, m < n PROVE FALSE
    OBVIOUS
  <2>1. <<m, n>> \in Nat \X Nat /\ <<m, n>>[1] < <<m, n>>[2]
    OBVIOUS
  <2>2. <<m, n>> \in OpToRel(<, Nat)
    BY <2>1, Zenon DEF OpToRel
  <2> QED
    BY <1>1, <2>2
<1> QED
  BY <1>2

LEMMA LifeInitially == LifeInit => LifeInv
<1> SUFFICES ASSUME LifeInit PROVE LifeInv
  OBVIOUS
<1>1. NoRecord \in Records /\ NotPolling \in [filter : 0..5, next : Nat, end : Nat]
  BY DEF NoRecord, Records, NotPolling
<1>2. /\ contract = NoRecord /\ record = NoRecord /\ chainLog = <<>> /\ watch = 0 /\ poll = NotPolling
      /\ ~setup /\ ~ender /\ setup \in BOOLEAN /\ ender \in BOOLEAN /\ imports = {}
  BY DEF LifeInit, MonInit
<1>3. MonTypeOK
  BY <1>1, <1>2 DEF MonTypeOK, NotPolling
<1>4. LogIsPast /\ ResultsAreFinal /\ CreatedFirst /\ InHand
  BY <1>2 DEF LogIsPast, ResultsAreFinal, CreatedFirst, InHand, NoRecord, NoResult
<1>5. RecordIsNeverAhead
  BY <1>2, KindsAre DEF RecordIsNeverAhead, NoRecord, NoResult, Counts
<1>6. FinInv
  BY <1>2 DEF LifeInit, FinInv, NoRecord, NoResult, NotFinalizing, NotUploading
<1> QED
  BY <1>3, <1>4, <1>5, <1>6 DEF LifeInv, MonInv

\* The monitor's steps leave the finalizer's account as it is.
LEMMA FinUnchanged ==
    ASSUME FinInv, MonTypeOK, MonTypeOK', UNCHANGED finVars, contract.root <= contract'.root
    PROVE  FinInv'
<1>1. contract.root \in Nat /\ contract'.root \in Nat /\ applied \in Int /\ applied <= contract.root
  BY DEF FinInv, MonTypeOK, Records
<1>2. applied <= contract'.root
  BY <1>1
<1> QED
  BY <1>2 DEF FinInv, finVars

----------------------------------------------------------------------------
(* The contract                                                            *)

\* The contract emits an event and grows.
LEMMA ContractGrows ==
    ASSUME MonInv, NEW kind \in Counts \cup {"created", "status"}, NEW val \in Nat \cup Statuses,
           Emit(kind, val), contract' \in Records, contract'.status # "none",
           \A k \in Counts : contract[k] <= contract'[k],
           contract.result # NoResult => contract'.result = contract.result,
           ResultsAreFinal',
           kind \in Counts => val \in Nat /\ val <= contract'[kind],
           kind = "status" => val \in Statuses,
           kind = "status" /\ val = "results" => contract'.result # NoResult,
           UNCHANGED <<record, watch, poll, setup, imports, ender>>
    PROVE  MonInv'
<1> DEFINE e == [kind |-> kind, val |-> val]
           Event == [kind : Counts \cup {"created", "status"}, val : Nat \cup Statuses]
<1>1. /\ chainLog' \in Seq(Event) /\ Len(chainLog') = Len(chainLog) + 1 /\ chainLog' # <<>>
      /\ \A i \in 1..Len(chainLog) : chainLog'[i] = chainLog[i]
      /\ chainLog'[Len(chainLog) + 1] = e
  BY DEF MonInv, MonTypeOK, Emit
<1>2. MonTypeOK'
  BY <1>1 DEF MonInv, MonTypeOK
<1>3. LogIsPast'
  <2> SUFFICES ASSUME NEW i \in 1..Len(chainLog')
               PROVE  /\ chainLog'[i].kind \in Counts =>
                            /\ chainLog'[i].val \in Nat
                            /\ chainLog'[i].val <= contract'[chainLog'[i].kind]
                      /\ chainLog'[i].kind = "status" => chainLog'[i].val \in Statuses
                      /\ chainLog'[i].kind = "status" /\ chainLog'[i].val = "results"
                            => contract'.result # NoResult
    BY DEF LogIsPast
  <2>1. CASE i = Len(chainLog) + 1
    BY <1>1, <2>1
  <2>2. CASE i # Len(chainLog) + 1
    <3>1. i \in 1..Len(chainLog) /\ chainLog'[i] = chainLog[i]
      BY <1>1, <2>2 DEF MonInv, MonTypeOK
    <3>2. \A k \in Counts : contract[k] \in Nat /\ contract'[k] \in Nat
      BY DEF MonInv, MonTypeOK, Records, Counts
    <3> QED
      BY <3>1, <3>2 DEF MonInv, LogIsPast
  <2> QED
    BY <2>1, <2>2
<1>4. CreatedFirst' /\ InHand'
  BY <1>1, <1>2 DEF MonInv, MonTypeOK, CreatedFirst, InHand, Counts, Records
<1>5. RecordIsNeverAhead'
  <2>1. \A k \in Counts : record[k] \in Nat /\ contract[k] \in Nat /\ contract'[k] \in Nat
    BY DEF MonInv, MonTypeOK, Records, Counts
  <2>2. contract' # NoRecord
    BY DEF NoRecord
  <2> QED
    BY <2>1, <2>2, KindsAre DEF MonInv, RecordIsNeverAhead
<1> QED
  BY <1>2, <1>3, <1>4, <1>5 DEF MonInv

LEMMA ChainStep ==
    ASSUME LifeInv, ChainNext, UNCHANGED finVars
    PROVE  LifeInv'
<1>1. contract \in Records /\ contract.root \in Nat /\ contract.census \in Nat /\ contract.voters \in Nat
  BY DEF LifeInv, MonInv, MonTypeOK, Records
<1>2. ASSUME Create PROVE LifeInv'
  <2>1. contract = NoRecord /\ contract' = NewRecord /\ Emit("created", 0)
    BY <1>2 DEF Create, LifeInv, MonInv, CreatedFirst
  <2>2. /\ contract' \in Records /\ contract'.status # "none" /\ contract.root = contract'.root
        /\ \A k \in Counts : contract[k] <= contract'[k]
        /\ contract.result = NoResult /\ ResultsAreFinal'
    BY <2>1 DEF NewRecord, NoRecord, NoResult, Records, Counts, Statuses, ResultsAreFinal
  <2>3. UNCHANGED <<record, watch, poll, setup, imports, ender>>
    BY <1>2 DEF Create, pollVars
  <2>4. "created" \notin Counts
    BY DEF Counts
  <2>5. MonInv'
    BY <2>1, <2>2, <2>3, <2>4, ContractGrows DEF LifeInv
  <2> QED
    BY <1>1, <2>2, <2>5, FinUnchanged DEF LifeInv, MonInv
<1>3. ASSUME NEW s \in {"ready", "paused", "ended", "canceled"}, ChangeStatus(s) PROVE LifeInv'
  <2>1. /\ contract.status \in {"ready", "paused"} /\ Emit("status", s)
        /\ contract' = [contract EXCEPT !.status = s]
        /\ UNCHANGED <<record, watch, poll, setup, imports, ender>>
    BY <1>3 DEF ChangeStatus, pollVars
  <2>2. /\ contract' \in Records /\ contract'.status # "none" /\ contract'.root = contract.root
        /\ \A k \in Counts : contract[k] <= contract'[k]
        /\ contract'.result = contract.result /\ contract.result = NoResult
    BY <1>1, <2>1 DEF Records, Counts, Statuses, LifeInv, MonInv, ResultsAreFinal
  <2>3. ResultsAreFinal' /\ "status" \notin Counts /\ s \in Statuses /\ s # "results"
    BY <1>1, <2>1, <2>2 DEF ResultsAreFinal, Counts, Statuses, Records
  <2>4. MonInv'
    BY <2>1, <2>2, <2>3, ContractGrows DEF LifeInv
  <2> QED
    BY <1>1, <2>2, <2>4, FinUnchanged DEF LifeInv, MonInv
<1>4. ASSUME NEW k \in Counts, contract.status \in {"ready", "paused"}, Emit(k, contract[k] + 1),
             contract' = [contract EXCEPT ![k] = @ + 1],
             UNCHANGED <<record, watch, poll, setup, imports, ender>>
      PROVE  LifeInv'
  <2>1. /\ contract' \in Records /\ contract'.status = contract.status
        /\ contract.root <= contract'.root /\ \A j \in Counts : contract[j] <= contract'[j]
        /\ contract'.result = contract.result
        /\ contract[k] + 1 \in Nat /\ contract'[k] = contract[k] + 1 /\ k # "status"
    BY <1>1, <1>4 DEF Records, Counts
  <2>2. ResultsAreFinal'
    BY <2>1 DEF ResultsAreFinal, LifeInv, MonInv
  <2>3. /\ k \in Counts \cup {"created", "status"} /\ contract[k] + 1 \in Nat \cup Statuses
        /\ contract'.status # "none" /\ contract[k] + 1 <= contract'[k] /\ MonInv
    BY <1>4, <2>1 DEF LifeInv
  <2>4. MonInv'
    BY <1>4, <2>1, <2>2, <2>3, ContractGrows
  <2> QED
    BY <2>1, <2>4, FinUnchanged DEF LifeInv, MonInv
<1>5. ASSUME Transition PROVE LifeInv'
  <2>1. /\ contract.status = "ready" /\ Emit("root", contract["root"] + 1) /\ "root" \in Counts
        /\ contract' = [contract EXCEPT !["root"] = @ + 1]
        /\ UNCHANGED <<record, watch, poll, setup, imports, ender>>
    BY <1>5 DEF Transition, pollVars, Counts
  <2> QED
    BY <2>1, <1>4
<1>6. ASSUME NEW k \in {"voters", "census"}, ChangeField(k) PROVE LifeInv'
  <2>1. /\ contract.status \in {"ready", "paused"} /\ Emit(k, contract[k] + 1) /\ k \in Counts
        /\ contract' = [contract EXCEPT ![k] = @ + 1]
        /\ UNCHANGED <<record, watch, poll, setup, imports, ender>>
    BY <1>6 DEF ChangeField, pollVars, Counts
  <2> QED
    BY <2>1, <1>4
<1>7. ASSUME NEW clock, TimeIsOver(clock) PROVE LifeInv'
  <2>1. UNCHANGED <<chainLog, contract, record, watch, poll, setup, imports, ender>>
    BY <1>7 DEF TimeIsOver, pollVars
  <2>2. MonInv'
    BY <2>1 DEF LifeInv, MonInv, MonTypeOK, LogIsPast, ResultsAreFinal, CreatedFirst, InHand,
                RecordIsNeverAhead
  <2> QED
    BY <1>1, <2>1, <2>2, FinUnchanged DEF LifeInv, MonInv
<1> QED
  BY <1>2, <1>3, <1>5, <1>6, <1>7 DEF ChainNext

----------------------------------------------------------------------------
(* The monitor                                                             *)

\* A step of the monitor that leaves the contract alone.
LEMMA MonitorOnly ==
    ASSUME LifeInv, UNCHANGED <<chainLog, contract>>, UNCHANGED finVars,
           record' \in Records, watch' \in Nat, poll' \in [filter : 0..5, next : Nat, end : Nat],
           poll'.end <= Len(chainLog), setup' \in BOOLEAN, ender' \in BOOLEAN, imports' \subseteq Nat,
           CreatedFirst', InHand', RecordIsNeverAhead'
    PROVE  LifeInv'
<1>1. MonTypeOK' /\ LogIsPast' /\ ResultsAreFinal'
  BY DEF LifeInv, MonInv, MonTypeOK, LogIsPast, ResultsAreFinal
<1>2. contract.root <= contract'.root
  BY DEF LifeInv, MonInv, MonTypeOK, Records
<1> QED
  BY <1>1, <1>2, FinUnchanged DEF LifeInv, MonInv

\* A step that touches the poll and the auxiliary state only.
LEMMA PollOnly ==
    ASSUME LifeInv, UNCHANGED <<chainLog, contract, record, setup, imports, ender>>, UNCHANGED finVars,
           watch' \in Nat, poll' \in [filter : 0..5, next : Nat, end : Nat], poll'.end <= Len(chainLog)
    PROVE  LifeInv'
<1>1. CreatedFirst' /\ InHand' /\ RecordIsNeverAhead'
  BY DEF LifeInv, MonInv, CreatedFirst, InHand, RecordIsNeverAhead
<1>2. record' \in Records /\ setup' \in BOOLEAN /\ ender' \in BOOLEAN /\ imports' \subseteq Nat
  BY DEF LifeInv, MonInv, MonTypeOK
<1> QED
  BY <1>1, <1>2, MonitorOnly

\* A step that writes the record of a stored process.
LEMMA RecordWritten ==
    ASSUME LifeInv, UNCHANGED <<chainLog, contract, setup>>, UNCHANGED finVars,
           record # NoRecord, record' \in Records, record'.status # "none",
           \A k \in Counts : record'[k] <= contract[k],
           record'.result # NoResult => record'.result = contract.result,
           record'.status = "results" => record'.result # NoResult,
           watch' \in Nat, poll' \in [filter : 0..5, next : Nat, end : Nat],
           poll'.end <= Len(chainLog), ender' \in BOOLEAN, imports' \subseteq imports
    PROVE  LifeInv'
<1>1. record' # NoRecord /\ contract # NoRecord
  BY DEF NoRecord, LifeInv, MonInv, RecordIsNeverAhead
<1>2. RecordIsNeverAhead'
  BY <1>1, KindsAre DEF RecordIsNeverAhead
<1>3. CreatedFirst' /\ InHand'
  BY <1>1 DEF LifeInv, MonInv, CreatedFirst, InHand
<1>4. setup' \in BOOLEAN /\ imports' \subseteq Nat
  BY DEF LifeInv, MonInv, MonTypeOK
<1> QED
  BY <1>2, <1>3, <1>4, MonitorOnly

\* The record of a process that is created with NewRecord.
LEMMA RecordCreated ==
    ASSUME LifeInv, UNCHANGED <<chainLog, contract, imports, ender>>, UNCHANGED finVars,
           chainLog # <<>>, record' \in {record, NewRecord}, record' = record \/ record = NoRecord,
           setup' \in BOOLEAN, watch' \in Nat, poll' \in [filter : 0..5, next : Nat, end : Nat],
           poll'.end <= Len(chainLog)
    PROVE  LifeInv'
<1>1. NewRecord \in Records /\ NewRecord # NoRecord /\ NewRecord.status = "ready"
      /\ (\A k \in Counts : NewRecord[k] = 0) /\ NewRecord.result = NoResult
  BY DEF NewRecord, NoRecord, Records, Statuses, Counts, NoResult
<1>2. record' \in Records /\ ender' \in BOOLEAN /\ imports' \subseteq Nat
  BY <1>1 DEF LifeInv, MonInv, MonTypeOK
<1>3. contract # NoRecord /\ \A k \in Counts : 0 <= contract[k]
  BY DEF LifeInv, MonInv, MonTypeOK, CreatedFirst, NoRecord, Records, Counts
<1>4. RecordIsNeverAhead'
  BY <1>1, <1>3, KindsAre DEF LifeInv, MonInv, RecordIsNeverAhead
<1>5. CreatedFirst' /\ InHand'
  BY <1>1 DEF LifeInv, MonInv, CreatedFirst, InHand
<1> QED
  BY <1>2, <1>4, <1>5, MonitorOnly

\* The next event of a poll is one that it has still to emit.
LEMMA NextEventIsTodo ==
    ASSUME LifeInv, Todo # {}
    PROVE  NextEvent \in Todo
<1>1. Todo \subseteq Nat \X Nat
  <2>1. Len(Filters) = 5 /\ poll.filter \in Nat /\ poll.end \in Nat /\ watch \in Nat
    BY DEF LifeInv, MonInv, MonTypeOK, Filters
  <2> QED
    BY <2>1 DEF Todo
<1> DEFINE First == {e[1] : e \in Todo}
<1>2. First \in SUBSET Nat /\ First # {}
  BY <1>1
<1>3. PICK f \in First : \A g \in First : f <= g
  BY <1>2, LeastNat
<1> DEFINE Second == {n \in Nat : <<f, n>> \in Todo}
<1>4. Second \in SUBSET Nat /\ Second # {}
  BY <1>1, <1>3
<1>5. PICK n \in Second : \A m \in Second : n <= m
  BY <1>4, LeastNat
<1>6. <<f, n>> \in Todo
  BY <1>5
<1>7. \A x \in Todo : <<f, n>>[1] < x[1] \/ (<<f, n>>[1] = x[1] /\ <<f, n>>[2] <= x[2])
  <2> SUFFICES ASSUME NEW x \in Todo
               PROVE  f < x[1] \/ (f = x[1] /\ n <= x[2])
    OBVIOUS
  <2>1. x[1] \in First /\ x[1] \in Nat /\ x[2] \in Nat /\ x = <<x[1], x[2]>> /\ f \in Nat
    BY <1>1, <1>2, <1>3
  <2>2. f <= x[1]
    BY <1>3, <2>1
  <2>3. f = x[1] => n <= x[2]
    BY <1>5, <2>1
  <2> QED
    BY <2>1, <2>2, <2>3
<1> QED
  BY <1>6, <1>7 DEF NextEvent

LEMMA DeliverStep ==
    ASSUME LifeInv, Deliver, UNCHANGED finVars
    PROVE  LifeInv'
<1> DEFINE i == NextEvent[2]
           e == chainLog[i]
<1>1. Todo # {} /\ poll' = [poll EXCEPT !.filter = NextEvent[1], !.next = NextEvent[2] + 1]
      /\ UNCHANGED <<chainLog, contract, watch, ender>>
  BY DEF Deliver, chainVars
<1>2. NextEvent \in Todo
  BY <1>1, NextEventIsTodo
<1>3. /\ i \in 1..Len(chainLog) /\ NextEvent[1] \in 0..5 /\ chainLog # <<>>
      /\ watch' \in Nat /\ poll' \in [filter : 0..5, next : Nat, end : Nat] /\ poll'.end <= Len(chainLog)
  <2>1. /\ Len(Filters) = 5 /\ poll \in [filter : 0..5, next : Nat, end : Nat] /\ watch \in Nat
        /\ poll.end <= Len(chainLog) /\ Len(chainLog) \in Nat
    BY DEF LifeInv, MonInv, MonTypeOK, Filters
  <2>2. NextEvent[1] \in poll.filter..5 /\ i \in watch..poll.end /\ i > 0
    BY <1>2, <2>1 DEF Todo
  <2>3. i \in 1..Len(chainLog) /\ NextEvent[1] \in 0..5
    BY <2>1, <2>2
  <2>4. Len(<<>>) = 0
    OBVIOUS
  <2>5. chainLog # <<>> /\ watch' \in Nat
    BY <1>1, <2>1, <2>3, <2>4
  <2>6. NextEvent[2] + 1 \in Nat
    BY <2>3
  <2>7. poll' \in [filter : 0..5, next : Nat, end : Nat] /\ poll'.end = poll.end
    BY <1>1, <2>1, <2>3, <2>6
  <2> QED
    BY <2>1, <2>3, <2>5, <2>7
<1>4. /\ e.kind \in Counts => e.val \in Nat /\ e.val <= contract[e.kind]
      /\ e.kind = "status" => e.val \in Statuses
      /\ e.kind = "status" /\ e.val = "results" => contract.result # NoResult
  BY <1>3 DEF LifeInv, MonInv, LogIsPast
<1>5. e.kind \in {"created", "status", "root", "voters", "census"}
  <2> DEFINE Event == [kind : Counts \cup {"created", "status"}, val : Nat \cup Statuses]
  <2>1. chainLog \in Seq(Event) /\ i \in 1..Len(chainLog)
    BY <1>3 DEF LifeInv, MonInv, MonTypeOK
  <2>2. chainLog[i] \in Event
    <3> HIDE DEF Event, i
    <3> QED
      BY <2>1
  <2> QED
    BY <2>2 DEF Counts
<1>6. /\ record \in Records /\ contract \in Records /\ setup \in BOOLEAN /\ ender \in BOOLEAN
      /\ imports \subseteq Nat
      /\ record # NoRecord => record.status # "none"
      /\ \A k \in Counts : record[k] <= contract[k]
      /\ record.result # NoResult => record.result = contract.result
      /\ record.status = "results" => record.result # NoResult
  BY KindsAre DEF LifeInv, MonInv, MonTypeOK, CreatedFirst, RecordIsNeverAhead
<1>7. CASE e.kind = "created"
  <2>1. NewProcessCallback
    BY <1>7 DEF Deliver
  <2>2. /\ UNCHANGED imports /\ setup' \in BOOLEAN
        /\ record' \in {record, NewRecord} /\ (record' = record \/ record = NoRecord)
    BY <1>6, <2>1, Zenon DEF NewProcessCallback
  <2> QED
    BY <1>1, <1>3, <2>2, RecordCreated
<1>8. ASSUME NEW k, NEW new, UpdateProcess(k, new), UNCHANGED <<setup, imports>>,
             record # NoRecord =>
                /\ new \in Records /\ new.status # "none" /\ \A j \in Counts : new[j] <= contract[j]
                /\ new.result # NoResult => new.result = contract.result
                /\ new.status = "results" => new.result # NoResult
      PROVE  LifeInv'
  <2>1. CASE record = NoRecord
    BY <1>1, <1>3, <1>8, <2>1, PollOnly DEF UpdateProcess
  <2>2. CASE record # NoRecord
    <3>1. record' = new /\ ender' \in BOOLEAN /\ imports' \subseteq imports
      BY <1>1, <1>6, <1>8, <2>2 DEF UpdateProcess
    <3> QED
      BY <1>1, <1>3, <1>8, <2>2, <3>1, RecordWritten
  <2> QED
    BY <2>1, <2>2
<1>9. CASE e.kind = "status"
  <2> DEFINE new == IF e.val = "results"
                    THEN [record EXCEPT !.status = e.val, !.result = contract.result]
                    ELSE [record EXCEPT !.status = e.val]
  <2>1. UpdateProcess("status", new) /\ UNCHANGED <<setup, imports>>
    BY <1>9 DEF Deliver, StatusChangeCallback
  <2>2. e.val \in Statuses /\ (e.val = "results" => contract.result # NoResult)
    BY <1>4, <1>9
  <2>3. /\ new \in Records /\ new.status # "none" /\ \A j \in Counts : new[j] <= contract[j]
        /\ new.result # NoResult => new.result = contract.result
        /\ new.status = "results" => new.result # NoResult
    BY <1>6, <2>2 DEF Records, Counts, Statuses
  <2> QED
    BY <2>1, <2>3, <1>8
<1>10. ASSUME NEW k \in {"root", "voters"}, e.kind = k PROVE LifeInv'
  <2> DEFINE new == [record EXCEPT ![k] = e.val]
  <2>1. UpdateProcess(k, new) /\ UNCHANGED <<setup, imports>>
    BY <1>10 DEF Deliver, StateRootChangeCallback, MaxVotersChangeCallback
  <2>2. e.val \in Nat /\ e.val <= contract[k] /\ k \in Counts
    BY <1>4, <1>10 DEF Counts
  <2>3. /\ new \in Records /\ new.status = record.status /\ new.result = record.result
        /\ \A j \in Counts : new[j] <= contract[j]
    BY <1>6, <1>10, <2>2 DEF Records, Counts
  <2> QED
    BY <2>1, <2>3, <1>6, <1>8
<1>11. CASE e.kind = "census"
  <2>1. CensusRootChangeCallback(e.val)
    BY <1>11 DEF Deliver
  <2>2. e.val \in Nat /\ e.val <= contract.census
    BY <1>4, <1>11 DEF Counts
  <2>3. /\ UNCHANGED <<record, setup>>
        /\ imports' = IF record = NoRecord THEN imports ELSE imports \cup {e.val}
    BY <2>1 DEF CensusRootChangeCallback
  <2>4. CreatedFirst' /\ RecordIsNeverAhead'
    BY <1>1, <2>3 DEF LifeInv, MonInv, CreatedFirst, RecordIsNeverAhead
  <2>5. InHand' /\ imports' \subseteq Nat
    BY <1>1, <1>6, <2>2, <2>3 DEF LifeInv, MonInv, InHand
  <2> QED
    BY <1>1, <1>3, <1>6, <2>3, <2>4, <2>5, MonitorOnly
<1> QED
  BY <1>5, <1>7, <1>9, <1>10, <1>11

LEMMA PollStep ==
    ASSUME LifeInv, PollNext \/ FilterFails \/ CreationUnreadable, UNCHANGED finVars
    PROVE  LifeInv'
<1>1. /\ watch \in Nat /\ poll \in [filter : 0..5, next : Nat, end : Nat] /\ poll.end <= Len(chainLog)
      /\ Len(chainLog) \in Nat
  BY DEF LifeInv, MonInv, MonTypeOK
<1>2. NotPolling \in [filter : 0..5, next : Nat, end : Nat] /\ NotPolling.end = 0
  BY DEF NotPolling
<1>3. ASSUME NEW end \in 1..MaxEvents, PollStart(end) PROVE LifeInv'
  <2>1. /\ UNCHANGED <<chainLog, contract, record, setup, imports, ender, watch>>
        /\ end \in (watch + 1)..Len(chainLog)
        /\ poll' = [filter |-> 1, next |-> watch, end |-> end]
    BY <1>3 DEF PollStart, chainVars
  <2>2. poll' \in [filter : 0..5, next : Nat, end : Nat] /\ poll'.end <= Len(chainLog)
    BY <1>1, <2>1
  <2> QED
    BY <1>1, <2>1, <2>2, PollOnly
<1>4. ASSUME PollDone PROVE LifeInv'
  <2>1. /\ UNCHANGED <<chainLog, contract, record, setup, imports, ender>>
        /\ poll' = NotPolling /\ watch' = poll.end
    BY <1>4 DEF PollDone, chainVars
  <2> QED
    BY <1>1, <1>2, <2>1, PollOnly
<1>5. ASSUME FilterFails PROVE LifeInv'
  <2>1. /\ UNCHANGED <<chainLog, contract, record, setup, imports, ender, watch>>
        /\ poll' = NotPolling
    BY <1>5 DEF FilterFails, chainVars
  <2> QED
    BY <1>1, <1>2, <2>1, PollOnly
<1>6. ASSUME CreationUnreadable PROVE LifeInv'
  <2>1. /\ UNCHANGED <<chainLog, contract, record, setup, imports, ender, watch>>
        /\ poll' = [poll EXCEPT !.next = 2]
    BY <1>6 DEF CreationUnreadable, chainVars
  <2> QED
    BY <1>1, <2>1, PollOnly
<1> QED
  BY <1>3, <1>4, <1>5, <1>6, DeliverStep DEF PollNext

LEMMA GoroutineStep ==
    ASSUME LifeInv, UNCHANGED finVars,
           \/ ImportNext \/ EnderNext \/ SetupFails
           \/ \E c \in imports : CensusImportFails(c)
           \/ StartMonitor
    PROVE  LifeInv'
<1>1. /\ watch \in Nat /\ poll \in [filter : 0..5, next : Nat, end : Nat] /\ poll.end <= Len(chainLog)
      /\ Len(chainLog) \in Nat /\ setup \in BOOLEAN /\ ender \in BOOLEAN /\ imports \subseteq Nat
  BY DEF LifeInv, MonInv, MonTypeOK
<1>2. /\ record \in Records /\ contract \in Records
      /\ record # NoRecord => record.status # "none"
      /\ \A k \in Counts : record[k] <= contract[k]
      /\ record.result # NoResult => record.result = contract.result
      /\ record.status = "results" => record.result # NoResult
  BY KindsAre DEF LifeInv, MonInv, MonTypeOK, CreatedFirst, RecordIsNeverAhead
<1>3. ASSUME SetupDone \/ SetupFails PROVE LifeInv'
  <2>1. /\ UNCHANGED <<chainLog, contract, watch, poll, imports, ender>> /\ setup /\ setup' = FALSE
        /\ record' \in {record, NewRecord} /\ (record' = record \/ record = NoRecord)
    BY <1>3 DEF SetupDone, SetupFails, chainVars, pollVars
  <2>2. chainLog # <<>>
    BY <2>1 DEF LifeInv, MonInv, CreatedFirst
  <2> QED
    BY <1>1, <2>1, <2>2, RecordCreated
<1>4. ASSUME NEW c \in imports, CensusImported(c) PROVE LifeInv'
  <2>1. /\ UNCHANGED <<chainLog, contract, watch, poll, setup, ender>>
        /\ imports' \subseteq imports /\ record' = [record EXCEPT !.census = c]
    BY <1>4 DEF CensusImported, chainVars, pollVars
  <2>2. record # NoRecord /\ c \in Nat /\ c <= contract.census
    BY <1>1, <1>4 DEF LifeInv, MonInv, InHand
  <2>3. /\ record' \in Records /\ record'.status = record.status /\ record'.result = record.result
        /\ \A j \in Counts : record'[j] <= contract[j]
    BY <1>2, <2>1, <2>2 DEF Records, Counts
  <2> QED
    BY <1>1, <1>2, <2>1, <2>2, <2>3, RecordWritten
<1>5. ASSUME NEW c \in imports, CensusImportFails(c) PROVE LifeInv'
  <2>1. /\ UNCHANGED <<chainLog, contract, record, watch, poll, setup, ender>>
        /\ imports' \subseteq imports
    BY <1>5 DEF CensusImportFails, chainVars, pollVars
  <2>2. CreatedFirst' /\ InHand' /\ RecordIsNeverAhead'
    BY <2>1 DEF LifeInv, MonInv, CreatedFirst, InHand, RecordIsNeverAhead
  <2>3. imports' \subseteq Nat /\ record' \in Records
    BY <1>1, <1>2, <2>1
  <2> QED
    BY <1>1, <2>1, <2>2, <2>3, MonitorOnly
<1>6. ASSUME EnderReads PROVE LifeInv'
  <2>1. /\ UNCHANGED <<chainLog, contract, record, watch, poll, setup, imports>>
        /\ record # NoRecord /\ ender' = TRUE
    BY <1>6 DEF EnderReads, chainVars, pollVars
  <2>2. CreatedFirst' /\ InHand' /\ RecordIsNeverAhead'
    BY <2>1 DEF LifeInv, MonInv, CreatedFirst, InHand, RecordIsNeverAhead
  <2> QED
    BY <1>1, <1>2, <2>1, <2>2, MonitorOnly
<1>7. ASSUME EnderWrites PROVE LifeInv'
  <2>1. /\ UNCHANGED <<chainLog, contract, watch, poll, setup, imports>>
        /\ ender /\ ender' = FALSE /\ record' = [record EXCEPT !.status = "ended"]
    BY <1>7 DEF EnderWrites, chainVars, pollVars
  <2>2. record # NoRecord
    BY <2>1 DEF LifeInv, MonInv, InHand
  <2>3. /\ record' \in Records /\ record'.status = "ended" /\ record'.result = record.result
        /\ \A j \in Counts : record'[j] = record[j]
    BY <1>2, <2>1 DEF Records, Counts, Statuses
  <2> QED
    BY <1>1, <1>2, <2>1, <2>2, <2>3, RecordWritten
<1>8. ASSUME StartMonitor PROVE LifeInv'
  <2>1. /\ UNCHANGED <<chainLog, contract, poll, setup, imports, ender>> /\ watch' = StartBlock
        /\ record' = IF OnChainAlive THEN [record EXCEPT !.root = contract.root] ELSE record
    BY <1>8 DEF StartMonitor, chainVars
  <2>2. StartBlock \in Nat
    BY <1>1, MonitorAssumption DEF StartBlock
  <2>3. CASE OnChainAlive
    <3>1. record # NoRecord
      BY <2>3 DEF OnChainAlive, NoRecord
    <3>2. /\ record' \in Records /\ record'.status = record.status /\ record'.result = record.result
          /\ \A j \in Counts : record'[j] <= contract[j]
      BY <1>2, <2>1, <2>3 DEF Records, Counts
    <3> QED
      BY <1>1, <1>2, <2>1, <2>2, <3>1, <3>2, RecordWritten
  <2>4. CASE ~OnChainAlive
    BY <1>1, <2>1, <2>2, <2>4, PollOnly
  <2> QED
    BY <2>3, <2>4
<1> QED
  BY <1>3, <1>4, <1>5, <1>6, <1>7, <1>8 DEF ImportNext, EnderNext

----------------------------------------------------------------------------
(* The finalizer and the uploader                                          *)

LEMMA FinalizerStep ==
    ASSUME LifeInv,
           \/ ApplyState \/ FinalizeEnded \/ FinalizerNext \/ NextVerifiedResults
           \/ UploadReverts \/ FinalizeFails
    PROVE  LifeInv'
<1>1. UNCHANGED <<chainLog, contract, record, watch, poll, setup, imports, ender>>
  BY DEF ApplyState, FinalizeEnded, FinalizerNext, ReceiveRequest, FinalizeBegin, FinalizeCheckRoot,
         PushVerifiedResults, NextVerifiedResults, UploadReverts, FinalizeFails,
         monVars, chainVars, pollVars
<1>2. MonInv'
  BY <1>1 DEF LifeInv, MonInv, MonTypeOK, LogIsPast, ResultsAreFinal, CreatedFirst, InHand,
              RecordIsNeverAhead
<1>3. record.root \in Nat /\ contract.root \in Nat /\ FinInv
  BY DEF LifeInv, MonInv, MonTypeOK, Records
<1>4. ASSUME ApplyState PROVE FinInv'
  <2>1. /\ applied < contract.root /\ applied' = applied + 1
        /\ UNCHANGED <<finalizing, verified, upload>>
    BY <1>4 DEF ApplyState
  <2> QED
    BY <1>1, <1>3, <2>1 DEF FinInv, NoResult
<1>5. ASSUME FinalizeEnded \/ ReceiveRequest PROVE FinInv'
  BY <1>1, <1>3, <1>5 DEF FinalizeEnded, ReceiveRequest, FinInv
<1>6. ASSUME FinalizeBegin PROVE FinInv'
  <2>1. /\ UNCHANGED <<applied, verified, upload>>
        /\ \/ finalizing' = finalizing
           \/ record.root <= applied /\ finalizing' = [pc |-> "root", root |-> record.root]
    <3>1. UNCHANGED <<applied, verified, upload>>
      BY <1>6 DEF FinalizeBegin
    <3> DEFINE finished == record.status \in Final \/ record.result # NoResult
               missing == ~finished /\ record.root > applied
    <3>2. finalizing' = IF finished \/ missing THEN finalizing
                        ELSE [pc |-> "root", root |-> record.root]
      BY <1>6 DEF FinalizeBegin
    <3>3. ~finished /\ ~missing => record.root <= applied
      BY <1>3 DEF FinInv
    <3> QED
      BY <3>1, <3>2, <3>3
  <2> QED
    BY <1>1, <1>3, <2>1 DEF FinInv
<1>7. ASSUME FinalizeCheckRoot PROVE FinInv'
  <2>1. /\ UNCHANGED <<applied, verified, upload>> /\ finalizing.pc = "root"
        /\ \/ finalizing' = [finalizing EXCEPT !.pc = "prove"]
           \/ finalizing' = NotFinalizing
    BY <1>7 DEF FinalizeCheckRoot
  <2> QED
    BY <1>1, <1>3, <2>1 DEF FinInv, NotFinalizing
<1>8. ASSUME FinalizeFails PROVE FinInv'
  BY <1>1, <1>3, <1>8 DEF FinalizeFails, FinInv, NotFinalizing
<1>9. ASSUME PushVerifiedResults PROVE FinInv'
  <2>1. /\ UNCHANGED <<applied, upload>> /\ finalizing.pc = "prove" /\ finalizing' = NotFinalizing
        /\ \/ verified = NoResult /\ verified' = finalizing.root
           \/ verified' = verified
    BY <1>9 DEF PushVerifiedResults
  <2> QED
    BY <1>1, <1>3, <2>1 DEF FinInv, NotFinalizing
<1>10. ASSUME NextVerifiedResults PROVE FinInv'
  <2>1. /\ UNCHANGED <<applied, finalizing, verified>>
        /\ upload' = [root |-> verified, tries |-> 0]
    BY <1>10 DEF NextVerifiedResults
  <2> QED
    BY <1>1, <1>3, <2>1 DEF FinInv
<1>11. ASSUME UploadReverts PROVE FinInv'
  <2>1. UNCHANGED <<applied, finalizing>> /\ UploadFailed
    BY <1>11 DEF UploadReverts
  <2> QED
    BY <1>1, <1>3, <2>1 DEF FinInv, UploadFailed, NotUploading, NoResult
<1> QED
  BY <1>2, <1>4, <1>5, <1>6, <1>7, <1>8, <1>9, <1>10, <1>11 DEF FinalizerNext, LifeInv

LEMMA UploadStep ==
    ASSUME LifeInv, UploadSucceeds \/ UploadTimesOut
    PROVE  LifeInv'
<1>1. /\ UNCHANGED <<record, watch, poll, setup, imports, ender, applied, finalizing>>
      /\ upload.root # NoResult
      /\ \/ UNCHANGED <<chainLog, contract>>
         \/ Accepts(upload.root) /\ Publish(upload.root)
      /\ \/ upload' = NotUploading /\ verified' = NoResult
         \/ UploadFailed
  BY DEF UploadSucceeds, UploadTimesOut, pollVars
<1>2. contract.root \in Nat /\ contract \in Records /\ FinInv /\ upload.root \in Int
  BY DEF LifeInv, MonInv, MonTypeOK, Records, FinInv
<1>3. /\ upload' \in [root : Int, tries : Int] /\ verified' \in {verified, NoResult}
      /\ upload'.root # NoResult => verified' = verified /\ upload'.root = upload.root
  BY <1>1, <1>2 DEF UploadFailed, NotUploading, FinInv, NoResult
<1>4. CASE UNCHANGED <<chainLog, contract>>
  <2>1. MonInv'
    BY <1>1, <1>4 DEF LifeInv, MonInv, MonTypeOK, LogIsPast, ResultsAreFinal, CreatedFirst, InHand,
                RecordIsNeverAhead
  <2>2. FinInv'
    BY <1>1, <1>2, <1>3, <1>4 DEF FinInv, NoResult
  <2> QED
    BY <2>1, <2>2 DEF LifeInv
<1>5. CASE Accepts(upload.root) /\ Publish(upload.root)
  <2>1. /\ contract.status \in {"ended", "ready"} /\ Emit("status", "results")
        /\ contract' = [contract EXCEPT !.status = "results", !.result = upload.root]
    BY <1>5 DEF Accepts, Publish
  <2>2. contract.result = NoResult
    BY <2>1 DEF LifeInv, MonInv, ResultsAreFinal
  <2>3. /\ contract' \in Records /\ contract'.status = "results" /\ contract'.result = upload.root
        /\ contract'.root = contract.root /\ \A k \in Counts : contract[k] <= contract'[k]
    <3>1. \A k \in Counts : contract[k] \in Nat
      BY <1>2 DEF Records, Counts
    <3>2. \A k \in Counts : contract'[k] = contract[k]
      BY <1>2, <2>1 DEF Records, Counts
    <3>3. contract' \in Records /\ contract'.status = "results" /\ contract'.result = upload.root
      BY <1>2, <2>1 DEF Records, Statuses
    <3> QED
      BY <3>1, <3>2, <3>3 DEF Counts
  <2>4. ResultsAreFinal' /\ "status" \notin Counts /\ "results" \in Statuses
    BY <1>1, <2>3 DEF ResultsAreFinal, Counts, Statuses
  <2>5. MonInv'
    BY <1>1, <2>1, <2>2, <2>3, <2>4, ContractGrows DEF LifeInv
  <2>6. FinInv'
    BY <1>1, <1>2, <1>3, <2>3 DEF FinInv, NoResult
  <2> QED
    BY <2>5, <2>6 DEF LifeInv
<1> QED
  BY <1>1, <1>4, <1>5

LEMMA CrashStep ==
    ASSUME LifeInv, CrashFinalizer
    PROVE  LifeInv'
<1>1. /\ UNCHANGED <<chainLog, contract, record, watch, applied, verified>>
      /\ poll' = NotPolling /\ setup' = FALSE /\ imports' = {} /\ ender' = FALSE
      /\ finalizing' = NotFinalizing /\ upload' = NotUploading
  BY DEF CrashFinalizer, Crash, StopMonitor, chainVars
<1>2. MonTypeOK'
  <2>1. NotPolling \in [filter : 0..5, next : Nat, end : Nat] /\ NotPolling.end = 0
    BY DEF NotPolling
  <2>2. Len(chainLog) \in Nat /\ 0 <= Len(chainLog)
    BY DEF LifeInv, MonInv, MonTypeOK
  <2> QED
    BY <1>1, <2>1, <2>2 DEF LifeInv, MonInv, MonTypeOK
<1>3. LogIsPast' /\ ResultsAreFinal' /\ CreatedFirst' /\ InHand' /\ RecordIsNeverAhead'
  BY <1>1 DEF LifeInv, MonInv, LogIsPast, ResultsAreFinal, CreatedFirst, InHand, RecordIsNeverAhead
<1>4. FinInv'
  BY <1>1 DEF LifeInv, FinInv, NotFinalizing, NotUploading, NoResult
<1> QED
  BY <1>2, <1>3, <1>4 DEF LifeInv, MonInv

LEMMA LifeStep == LifeInv /\ [LifeNext]_lifeVars => LifeInv'
<1> SUFFICES ASSUME LifeInv, [LifeNext]_lifeVars PROVE LifeInv'
  OBVIOUS
<1>1. CASE UNCHANGED lifeVars
  <2>1. UNCHANGED <<chainLog, contract, record, watch, poll, setup, imports, ender>> /\ UNCHANGED finVars
    BY <1>1 DEF lifeVars, monVars, chainVars, pollVars
  <2>2. watch' \in Nat /\ poll' \in [filter : 0..5, next : Nat, end : Nat] /\ poll'.end <= Len(chainLog)
    BY <2>1 DEF LifeInv, MonInv, MonTypeOK
  <2> QED
    BY <2>1, <2>2, PollOnly
<1> QED
  BY <1>1, ChainStep, PollStep, GoroutineStep, FinalizerStep, UploadStep, CrashStep
     DEF LifeNext, FaultNext, UploaderNext

LEMMA LifeAlways == LifeSpec => []LifeInv
BY LifeInitially, LifeStep, PTL DEF LifeSpec

\* The record of a process never runs ahead of the contract: what the callbacks,
\* the imports and the ticker write comes from an event or the contract itself.
THEOREM RecordsFollow == LifeSpec => []RecordIsNeverAhead
<1>1. LifeInv => RecordIsNeverAhead
  BY DEF LifeInv, MonInv
<1> QED
  BY <1>1, LifeAlways, PTL

\* The uploader and MarkVerifiedResultsDone work on the same results, of a state
\* that the node had applied.
THEOREM UploadsAreQueued == LifeSpec => []UploadIsQueued
<1>1. LifeInv => UploadIsQueued
  BY DEF LifeInv, FinInv, UploadIsQueued
<1> QED
  BY <1>1, LifeAlways, PTL
=============================================================================
