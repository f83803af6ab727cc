---------------------------- MODULE MCServices ----------------------------
(***************************************************************************)
(* Instances of the two services that hand out work and wait for it, for   *)
(* TLC.  They share no state: a behaviour is one of the jobs manager of    *)
(* the remote workers or of the census downloader.                         *)
(***************************************************************************)
EXTENDS WorkerJobs, CensusDownloader, TLC

CONSTANTS w1, w2

VARIABLE part

MCMaxJobs == (w1 :> 2) @@ (w2 :> 1)
MCWants == ("r1" :> "static") @@ ("r2" :> "dynamic")

JobsStep == part = "jobs" /\ JobsNext /\ UNCHANGED <<dlVars, part>>

DownloadStep == part = "downloader" /\ DlNext /\ UNCHANGED <<jmVars, part>>

MCInit == part \in {"jobs", "downloader"} /\ JobsInit /\ DlInit

MCNext == JobsStep \/ DownloadStep

Jobs(A) == part = "jobs" /\ A

Download(A) == part = "downloader" /\ A

\* JobsFairness and DlFairness, each for the behaviours of its part.
MCFairness ==
    /\ \A w \in Workers : WF_jmVars(Jobs(HandlerNext(w)))
    /\ \A b \in Ballots : WF_jmVars(Jobs(JobExpires(b))) /\ WF_jmVars(Jobs(ReleaseStale(b)))
    /\ WF_jmVars(Jobs(\E b \in Ballots : CheckTimeouts(b)))
    /\ WF_jmVars(Jobs(ReceiveFailedJob)) /\ WF_jmVars(Jobs(ReleaseReservation))
    /\ \A r \in Requests :
        /\ WF_dlVars(Download(SendJob(r))) /\ WF_dlVars(Download(PollLoad(r)))
        /\ WF_dlVars(Download(PollStatus(r))) /\ SF_dlVars(Download(WaitTimeout(r)))
    /\ \A d \in Downloaders :
        /\ WF_dlVars(Download(TakeDownload(d))) /\ WF_dlVars(Download(ImportAttempt(d)))
        /\ WF_dlVars(Download(ReportAttempt(d)))

MCSpec == MCInit /\ [][MCNext]_<<jmVars, dlVars, part>> /\ MCFairness
=============================================================================
