--------------------------- MODULE MCBallotQueue ---------------------------
(***************************************************************************)
(* Instances of BallotQueue for TLC.  The voter a1 casts the votes v1 and  *)
(* v2, the voter a2 casts v3.  A behaviour of MCSpec is of one of three     *)
(* scenarios: each is an instance of the specification with its own        *)
(* switches, in which two of the votes are cast.                           *)
(***************************************************************************)
EXTENDS BallotQueue, TLC

CONSTANTS v1, v2, v3, a1, a2

VARIABLE scenario

MCVotes == {v1, v2, v3}
MCAddresses == {a1, a2}
MCAddressOf == (v1 :> a1) @@ (v2 :> a1) @@ (v3 :> a2)

MCVotes2 == {v1, v3}
MCAddressOf2 == (v1 :> a1) @@ (v3 :> a2)

\* The process is paused, ends, expires or gets its results.
Events == INSTANCE BallotQueue WITH
    VotesPerBatch <- 1, RemoteWorkers <- FALSE, MaxSubmits <- 1, AllowResubmit <- FALSE,
    SlowJobs <- FALSE, MaxRestarts <- 0, TornWrites <- FALSE

\* The node crashes, also in the middle of a storage call, jobs outlive their
\* reservation and the client submits a vote again.
Crashes == INSTANCE BallotQueue WITH
    VotesPerBatch <- 2, RemoteWorkers <- FALSE, MaxSubmits <- 1, AllowResubmit <- TRUE,
    SlowJobs <- TRUE, ProcessEvents <- {}, AggProofMayFail <- FALSE, MaxRestarts <- 1,
    TornWrites <- TRUE

\* Remote workers prove ballots beside the local prover.
Workers == INSTANCE BallotQueue WITH
    VotesPerBatch <- 1, RemoteWorkers <- TRUE, MaxSubmits <- 2, AllowResubmit <- FALSE,
    SlowJobs <- FALSE, ProcessEvents <- {"pause"}, AggProofMayFail <- TRUE,
    MaxRestarts <- 0, TornWrites <- FALSE

EventsStep == scenario = "events" /\ Events!Next /\ v3 \notin requests' /\ UNCHANGED scenario

CrashesStep == scenario = "crashes" /\ Crashes!Next /\ v3 \notin requests' /\ UNCHANGED scenario

WorkersStep == scenario = "workers" /\ Workers!Next /\ v2 \notin requests' /\ UNCHANGED scenario

MCInit == Init /\ scenario \in {"events", "crashes", "workers"}

MCNext == EventsStep \/ CrashesStep \/ WorkersStep

MCSpec == MCInit /\ [][MCNext]_<<vars, scenario>>

\* The switches as the configuration sets them, and the node keeps running.
LiveInit == Init /\ scenario = "configured"

LiveNext == Next /\ UNCHANGED scenario

LiveSpec == LiveInit /\ [][LiveNext]_<<vars, scenario>> /\ Fairness
=============================================================================
