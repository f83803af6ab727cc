--------------------------- MODULE MCSettlement ---------------------------
(***************************************************************************)
(* Instances of Settlement for TLC.  A behaviour of MCSpec is of one of    *)
(* three scenarios, each an instance of the specification with its own     *)
(* faults.                                                                 *)
(***************************************************************************)
EXTENDS Settlement, TLC

CONSTANTS v1, v2, v3

VARIABLE scenario

MCVotes == {v1, v2}
MCVotes3 == {v1, v2, v3}

\* The node crashes, and its waits for a transaction fail or take too long.
Faults == INSTANCE Settlement WITH
    MaxRoots <- 3, MaxTxs <- 2, MaxRestarts <- 1, MaxRedeliveries <- 0,
    ProofMayFail <- FALSE, SendMayFail <- FALSE, WaitMayFail <- TRUE, SlowTxs <- TRUE,
    BlobMayFail <- FALSE, OtherSequencers <- FALSE,
    MayClose <- FALSE

\* Another sequencer settles transitions of the same process; sending a
\* transaction or building its blobs may fail.
Others == INSTANCE Settlement WITH
    MaxRoots <- 3, MaxTxs <- 2, MaxRestarts <- 0, MaxRedeliveries <- 0,
    ProofMayFail <- FALSE, SendMayFail <- TRUE, WaitMayFail <- FALSE, SlowTxs <- FALSE,
    BlobMayFail <- TRUE, OtherSequencers <- TRUE,
    MayClose <- FALSE

\* The process is paused or closed, proofs fail and events are repeated.
Close == INSTANCE Settlement WITH
    MaxRestarts <- 0, MaxRedeliveries <- 1, ProofMayFail <- TRUE, SendMayFail <- FALSE,
    WaitMayFail <- FALSE, SlowTxs <- FALSE, BlobMayFail <- FALSE, OtherSequencers <- FALSE,
    MayClose <- TRUE

\* Nobody casts v3.
OnlyTwoVotes == status'[v3] = status[v3] /\ \A r \in Roots : v3 \notin content'[r]

FaultsStep == scenario = "faults" /\ Faults!Next /\ OnlyTwoVotes /\ UNCHANGED scenario

OthersStep == scenario = "others" /\ Others!Next /\ OnlyTwoVotes /\ UNCHANGED scenario

CloseStep == scenario = "close" /\ Close!Next /\ UNCHANGED scenario

MCInit == Init /\ scenario \in {"faults", "others", "close"}

MCNext == FaultsStep \/ OthersStep \/ CloseStep

MCSpec == MCInit /\ [][MCNext]_<<vars, scenario>>

\* The switches as the configuration sets them.
LiveInit == Init /\ scenario = "configured"

LiveNext == Next /\ UNCHANGED scenario

LiveSpec == LiveInit /\ [][LiveNext]_<<vars, scenario>> /\ Fairness
=============================================================================
