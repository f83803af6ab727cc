----------------------------- MODULE MCStorage -----------------------------
(***************************************************************************)
(* Instances of the parts that keep data on disk, for TLC.  They share no  *)
(* state: a behaviour is one of the counters of the queues, of the census  *)
(* database or of the cache of circuit artifacts.                          *)
(***************************************************************************)
EXTENDS QueueStats, CensusDB, Artifacts, TLC

VARIABLE part

MCProcessOf == ("b1" :> "p1") @@ ("b2" :> "p1")

StatStep == part = "stats" /\ StatNext /\ UNCHANGED <<cdbVars, artVars, part>>

CensusStep == part = "census" /\ CdbNext /\ UNCHANGED <<statVars, artVars, part>>

\* The census database across a restart, without streamed imports.
Restarted == INSTANCE CensusDB WITH MaxCensusRestarts <- 1, Streamed <- FALSE

RestartedStep ==
    part = "restarted census" /\ Restarted!CdbNext /\ UNCHANGED <<statVars, artVars, part>>

ArtifactStep == part = "artifacts" /\ ArtNext /\ UNCHANGED <<statVars, cdbVars, part>>

MCInit ==
    /\ part \in {"stats", "census", "restarted census", "artifacts"}
    /\ StatInit /\ CdbInit /\ ArtInit
    /\ part # "artifacts" => \A k \in DOMAIN cache : cache[k] = NoFile

MCNext == StatStep \/ CensusStep \/ RestartedStep \/ ArtifactStep

MCSpec == MCInit /\ [][MCNext]_<<statVars, cdbVars, artVars, part>>
=============================================================================
