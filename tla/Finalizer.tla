----------------------------- MODULE Finalizer -----------------------------
(***************************************************************************)
(* The results of a process: sequencer/finalizer.go (the ticker that looks *)
(* for ended processes, a goroutine per request under finalizer.lock), the *)
(* queue of storage/results.go and the uploader of sequencer/onchain.go,   *)
(* on top of the record that ProcessMonitor keeps.  The decrypted result   *)
(* is represented by the state root that it was computed from.             *)
(***************************************************************************)
EXTENDS ProcessMonitor

CONSTANTS
    BlobRuntime,        \* SupportBlobTxs of the process's network
    MaxUploadRetries,   \* maxResultsUploadRetries
    MaxFinalizers       \* bound: requests at the same time

ASSUME FinalizerAssumption ==
    BlobRuntime \in BOOLEAN /\ MaxUploadRetries \in Nat \ {0} /\ MaxFinalizers \in Nat \ {0}

VARIABLES
    applied,        \* newest root whose state is in the state database
    onDemand,       \* requests in OndemandCh
    waiting,        \* goroutines of requests that wait for finalizer.lock
    finalizing,     \* the one that has it: [pc, root]
    invalid,        \* invalidProcesses holds the process
    verified,       \* storage vr/ : root of the verified results, or NoResult
    upload          \* processResultsOnChain: [root, tries], root = NoResult when idle

finVars == <<applied, onDemand, waiting, finalizing, invalid, verified, upload>>
lifeVars == <<monVars, finVars>>

NotFinalizing == [pc |-> "idle", root |-> 0]
NotUploading == [root |-> NoResult, tries |-> 0]

----------------------------------------------------------------------------
\* The state of the next root is applied, by this sequencer or by state sync; the
\* first one is stored by NewProcess.
ApplyState ==
    /\ running /\ record # NoRecord /\ applied < contract.root
    /\ applied' = applied + 1
    /\ UNCHANGED <<monVars, onDemand, waiting, finalizing, invalid, verified, upload>>

\* Mutant of FinalizeEnded: an ended process is looked for in the results.
FinalizeEndedResults ==
    /\ running /\ onDemand + waiting < MaxFinalizers
    /\ record.status = "results" /\ ~invalid /\ record.result = NoResult /\ verified = NoResult
    /\ onDemand' = onDemand + 1
    /\ UNCHANGED <<monVars, applied, waiting, finalizing, invalid, verified, upload>>

\* finalizeEnded, on a process that is listed and passes its checks; a missing
\* root is final where no blobs can bring it.
FinalizeEnded ==
    /\ running /\ onDemand + waiting < MaxFinalizers
    /\ record.status = "ended" /\ ~invalid /\ record.result = NoResult /\ verified = NoResult
    /\ \/ /\ record.root <= applied
          /\ onDemand' = onDemand + 1 /\ UNCHANGED invalid
       \/ /\ record.root > applied /\ ~BlobRuntime
          /\ invalid' = TRUE /\ UNCHANGED onDemand
    /\ UNCHANGED <<monVars, applied, waiting, finalizing, verified, upload>>

\* The loop of Start receives a request and starts its goroutine.
ReceiveRequest ==
    /\ running /\ onDemand > 0
    /\ onDemand' = onDemand - 1
    /\ waiting' = IF invalid THEN waiting ELSE waiting + 1
    /\ UNCHANGED <<monVars, applied, finalizing, invalid, verified, upload>>

\* finalize takes the lock, reads the process and loads its state.
FinalizeBegin ==
    /\ running /\ waiting > 0 /\ finalizing.pc = "idle"
    /\ waiting' = waiting - 1
    /\ LET finished == record.status \in Final \/ record.result # NoResult
           missing == ~finished /\ record.root > applied
       IN  /\ finalizing' = IF finished \/ missing THEN finalizing
                            ELSE [pc |-> "root", root |-> record.root]
           /\ invalid' = (invalid \/ missing)
    /\ UNCHANGED <<monVars, applied, onDemand, verified, upload>>

\* The root must be the contract's; a different one is final where no blobs can
\* bring the contract's state.
FinalizeCheckRoot ==
    /\ running /\ finalizing.pc = "root"
    /\ IF finalizing.root = contract.root
       THEN finalizing' = [finalizing EXCEPT !.pc = "prove"] /\ UNCHANGED invalid
       ELSE finalizing' = NotFinalizing /\ invalid' = (invalid \/ ~BlobRuntime)
    /\ UNCHANGED <<monVars, applied, onDemand, waiting, verified, upload>>

\* The contract does not answer, or decryption or proving fails: the process is
\* marked invalid.
FinalizeFails ==
    /\ running /\ finalizing.pc # "idle" /\ faults < MaxFaults
    /\ faults' = faults + 1
    /\ finalizing' = NotFinalizing /\ invalid' = TRUE
    /\ UNCHANGED <<chainVars, record, pollVars, setup, imports, ender, running, restarts, lost,
                   applied, onDemand, waiting, verified, upload>>

\* Mutant of PushVerifiedResults: results that already exist are replaced.
PushVerifiedResultsOver ==
    /\ running /\ finalizing.pc = "prove"
    /\ finalizing' = NotFinalizing
    /\ verified' = finalizing.root
    /\ UNCHANGED <<monVars, applied, onDemand, waiting, invalid, upload>>

\* The proof is pushed; results that already exist are an error, which marks
\* the process invalid.
PushVerifiedResults ==
    /\ running /\ finalizing.pc = "prove"
    /\ finalizing' = NotFinalizing
    /\ IF verified = NoResult
       THEN verified' = finalizing.root /\ UNCHANGED invalid
       ELSE invalid' = TRUE /\ UNCHANGED verified
    /\ UNCHANGED <<monVars, applied, onDemand, waiting, upload>>

----------------------------------------------------------------------------
(* processResultsOnChain                                                   *)

\* NextVerifiedResults.
NextVerifiedResults ==
    /\ running /\ upload.root = NoResult /\ verified # NoResult
    /\ upload' = [root |-> verified, tries |-> 0]
    /\ UNCHANGED <<monVars, applied, onDemand, waiting, finalizing, invalid, verified>>

\* The contract takes results of its current root, once the process is over.
Accepts(r) ==
    /\ contract.status = "ended" \/ (contract.status = "ready" /\ "chain" \in over)
    /\ contract.root = r

Publish(r) ==
    /\ Emit("status", "results")
    /\ contract' = [contract EXCEPT !.status = "results", !.result = r]

\* An attempt fails; after the last one the results are discarded.
UploadFailed ==
    IF upload.tries + 1 < MaxUploadRetries
    THEN upload' = [upload EXCEPT !.tries = @ + 1] /\ UNCHANGED verified
    ELSE upload' = NotUploading /\ verified' = NoResult

\* SetProcessResults succeeds, and MarkVerifiedResultsDone.
UploadSucceeds ==
    /\ running /\ upload.root # NoResult /\ Accepts(upload.root)
    /\ Publish(upload.root)
    /\ upload' = NotUploading /\ verified' = NoResult
    /\ UNCHANGED <<over, record, pollVars, setup, imports, ender, faultVars, lost,
                   applied, onDemand, waiting, finalizing, invalid>>

\* The contract refuses the results.
UploadReverts ==
    /\ running /\ upload.root # NoResult /\ ~Accepts(upload.root)
    /\ UploadFailed
    /\ UNCHANGED <<monVars, applied, onDemand, waiting, finalizing, invalid>>

\* SetProcessResults times out, before or after its transaction is mined.
UploadTimesOut ==
    /\ running /\ upload.root # NoResult /\ faults < MaxFaults
    /\ faults' = faults + 1
    /\ UploadFailed
    /\ \/ UNCHANGED <<chainLog, contract>>
       \/ Accepts(upload.root) /\ Publish(upload.root)
    /\ UNCHANGED <<over, record, pollVars, setup, imports, ender, running, restarts, lost,
                   applied, onDemand, waiting, finalizing, invalid>>

----------------------------------------------------------------------------
\* A crash also loses the requests and the list of invalid processes.
CrashFinalizer ==
    /\ Crash
    /\ onDemand' = 0 /\ waiting' = 0 /\ finalizing' = NotFinalizing /\ invalid' = FALSE
    /\ upload' = NotUploading
    /\ UNCHANGED <<applied, verified>>

LifeInit ==
    /\ MonInit
    /\ applied = -1 /\ onDemand = 0 /\ waiting = 0 /\ finalizing = NotFinalizing
    /\ invalid = FALSE /\ verified = NoResult /\ upload = NotUploading

FinalizerNext ==
    ReceiveRequest \/ FinalizeBegin \/ FinalizeCheckRoot \/ PushVerifiedResults

UploaderNext == NextVerifiedResults \/ UploadSucceeds \/ UploadReverts

LifeNext ==
    \/ (ChainNext \/ PollNext \/ ImportNext \/ EnderNext \/ FaultNext \/ StartMonitor)
        /\ UNCHANGED finVars
    \/ ApplyState
    \/ FinalizeEnded \/ FinalizerNext \/ UploaderNext
    \/ FinalizeFails \/ UploadTimesOut \/ CrashFinalizer

\* The goroutines of the node run and a node that is down is started; the
\* organizer, faults and clocks may do as they like.
LifeFairness ==
    /\ WF_lifeVars(PollNext /\ UNCHANGED finVars)
    /\ WF_lifeVars(SetupDone /\ UNCHANGED finVars)
    /\ \A c \in 1..MaxEvents : WF_lifeVars(CensusImported(c) /\ UNCHANGED finVars)
    /\ WF_lifeVars(EnderNext /\ UNCHANGED finVars)
    /\ WF_lifeVars(StartMonitor /\ UNCHANGED finVars)
    /\ WF_lifeVars(ApplyState)
    /\ WF_lifeVars(FinalizeEnded) /\ WF_lifeVars(FinalizerNext) /\ WF_lifeVars(UploaderNext)

LifeSpec == LifeInit /\ [][LifeNext]_lifeVars /\ LifeFairness

----------------------------------------------------------------------------
(* Properties                                                              *)

\* The record never runs ahead of the contract, however polls repeat, imports
\* overtake each other and the ticker's update crosses an event: each of its
\* counters had its value in the contract before, its results are the contract's,
\* and a record that says that there are results has them.
RecordIsNeverAhead ==
    /\ record # NoRecord => contract # NoRecord
    /\ \A kind \in Kinds \ {"status"} : record[kind] <= contract[kind]
    /\ record.result # NoResult => record.result = contract.result
    /\ record.status = "results" => record.result # NoResult

\* What is being uploaded are the queued results, although requests to finalize
\* run while an upload waits and MarkVerifiedResultsDone names the process only,
\* and queued results come from a state that this node has and the contract had.
UploadIsQueued ==
    /\ upload.root # NoResult => verified = upload.root
    /\ verified # NoResult => verified <= applied /\ applied <= contract.root

\* Nothing more is needed to publish the results of the process.
Publishable == record.status = "ended" /\ Accepts(record.root)

\* A process that has ended gets its results, or is no longer one to publish,
\* however often an upload fails, unless the finalizer has given it up.
EndedGetsResults == Publishable ~> (~Publishable \/ invalid)
=============================================================================
