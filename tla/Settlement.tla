---------------------------- MODULE Settlement ----------------------------
(***************************************************************************)
(* Stages 4 and 5 of the vote pipeline of davinci-node, for one voting     *)
(* process: an aggregated batch becomes a proved transition of the state   *)
(* tree, is submitted to the process registry contract, and its votes are  *)
(* settled or failed when the transaction resolves.                        *)
(*                                                                         *)
(* The actors are the state transition processor (stp), the on-chain       *)
(* processor (ocp), the callback of every transaction, the process monitor *)
(* that follows the contract's events and the state sync worker; they      *)
(* share the database (package storage, one storage call per action) and   *)
(* the root pointer of the process's state tree, which every one of them   *)
(* but ocp moves.                                                          *)
(*                                                                         *)
(* A state root is a number and content[r] the vote IDs in the tree with   *)
(* that root.  Ballots are re-encrypted with fresh randomness for every    *)
(* transition, so each transition proved has a new root.  Queue keys are   *)
(* hashes of the stored value: a batch pushed again unchanged gets its old *)
(* key, one with more attempts a new key.                                  *)
(***************************************************************************)
EXTENDS Integers, Sequences, FiniteSets

CONSTANTS
    Votes,
    BatchSizes,       \* sizes of the batches that stage 3 hands over
    MaxAttempts,      \* MaxStateTransitionAttempts
    MaxRoots,         \* bound: state roots ever created
    MaxTxs,           \* bound: transactions ever sent
    MaxRestarts,      \* bound: crashes followed by a restart
    MaxRedeliveries,  \* bound: times the event monitor repeats events
    ProofMayFail,     \* BOOLEAN: the prover may fail on a valid batch
    SendMayFail,      \* BOOLEAN: the contract's root cannot be read, or the
                      \* transaction not be sent
    WaitMayFail,      \* BOOLEAN: waiting for a transaction may end in an error
                      \* (timeout, RPC failure), whatever becomes of it
    SlowTxs,          \* BOOLEAN: a transaction may outlive the 5 minutes of a reservation
    BlobMayFail,      \* BOOLEAN: the blob of a foreign transition may be unavailable
    OtherSequencers,  \* BOOLEAN: other sequencers settle transitions of the process
    MayClose          \* BOOLEAN: the process may stop accepting votes

ASSUME SizeAssumption == BatchSizes \subseteq Nat \ {0}
ASSUME BoundAssumption ==
    /\ MaxAttempts \in Nat \ {0}
    /\ {MaxRoots, MaxTxs, MaxRestarts, MaxRedeliveries} \subseteq Nat
ASSUME SwitchAssumption ==
    {ProofMayFail, SendMayFail, WaitMayFail, SlowTxs, BlobMayFail, OtherSequencers, MayClose}
        \subseteq BOOLEAN

VARIABLES
    \* database
    ag,          \* ag/  : aggregated batches [votes, attempts]
    agRes,       \* reservations of ag/
    pag,         \* pag/ : the batch behind the transition in flight, or NoBatch
    st,          \* st/  : state transitions [batch, before, after]
    stRes,       \* reservations of st/
    ptx,         \* the process has a pending transaction
    status,      \* vote ID status
    process,     \* [phase, registered, cleanup]: cleanupEndedProcess is still to run
    storedRoot,  \* StateRoot of the process record
    localRoot,   \* root pointer of the state tree (in-construction root)
    known,       \* roots whose tree is in the database
    content,     \* root -> vote IDs in its tree
    lastRoot,    \* roots created so far
    \* the contract and its transactions
    chain,       \* state roots of the contract, oldest first
    txs,         \* [trans, state, waiter] of every transaction sent
    \* memory
    stp,         \* state transition processor: [pc, batch, before, after]
    ocp,         \* on-chain processor: [pc, trans]
    cursor,      \* contract roots whose event was delivered
    syncQueue,   \* events queued for the state sync worker
    redelivered, restarts,
    waitFailed   \* the wait for a transaction has failed or outlived the
                 \* reservation of its transition (auxiliary)

queueVars == <<ag, agRes, pag, st, stRes, ptx>>
treeVars == <<localRoot, known, content, lastRoot>>
chainVars == <<chain, txs>>
syncVars == <<cursor, syncQueue, redelivered, storedRoot>>
faultVars == <<restarts, waitFailed>>
vars == <<queueVars, status, process, treeVars, chainVars, syncVars, stp, ocp, faultVars>>

Roots == 0 .. MaxRoots
Batch == [votes : SUBSET Votes, attempts : 0 .. MaxAttempts]
NoBatch == [votes |-> {}, attempts |-> 0]
Transition == [batch : Batch, before : Roots, after : Roots]
NoTransition == [batch |-> NoBatch, before |-> 0, after |-> 0]
StpIdle == [pc |-> "idle", batch |-> NoBatch, before |-> 0, after |-> 0]
OcpIdle == [pc |-> "idle", trans |-> NoTransition]

\* processIsAcceptingVotes: ready, not ended, and registered.
IsAcceptingVotes == process.phase = "open" /\ process.registered

\* The contract's current state root.
ChainRoot == chain[Len(chain)]

----------------------------------------------------------------------------
(* Storage operations                                                      *)

\* Mutant of WithStatus: done is not protected.
WithStatusUnprotected(old, S, new) == [v \in Votes |-> IF v \in S THEN new ELSE old[v]]

\* setVoteIDStatus on a set of votes: done is final.
WithStatus(old, S, new) ==
    [v \in Votes |-> IF v \in S /\ old[v] # "done" THEN new ELSE old[v]]

\* Mutant of MarkAggregatorBatchFailed: the votes keep their status.
MarkAggregatorBatchFailedSilently(b) ==
    /\ ag' = ag \ {b}
    /\ agRes' = agRes \ {b}
    /\ UNCHANGED <<pag, st, stRes, ptx, status>>

\* MarkAggregatorBatchFailed: a batch that is gone is left alone.
MarkAggregatorBatchFailed(b) ==
    /\ status' = IF b \in ag THEN WithStatus(status, b.votes, "error") ELSE status
    /\ ag' = ag \ {b}
    /\ agRes' = agRes \ {b}
    /\ UNCHANGED <<pag, st, stRes, ptx>>

\* Mutant of MarkStateTransitionBatchOutdated: the batch is not put back.
MarkStateTransitionBatchOutdatedDropped(s) ==
    /\ st' = st \ {s}
    /\ stRes' = stRes \ {s}
    /\ ptx' = FALSE
    /\ pag' = NoBatch
    /\ agRes' = agRes \ {s.batch}
    /\ UNCHANGED <<ag, status>>

\* MarkStateTransitionBatchOutdated: the pending batch goes back to ag/ under
\* its old key, which is also the key whose reservation is released.
MarkStateTransitionBatchOutdated(s) ==
    /\ stRes' = stRes \ {s}
    /\ IF s \notin st
       THEN UNCHANGED <<ag, agRes, pag, st, ptx, status>>
       ELSE /\ st' = st \ {s}
            /\ ptx' = FALSE
            /\ pag' = NoBatch
            /\ agRes' = agRes \ {s.batch}
            /\ IF pag = NoBatch
               THEN UNCHANGED <<ag, status>>
               ELSE /\ ag' = ag \cup {pag}
                    /\ status' = WithStatus(status, pag.votes, "aggregated")

\* MarkStateTransitionBatchFailed: the transition and the pending mark are
\* removed; the votes fail or the batch is queued for another attempt.
MarkStateTransitionBatchFailed(s) ==
    LET votes == s.batch.votes
        inState == votes \cap content[storedRoot]
        again == [votes |-> votes \ inState, attempts |-> pag.attempts + 1]
    IN  IF s \notin st
        THEN UNCHANGED <<queueVars, status>>
        ELSE /\ st' = st \ {s}
             /\ stRes' = stRes \ {s}
             /\ ptx' = FALSE
             /\ pag' = NoBatch
             /\ UNCHANGED agRes
             /\ \/ /\ \/ pag = NoBatch
                      \/ again.attempts >= MaxAttempts
                      \/ ~IsAcceptingVotes
                   /\ status' = WithStatus(status, votes, "error")
                   /\ UNCHANGED ag
                \/ /\ pag # NoBatch /\ again.attempts < MaxAttempts
                   /\ IsAcceptingVotes
                   /\ IF storedRoot \in known
                      THEN /\ ag' = IF again.votes = {} THEN ag ELSE ag \cup {again}
                           /\ status' = WithStatus(WithStatus(status, inState, "error"),
                                                   again.votes, "aggregated")
                      ELSE UNCHANGED <<ag, status>>   \* the state cannot be loaded

\* Mutant of MarkStateTransitionBatchDone: the transition stays in its queue.
MarkStateTransitionBatchDoneInPlace(s) ==
    /\ status' = [v \in Votes |-> IF s \in st /\ v \in s.batch.votes THEN "done" ELSE status[v]]
    /\ stRes' = stRes \ {s}
    /\ pag' = NoBatch
    /\ UNCHANGED <<ag, agRes, st, ptx>>

\* MarkStateTransitionBatchDone: the pending batch is released even if the
\* transition is not found.
MarkStateTransitionBatchDone(s) ==
    /\ status' = [v \in Votes |-> IF s \in st /\ v \in s.batch.votes THEN "done" ELSE status[v]]
    /\ st' = st \ {s}
    /\ stRes' = stRes \ {s}
    /\ pag' = NoBatch
    /\ UNCHANGED <<ag, agRes, ptx>>

----------------------------------------------------------------------------
(* Stage 3 hands over a batch                                              *)

\* aggregateBatch: verified ballots that are not in the state, under the lock
\* that the state transition processor holds while it works on a batch.
Aggregate(S) ==
    /\ IsAcceptingVotes
    /\ stp.pc \in {"idle", "taken"}
    /\ Cardinality(S) \in BatchSizes
    /\ S \cap content[localRoot] = {}
    /\ \A v \in S : status[v] = "verified"
    /\ ag' = ag \cup {[votes |-> S, attempts |-> 0]}
    /\ status' = WithStatus(status, S, "aggregated")
    /\ UNCHANGED <<agRes, pag, st, stRes, ptx, process, treeVars, chainVars, syncVars,
                   stp, ocp, faultVars>>

----------------------------------------------------------------------------
(* The state transition processor: processPendingTransitions               *)

\* HasPendingTx and NextAggregatorBatch.
StpTake(b) ==
    /\ stp = StpIdle
    /\ process.registered
    /\ ~ptx
    /\ b \in ag \ agRes
    /\ agRes' = agRes \cup {b}
    /\ stp' = [StpIdle EXCEPT !.pc = "taken", !.batch = b]
    /\ UNCHANGED <<ag, pag, st, stRes, ptx, status, process, treeVars, chainVars, syncVars,
                   ocp, faultVars>>

\* currentProcessState: the transition is built on the in-construction root.
StpLoad ==
    /\ stp.pc = "taken"
    /\ stp' = IF IsAcceptingVotes
              THEN [stp EXCEPT !.pc = "proving", !.before = localRoot]
              ELSE [stp EXCEPT !.pc = "failed"]
    /\ UNCHANGED <<queueVars, status, process, treeVars, chainVars, syncVars, ocp, faultVars>>

\* Mutant of Provable: the circuit accepts a vote ID that is there already.
ProvableAgain(S, root) == S \subseteq Votes /\ root \in Roots

\* The circuit inserts every vote ID: none may be in the tree already.
Provable(S, root) == S \cap content[root] = {}

\* processStateTransitionBatch: proof and Commit, which moves the root pointer.
StpCommit ==
    /\ stp.pc = "proving"
    /\ Provable(stp.batch.votes, stp.before)
    /\ lastRoot < MaxRoots
    /\ lastRoot' = lastRoot + 1
    /\ content' = [content EXCEPT ![lastRoot + 1] = content[stp.before] \cup stp.batch.votes]
    /\ known' = known \cup {lastRoot + 1}
    /\ localRoot' = lastRoot + 1
    /\ stp' = [stp EXCEPT !.pc = "committed", !.after = lastRoot + 1]
    /\ UNCHANGED <<queueVars, status, process, chainVars, syncVars, ocp, faultVars>>

\* Re-encryption, the census proofs or the proof fail.
StpProofFails ==
    /\ stp.pc = "proving"
    /\ ProofMayFail \/ ~Provable(stp.batch.votes, stp.before)
    /\ stp' = [stp EXCEPT !.pc = "failed"]
    /\ UNCHANGED <<queueVars, status, process, treeVars, chainVars, syncVars, ocp, faultVars>>

StpMarkFailed ==
    /\ stp.pc = "failed"
    /\ MarkAggregatorBatchFailed(stp.batch)
    /\ stp' = StpIdle
    /\ UNCHANGED <<process, treeVars, chainVars, syncVars, ocp, faultVars>>

\* Mutant of StpSetPendingTx: the mark is not set.
StpSkipPendingTx ==
    /\ stp.pc = "committed"
    /\ stp' = [stp EXCEPT !.pc = "marked"]
    /\ UNCHANGED <<queueVars, status, process, treeVars, chainVars, syncVars, ocp, faultVars>>

\* SetPendingTx.
StpSetPendingTx ==
    /\ stp.pc = "committed"
    /\ ptx' = TRUE
    /\ stp' = [stp EXCEPT !.pc = "marked"]
    /\ UNCHANGED <<ag, agRes, pag, st, stRes, status, process, treeVars, chainVars, syncVars,
                   ocp, faultVars>>

\* MarkAggregatorBatchPending: one pending batch per process; a second one is
\* given up where it is, reserved and with the pending mark set.
StpMarkPending ==
    /\ stp.pc = "marked"
    /\ IF pag = NoBatch
       THEN pag' = stp.batch /\ stp' = [stp EXCEPT !.pc = "pending"]
       ELSE stp' = StpIdle /\ UNCHANGED pag
    /\ UNCHANGED <<ag, agRes, st, stRes, ptx, status, process, treeVars, chainVars, syncVars,
                   ocp, faultVars>>

\* PushStateTransitionBatch.
StpPush ==
    /\ stp.pc = "pending"
    /\ st' = st \cup {[batch |-> stp.batch, before |-> stp.before, after |-> stp.after]}
    /\ status' = WithStatus(status, stp.batch.votes, "processed")
    /\ stp' = [stp EXCEPT !.pc = "pushed"]
    /\ UNCHANGED <<ag, agRes, pag, stRes, ptx, process, treeVars, chainVars, syncVars, ocp,
                   faultVars>>

\* MarkAggregatorBatchDone removes the batch from ag/, and processIDs.Add
\* registers the process again.
StpDone ==
    /\ stp.pc = "pushed"
    /\ ag' = ag \ {stp.batch}
    /\ agRes' = agRes \ {stp.batch}
    /\ process' = [process EXCEPT !.registered = TRUE]
    /\ stp' = StpIdle
    /\ UNCHANGED <<pag, st, stRes, ptx, status, treeVars, chainVars, syncVars, ocp, faultVars>>

----------------------------------------------------------------------------
(* The on-chain processor: processTransitionOnChain                        *)

\* NextStateTransitionBatch.
OcpTake(s) ==
    /\ ocp = OcpIdle
    /\ process.registered
    /\ s \in st \ stRes
    /\ stRes' = stRes \cup {s}
    /\ ocp' = [pc |-> "taken", trans |-> s]
    /\ UNCHANGED <<ag, agRes, pag, st, ptx, status, process, treeVars, chainVars, syncVars,
                   stp, faultVars>>

\* The contract's root is compared with the transition's; if it cannot be read
\* the transition keeps its reservation.
OcpCheckRoot ==
    /\ ocp.pc = "taken"
    /\ \/ ocp.trans.before = ChainRoot /\ ocp' = [ocp EXCEPT !.pc = "send"]
       \/ ocp.trans.before # ChainRoot /\ ocp' = [ocp EXCEPT !.pc = "outdated"]
       \/ SendMayFail /\ ocp' = OcpIdle
    /\ UNCHANGED <<queueVars, status, process, treeVars, chainVars, syncVars, stp, faultVars>>

OcpOutdated ==
    /\ ocp.pc = "outdated"
    /\ MarkStateTransitionBatchOutdated(ocp.trans)
    /\ ocp' = OcpIdle
    /\ UNCHANGED <<process, treeVars, chainVars, syncVars, stp, faultVars>>

\* pushTransitionToContract: the transaction is in the pool and a callback
\* waits for it, or it could not be sent.
OcpSend ==
    /\ ocp.pc = "send"
    /\ \/ /\ Len(txs) < MaxTxs
          /\ txs' = Append(txs, [trans |-> ocp.trans, state |-> "pool", waiter |-> "waiting"])
          /\ ocp' = OcpIdle
       \/ /\ SendMayFail
          /\ ocp' = [ocp EXCEPT !.pc = "failed"]
          /\ UNCHANGED txs
    /\ UNCHANGED <<queueVars, status, process, treeVars, chain, syncVars, stp, faultVars>>

OcpMarkFailed ==
    /\ ocp.pc = "failed"
    /\ MarkStateTransitionBatchFailed(ocp.trans)
    /\ ocp' = OcpIdle
    /\ UNCHANGED <<process, treeVars, chainVars, syncVars, stp, faultVars>>

----------------------------------------------------------------------------
(* The contract                                                            *)

\* submitStateTransition succeeds if the contract still has the root that the
\* transition starts from.
ExecuteTx(i) ==
    /\ txs[i].state = "pool"
    /\ IF txs[i].trans.before = ChainRoot
       THEN /\ chain' = Append(chain, txs[i].trans.after)
            /\ txs' = [txs EXCEPT ![i].state = "mined"]
       ELSE /\ txs' = [txs EXCEPT ![i].state = "reverted"]
            /\ UNCHANGED chain
    /\ UNCHANGED <<queueVars, status, process, treeVars, syncVars, stp, ocp, faultVars>>

\* Another sequencer settles a transition; S are votes that this node has too.
ForeignTransition(S) ==
    /\ OtherSequencers
    /\ lastRoot < MaxRoots
    /\ Provable(S, ChainRoot)
    /\ lastRoot' = lastRoot + 1
    /\ content' = [content EXCEPT ![lastRoot + 1] = content[ChainRoot] \cup S]
    /\ chain' = Append(chain, lastRoot + 1)
    /\ UNCHANGED <<queueVars, status, process, localRoot, known, txs, syncVars, stp, ocp,
                   faultVars>>

----------------------------------------------------------------------------
(* The callback of a transaction: pushStateTransitionCallback              *)

\* Mutant of CallbackError: a mined transaction is taken for a reverted one.
CallbackErrorWhenMined(i) ==
    /\ txs[i].waiter = "waiting"
    /\ txs[i].state # "pool" \/ WaitMayFail
    /\ MarkStateTransitionBatchFailed(txs[i].trans)
    /\ txs' = [txs EXCEPT ![i].waiter = "prune"]
    /\ waitFailed' = (waitFailed \/ txs[i].state = "pool")
    /\ UNCHANGED <<process, treeVars, chain, syncVars, stp, ocp, restarts>>

\* The wait ends in an error.
CallbackError(i) ==
    /\ txs[i].waiter = "waiting"
    /\ txs[i].state = "reverted" \/ WaitMayFail
    /\ MarkStateTransitionBatchFailed(txs[i].trans)
    /\ txs' = [txs EXCEPT ![i].waiter = "prune"]
    /\ waitFailed' = (waitFailed \/ txs[i].state # "reverted")
    /\ UNCHANGED <<process, treeVars, chain, syncVars, stp, ocp, restarts>>

\* Mutant of CallbackPromote: the outcome of the transaction is not looked at.
CallbackPromoteAnyway(i) ==
    /\ txs[i].waiter = "waiting"
    /\ localRoot' = txs[i].trans.after
    /\ txs' = [txs EXCEPT ![i].waiter = "promoted"]
    /\ UNCHANGED <<queueVars, status, process, known, content, lastRoot, chain, syncVars,
                   stp, ocp, faultVars>>

\* The transaction was mined: promoteCommittedStateFromTransition.  The root
\* is always in the database, where Commit put it before the transition was
\* queued, so the artifact is never needed.
CallbackPromote(i) ==
    /\ txs[i].waiter = "waiting"
    /\ txs[i].state = "mined"
    /\ localRoot' = txs[i].trans.after
    /\ txs' = [txs EXCEPT ![i].waiter = "promoted"]
    /\ UNCHANGED <<queueVars, status, process, known, content, lastRoot, chain, syncVars,
                   stp, ocp, faultVars>>

\* MarkStateTransitionBatchDone, and processIDs.Add.
CallbackDone(i) ==
    /\ txs[i].waiter = "promoted"
    /\ MarkStateTransitionBatchDone(txs[i].trans)
    /\ process' = [process EXCEPT !.registered = TRUE]
    /\ txs' = [txs EXCEPT ![i].waiter = "prune"]
    /\ UNCHANGED <<treeVars, chain, syncVars, stp, ocp, faultVars>>

\* Mutant of CallbackPrune: the mark stays.
CallbackKeepMark(i) ==
    /\ txs[i].waiter = "prune"
    /\ txs' = [txs EXCEPT ![i].waiter = "gone"]
    /\ UNCHANGED <<queueVars, status, process, treeVars, chain, syncVars, stp, ocp, faultVars>>

\* The deferred PrunePendingTx, in every case.
CallbackPrune(i) ==
    /\ txs[i].waiter = "prune"
    /\ ptx' = FALSE
    /\ txs' = [txs EXCEPT ![i].waiter = "gone"]
    /\ UNCHANGED <<ag, agRes, pag, st, stRes, status, process, treeVars, chain, syncVars,
                   stp, ocp, faultVars>>

----------------------------------------------------------------------------
(* Contract events: process monitor and state sync                         *)

\* stateRootChangeCallback: the process record first, then StateSync.Notify.
RootEvent ==
    /\ cursor < Len(chain)
    /\ cursor' = cursor + 1
    /\ storedRoot' = chain[cursor + 1]
    /\ syncQueue' = Append(syncQueue, cursor + 1)
    /\ UNCHANGED <<queueVars, status, process, treeVars, chainVars, redelivered, stp, ocp,
                   faultVars>>

\* MonitorProcessUpdates queries a block range again: its ranges overlap, and
\* a range is repeated as a whole when one of its filters fails.
RepeatEvents ==
    /\ redelivered < MaxRedeliveries
    /\ cursor > 1
    /\ redelivered' = redelivered + 1
    /\ \E n \in 1 .. cursor - 1 : cursor' = n
    /\ UNCHANGED <<queueVars, status, process, treeVars, chainVars, syncQueue, storedRoot,
                   stp, ocp, faultVars>>

\* fetchBlobAndApply: a root that is known is promoted, another one is built
\* from the blob on top of its predecessor.  A failure drops the event.
SyncApply ==
    /\ syncQueue # <<>>
    /\ syncQueue' = Tail(syncQueue)
    /\ LET new == chain[Head(syncQueue)]
           old == chain[Head(syncQueue) - 1]
       IN  \/ /\ new \in known \/ old \in known
              /\ localRoot' = new
              /\ known' = known \cup {new}
           \/ /\ new \notin known
              /\ old \notin known \/ BlobMayFail
              /\ UNCHANGED <<localRoot, known>>
    /\ UNCHANGED <<queueVars, status, process, content, lastRoot, chainVars, cursor,
                   redelivered, storedRoot, stp, ocp, faultVars>>

----------------------------------------------------------------------------
(* The process record, stale reservations, crash                           *)

\* The process is paused, resumed or ended; only the end by expiry is followed
\* by cleanupEndedProcess.
PhaseChange ==
    /\ MayClose
    /\ \/ process.phase = "open" /\ process' = [process EXCEPT !.phase = "paused"]
       \/ process.phase = "paused" /\ process' = [process EXCEPT !.phase = "open"]
       \/ /\ process.phase # "ended"
          /\ process' \in {[process EXCEPT !.phase = "ended", !.cleanup = c] : c \in BOOLEAN}
    /\ UNCHANGED <<queueVars, status, treeVars, chainVars, syncVars, stp, ocp, faultVars>>

\* checkAndRegisterProcesses.
CheckAndRegister ==
    /\ process.registered # (process.phase = "open")
    /\ process' = [process EXCEPT !.registered = (process.phase = "open")]
    /\ UNCHANGED <<queueVars, status, treeVars, chainVars, syncVars, stp, ocp, faultVars>>

\* cleanupEndedProcess, which leaves the pending batch and the pending mark.
CleanupEndedProcess ==
    /\ process.cleanup
    /\ process' = [process EXCEPT !.cleanup = FALSE]
    /\ ag' = {} /\ agRes' = {} /\ st' = {} /\ stRes' = {}
    /\ status' = WithStatus(status, Votes, "timeout")
    /\ UNCHANGED <<pag, ptx, treeVars, chainVars, syncVars, stp, ocp, faultVars>>

\* The reservations that some goroutine still works under.  Waiting for a
\* transaction takes up to 30 minutes.
Held == [ag |-> {stp.batch},
         st |-> {ocp.trans}
                  \cup {s \in st : stp.pc = "pushed" /\ s.after = stp.after}
                  \cup {txs[i].trans : i \in {j \in DOMAIN txs :
                          txs[j].waiter = "promoted"
                            \/ (txs[j].waiter = "waiting" /\ ~SlowTxs)}}]

\* releaseStaleReservations: what was reserved for more than 5 minutes.
ReleaseStaleReservations ==
    /\ \E A \in SUBSET (agRes \ Held.ag), S \in SUBSET (stRes \ Held.st) :
        /\ A # {} \/ S # {}
        /\ agRes' = agRes \ A
        /\ stRes' = stRes \ S
        /\ waitFailed' = (waitFailed \/ \E i \in DOMAIN txs :
                                txs[i].waiter = "waiting" /\ txs[i].trans \in S)
    /\ UNCHANGED <<ag, pag, st, ptx, status, process, treeVars, chainVars, syncVars, stp,
                   ocp, restarts>>

\* The process dies and starts again: Storage.recover clears the reservations,
\* syncActiveProcessesFromBlockchain reads the contract's root, and the events
\* of the recent past are delivered again.  Transactions have no callback left.
Restart ==
    /\ restarts < MaxRestarts
    /\ restarts' = restarts + 1
    /\ agRes' = {} /\ stRes' = {}
    /\ stp' = StpIdle /\ ocp' = OcpIdle
    /\ txs' = [i \in DOMAIN txs |-> [txs[i] EXCEPT !.waiter = "gone"]]
    /\ storedRoot' = IF process.phase = "open" THEN ChainRoot ELSE storedRoot
    /\ cursor' = 1
    /\ syncQueue' = <<>>
    /\ process' = [process EXCEPT !.registered = (process.phase = "open"),
                                        !.cleanup = FALSE]
    /\ UNCHANGED <<ag, pag, st, ptx, status, treeVars, chain, redelivered, waitFailed>>

----------------------------------------------------------------------------
Init ==
    /\ ag = {} /\ agRes = {} /\ pag = NoBatch /\ st = {} /\ stRes = {} /\ ptx = FALSE
    /\ status = [v \in Votes |-> "verified"]
    /\ process = [phase |-> "open", registered |-> TRUE, cleanup |-> FALSE]
    /\ localRoot = 0 /\ storedRoot = 0 /\ known = {0} /\ lastRoot = 0
    /\ content = [r \in Roots |-> {}]
    /\ chain = <<0>> /\ txs = <<>>
    /\ stp = StpIdle /\ ocp = OcpIdle
    /\ cursor = 1 /\ syncQueue = <<>> /\ redelivered = 0 /\ restarts = 0
    /\ waitFailed = FALSE

StpNext ==
    \/ \E b \in ag : StpTake(b)
    \/ StpLoad \/ StpCommit \/ StpProofFails \/ StpMarkFailed
    \/ StpSetPendingTx \/ StpMarkPending \/ StpPush \/ StpDone

OcpNext ==
    \/ \E s \in st : OcpTake(s)
    \/ OcpCheckRoot \/ OcpOutdated \/ OcpSend \/ OcpMarkFailed

CallbackNext(i) ==
    CallbackError(i) \/ CallbackPromote(i) \/ CallbackDone(i) \/ CallbackPrune(i)

Next ==
    \/ \E S \in SUBSET Votes : Aggregate(S) \/ ForeignTransition(S)
    \/ StpNext \/ OcpNext
    \/ \E i \in DOMAIN txs : ExecuteTx(i) \/ CallbackNext(i)
    \/ RootEvent \/ RepeatEvents \/ SyncApply
    \/ PhaseChange \/ CheckAndRegister \/ CleanupEndedProcess
    \/ ReleaseStaleReservations \/ Restart

Spec == Init /\ [][Next]_vars

----------------------------------------------------------------------------
(* Properties                                                              *)

\* A vote reported as done is counted by the contract.
DoneIsOnChain == \A v \in Votes : status[v] = "done" => v \in content[ChainRoot]

\* The mined transitions of this node insert every vote ID at most once,
\* however often its batch was retried.
CountedOnce ==
    \A i, j \in DOMAIN txs :
        txs[i].state = "mined" /\ txs[j].state = "mined" /\ i # j
            => txs[i].trans.batch.votes \cap txs[j].trans.batch.votes = {}

\* The votes that some queue, or the transition processor, holds.
InPipeline == (UNION {b.votes : b \in ag}) \cup (UNION {s.batch.votes : s \in st})

\* The votes whose status says that they are on their way and that no queue has.
Lost == {v \in Votes : status[v] \in {"aggregated", "processed"}} \ InPipeline

\* A vote whose status says that it is on its way is in some queue.
NoLostBallot == Lost = {}

\* The node has stayed up and was told in time what became of every transaction.
Answered == restarts = 0 /\ ~waitFailed

\* Only this node has settled transitions of the process.
Alone ==
    \A n \in 2 .. Len(chain) :
        \E i \in DOMAIN txs : txs[i].state = "mined" /\ txs[i].trans.after = chain[n]

\* As long as every transaction is answered, a process has at most one
\* transition waiting for the contract, also if other sequencers outdate it
\* (MarkAggregatorBatchPending, one pending batch per process).
OneTransition == Answered => Cardinality(st) <= 1

\* If this node moreover settles transitions alone, the pending mark is set
\* while one is in flight, so that the processor takes no other batch, also
\* while the process is paused or closed (SetPendingTx, PrunePendingTx).
InFlightIsMarked == Answered /\ Alone => (st # {} => ptx)

\* As long as every transaction is answered, a vote that the contract counts
\* through this node does not end in error.
CountedIsNotFailed ==
    Answered => \A i \in DOMAIN txs : txs[i].state = "mined" =>
                    \A v \in txs[i].trans.batch.votes : status[v] # "error"

\* As long as every transaction is answered, two steps only lose votes:
\* MarkAggregatorBatchDone on the very batch that the on-chain processor has put
\* back meanwhile as outdated, and MarkStateTransitionBatchFailed, which has
\* removed the transition when the state at the stored root cannot be loaded.
LossesAreKnown ==
    [][Answered' =>
        \/ Lost' \subseteq Lost
        \/ StpDone /\ Lost' \ Lost \subseteq stp.batch.votes
        \/ /\ storedRoot \notin known
           /\ OcpMarkFailed \/ \E i \in DOMAIN txs : CallbackError(i)]_vars

Ledger == INSTANCE VoteLedger WITH
    counted <- content[ChainRoot],
    settled <- {v \in Votes : status[v] = "done"}

\* The pipeline implements the ledger: through retries, crashes, repeated events
\* and other sequencers' transitions, every step of the contract counts new votes
\* and forgets none, and every step of the node settles votes that are counted
\* and takes nothing back (pushStateTransitionCallback, setVoteIDStatus).
VotesAreOnTheLedger == Ledger!LedgerSpec

----------------------------------------------------------------------------
(* Liveness                                                                *)

\* The goroutines, the timers and the chain make progress; what a switch
\* allows to fail, and a crash, need not happen.
Fairness ==
    /\ WF_vars(StpNext) /\ WF_vars(OcpNext)
    /\ \A i \in 1 .. MaxTxs : WF_vars(i \in DOMAIN txs /\ (ExecuteTx(i) \/ CallbackNext(i)))
    /\ WF_vars(RootEvent) /\ WF_vars(SyncApply)
    /\ WF_vars(CheckAndRegister) /\ WF_vars(CleanupEndedProcess)
    /\ WF_vars(ReleaseStaleReservations)

FairSpec == Spec /\ Fairness

\* A process does not keep its pending mark for ever.
PendingMarkReleased == ptx ~> ~ptx

\* No vote stays processed for ever: its transition is settled, or its batch
\* fails or goes back to the aggregated ones.
ProcessedResolves ==
    \A v \in Votes : status[v] = "processed" ~> status[v] # "processed"
=============================================================================
