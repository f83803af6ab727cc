----------------------------- MODULE StateTree ------------------------------
(***************************************************************************)
(* state/ and circuits/statetransition: the Merkle tree of a process, the  *)
(* batches of votes staged on it, the circuit that accepts or rejects the  *)
(* staged transition, the blob that carries a batch to the chain, and a    *)
(* second node that rebuilds the tree from the blobs.  A tree is a         *)
(* function from state keys to leaves and stands for its own root: the     *)
(* hash (external) has no collisions.  An encrypted ballot is a message    *)
(* with its blinding; both add up.                                         *)
(***************************************************************************)
EXTENDS Integers, FiniteSets, FiniteSetsExt, Sequences, SequencesExt

CONSTANTS
    BallotIndices, VoteIDs,     \* the two ranges of state keys
    CensusEntries,              \* <<address, ballot index, weight>> of the census
    Messages,                   \* plaintexts of ballots
    VotesPerBatch,              \* slots of the circuit
    BlobCells,                  \* field elements of a blob
    MaxBatches                  \* bound: transitions on chain

ResultsKey == 4
Keys == {ResultsKey} \cup BallotIndices \cup VoteIDs

ASSUME StateTreeAssumption ==
    /\ BallotIndices \cap VoteIDs = {} /\ ResultsKey \notin BallotIndices \cup VoteIDs
    /\ VotesPerBatch \in Nat \ {0} /\ BlobCells \in Nat /\ MaxBatches \in Nat
    /\ Messages \subseteq Int
    /\ \A e \in CensusEntries : e = <<e[1], e[2], e[3]>> /\ e[2] \in BallotIndices

VARIABLES
    current,    \* the root pointer of the sequencer's tree
    staged,     \* the batch staged in a write transaction, or NoBatch
    onchain,    \* state transitions accepted by the contract
    replica,    \* the other node's root pointer
    replicaRoots\* roots in the other node's database

stVars == <<current, staged, onchain, replica, replicaRoots>>

----------------------------------------------------------------------------
(* Ballots and leaves                                                      *)

Zero == <<0, 0>>
BallotAdd(a, b) == <<a[1] + b[1], a[2] + b[2]>>
BallotNeg(a) == <<-a[1], -a[2]>>
SumOf(f, n) == FoldFunctionOnSet(LAMBDA b, acc : BallotAdd(acc, b), Zero, f, 1..n)

\* Reencrypt adds an encryption of zero; the k of a vote derives from the last.
ReencryptBallot(ballot, k) == BallotAdd(ballot, <<0, k>>)

NoLeaf == <<>>
VoteIDLeaf == <<1>>
TreeLeafValues(v, ballot) == <<ballot, v.address, v.weight>>

EmptyTree == [k \in Keys |-> IF k = ResultsKey THEN <<Zero>> ELSE NoLeaf]

----------------------------------------------------------------------------
(* Transitions                                                             *)

\* ArboTransitionFromAddOrUpdate: the leaf before and after, with the roots.
Transition(t, k, leaf) ==
    [old |-> t, new |-> [t EXCEPT ![k] = leaf], key |-> k, oldLeaf |-> t[k], newLeaf |-> leaf,
     fnc |-> IF t[k] = NoLeaf THEN "insert" ELSE "update"]

\* ArboTransitionFromNoop.
Noop(t) == [old |-> t, new |-> t, key |-> 0, oldLeaf |-> NoLeaf, newLeaf |-> NoLeaf, fnc |-> "noop"]

\* Mutant of Overwritten: an overwritten ballot is not subtracted.
OverwrittenNever(t, v) == Zero

\* addVote: the ballot that the vote replaces, read before anything is staged.
Overwritten(t, v) == IF t[v.index] = NoLeaf THEN Zero ELSE t[v.index][1]

\* addVote refuses a ballot index whose leaf belongs to someone else.
MetadataMatches(t, v) ==
    t[v.index] # NoLeaf => t[v.index][2] = v.address /\ t[v.index][3] = v.weight

\* PrepareVotesBatch: addVote for each vote, then the ordered transitions of
\* ballots, vote IDs and results; unused slots are padded.
PrepareVotesBatch(t, votes) ==
    LET n == Len(votes)
        leafOf(i) == TreeLeafValues(votes[i], votes[i].reencrypted)
        \* The pair of transitions of each slot, in order.
        pair[i \in 0..VotesPerBatch] ==
            IF i = 0 THEN [ballot |-> Noop(t), id |-> Noop(t)]
            ELSE LET before == pair[i - 1].id.new
                     ballot == IF i <= n THEN Transition(before, votes[i].index, leafOf(i))
                               ELSE Noop(before)
                 IN  [ballot |-> ballot,
                      id |-> IF i <= n THEN Transition(ballot.new, votes[i].id, VoteIDLeaf)
                             ELSE Noop(before)]
        last == pair[VotesPerBatch].id.new
        over == [i \in 1..n |-> Overwritten(t, votes[i])]
        all == SumOf([i \in 1..n |-> votes[i].reencrypted], n)
        new == BallotAdd(BallotAdd(last[ResultsKey][1], all), BallotNeg(SumOf(over, n)))
        results == Transition(last, ResultsKey, <<new>>)
    IN  [there |-> TRUE, before |-> t, after |-> results.new, votes |-> votes, over |-> over,
         ballots |-> [i \in 1..VotesPerBatch |-> pair[i].ballot],
         ids |-> [i \in 1..VotesPerBatch |-> pair[i].id],
         results |-> results, oldResults |-> last[ResultsKey][1], newResults |-> new,
         votersCount |-> n,
         overwrittenCount |-> Cardinality({i \in 1..n : t[votes[i].index] # NoLeaf})]

NoBatch == [there |-> FALSE]

----------------------------------------------------------------------------
(* Blobs                                                                   *)

CellsPerVote == 6

\* computeBlobEvalData: results, voters count and exactly the votes of the batch,
\* then zeros.
BlobOf(b) ==
    LET used == b.newResults \o <<b.votersCount>>
                \o FlattenSeq([i \in 1..b.votersCount |->
                        <<b.votes[i].id, b.votes[i].address, b.votes[i].index, b.votes[i].weight>>
                        \o b.votes[i].reencrypted])
    IN  used \o [i \in 1..(BlobCells - Len(used)) |-> 0]

\* Mutant of ParseBlobData: the cell of the count is taken for a vote's.
ParseBlobDataShifted(cells) ==
    [results |-> <<cells[1], cells[2]>>,
     votes |-> [i \in 1..cells[3] |->
        LET at == 2 + (i - 1) * CellsPerVote
        IN  [id |-> cells[at + 1], address |-> cells[at + 2], index |-> cells[at + 3],
             weight |-> cells[at + 4], reencrypted |-> <<cells[at + 5], cells[at + 6]>>]]]

\* ParseBlobData: exactly the counted votes.
ParseBlobData(cells) ==
    [results |-> <<cells[1], cells[2]>>,
     votes |-> [i \in 1..cells[3] |->
        LET at == 3 + (i - 1) * CellsPerVote
        IN  [id |-> cells[at + 1], address |-> cells[at + 2], index |-> cells[at + 3],
             weight |-> cells[at + 4], reencrypted |-> <<cells[at + 5], cells[at + 6]>>]]]

\* applyBlobData on a tree; it fails when a vote ID is there already, and so does
\* the parser on more votes than a batch has slots.
ApplyBlobData(t, data) ==
    LET n == Len(data.votes)
        step[i \in 0..n] ==
            IF i = 0 THEN t
            ELSE LET v == data.votes[i]
                 IN  [step[i - 1] EXCEPT ![v.index] = TreeLeafValues(v, v.reencrypted),
                                         ![v.id] = VoteIDLeaf]
    IN  [ok |-> /\ n <= VotesPerBatch
                /\ \A i \in 1..n : data.votes[i].index \in BallotIndices /\ data.votes[i].id \in VoteIDs
                /\ \A i \in 1..n : step[i - 1][data.votes[i].id] = NoLeaf,
         tree |-> [step[n] EXCEPT ![ResultsKey] = <<data.results>>]]

----------------------------------------------------------------------------
(* The state transition circuit                                            *)

IsReal(b, i) == i <= b.votersCount

\* MerkleTransition.Verify: the processor of the sparse Merkle tree leads from
\* the old root to the new one.
VerifyTransition(tr, oldRoot) ==
    /\ tr.old = oldRoot
    /\ tr.new = IF tr.fnc = "noop" THEN tr.old ELSE [tr.old EXCEPT ![tr.key] = tr.newLeaf]
    /\ tr.fnc = "insert" => tr.old[tr.key] = NoLeaf
    /\ tr.fnc = "update" => tr.old[tr.key] = tr.oldLeaf

\* VerifyNewKey, VerifyNewLeafHash and VerifyOldLeafHash are skipped for a noop,
\* VerifyOverwrittenBallot for anything but an update.
VerifyNewKey(tr, key) == tr.fnc # "noop" => tr.key = key
VerifyNewLeafHash(tr, values) == tr.fnc # "noop" => tr.newLeaf = values
VerifyOldLeafHash(tr, values) == tr.fnc # "noop" => tr.oldLeaf = values
VerifyOverwrittenBallot(tr, values) == tr.fnc = "update" => tr.oldLeaf = values

\* The kind of each transition.
VerifyMerkleTransitions(b) ==
    /\ \A i \in 1..VotesPerBatch :
        IF IsReal(b, i) THEN b.ballots[i].fnc \in {"insert", "update"} /\ b.ids[i].fnc = "insert"
        ELSE b.ballots[i].fnc = "noop" /\ b.ids[i].fnc = "noop"
    /\ b.results.fnc = "update"

\* The keys that transitions are about.
VerifyMerkleTransitionKeys(b) ==
    /\ VerifyNewKey(b.results, ResultsKey)
    /\ \A i \in 1..VotesPerBatch : IsReal(b, i) =>
        VerifyNewKey(b.ids[i], b.votes[i].id) /\ VerifyNewKey(b.ballots[i], b.votes[i].index)

\* The transitions chain from the root before to the root after.
VerifyRootTransition(b) ==
    /\ \A i \in 1..VotesPerBatch :
        /\ VerifyTransition(b.ballots[i], IF i = 1 THEN b.before ELSE b.ids[i - 1].new)
        /\ VerifyTransition(b.ids[i], b.ballots[i].new)
    /\ VerifyTransition(b.results, b.ids[VotesPerBatch].new) /\ b.results.new = b.after

\* Mutant of VerifyLeafHashes: the overwritten ballot is not compared.
VerifyLeafHashesNewOnly(b) ==
    /\ \A i \in 1..VotesPerBatch : IsReal(b, i) =>
        /\ VerifyNewLeafHash(b.ballots[i], TreeLeafValues(b.votes[i], b.votes[i].reencrypted))
        /\ VerifyNewLeafHash(b.ids[i], VoteIDLeaf)
    /\ VerifyOldLeafHash(b.results, <<b.oldResults>>)
    /\ VerifyNewLeafHash(b.results, <<b.newResults>>)

\* The leaves are those of the votes, of the ballots they overwrite and of the
\* results.
VerifyLeafHashes(b) ==
    /\ \A i \in 1..VotesPerBatch : IsReal(b, i) =>
        /\ VerifyNewLeafHash(b.ballots[i], TreeLeafValues(b.votes[i], b.votes[i].reencrypted))
        /\ VerifyOverwrittenBallot(b.ballots[i], TreeLeafValues(b.votes[i], b.over[i]))
        /\ VerifyNewLeafHash(b.ids[i], VoteIDLeaf)
    /\ VerifyOldLeafHash(b.results, <<b.oldResults>>)
    /\ VerifyNewLeafHash(b.results, <<b.newResults>>)

\* The sums of ballots and the two counters.
VerifyBallots(b) ==
    LET kind(i) == b.ballots[i].fnc
        all == [i \in 1..b.votersCount |-> IF kind(i) = "noop" THEN Zero ELSE b.votes[i].reencrypted]
        over == [i \in 1..b.votersCount |-> IF kind(i) = "update" THEN b.over[i] ELSE Zero]
        added == BallotAdd(SumOf(all, b.votersCount), BallotNeg(SumOf(over, b.votersCount)))
    IN  /\ b.newResults = BallotAdd(b.oldResults, added)
        /\ b.votersCount = Cardinality({i \in 1..VotesPerBatch : kind(i) # "noop"})
        /\ b.overwrittenCount = Cardinality({i \in 1..VotesPerBatch : kind(i) = "update"})

\* VerifyMerkleCensusProofs and VerifyCSPCensusProofs.
VerifyCensusProofs(b) ==
    \A i \in 1..b.votersCount :
        <<b.votes[i].address, b.votes[i].index, b.votes[i].weight>> \in CensusEntries

VerifyReencryptedVotes(b) ==
    \A i \in 1..b.votersCount : b.votes[i].reencrypted = ReencryptBallot(b.votes[i].ballot, i)

\* VerifyBlobs: the circuit lays the batch out slot by slot, the cells of a slot
\* without a vote masked to zero; a blob that differs is not the one evaluated.
VerifyBlobs(b) ==
    LET Cell(j) ==
            LET slot == 1 + ((j - 4) \div CellsPerVote)
                v == b.votes[slot]
            IN  CASE j <= 2 -> b.newResults[j]
                  [] j = 3 -> b.votersCount
                  [] j > 3 /\ ~IsReal(b, slot) -> 0
                  [] OTHER -> (<<v.id, v.address, v.index, v.weight>> \o v.reencrypted)
                                [1 + ((j - 4) % CellsPerVote)]
    IN  /\ \A i \in 1..b.votersCount : b.votes[i].id \in VoteIDs
        /\ BlobOf(b) = [j \in 1..BlobCells |-> Cell(j)]

CircuitAccepts(b) ==
    /\ VerifyMerkleTransitionKeys(b) /\ VerifyMerkleTransitions(b) /\ VerifyRootTransition(b)
    /\ VerifyLeafHashes(b) /\ VerifyCensusProofs(b) /\ VerifyReencryptedVotes(b) /\ VerifyBallots(b)
    /\ VerifyBlobs(b)

----------------------------------------------------------------------------
(* Actions                                                                 *)

\* The votes that an aggregated batch is made of.
CastVotes ==
    {[id |-> id, address |-> e[1], index |-> e[2], weight |-> e[3], ballot |-> <<m, 0>>] :
        id \in VoteIDs, e \in CensusEntries, m \in Messages}

\* reencryptVotes: each ballot with the next k of the chain.
ReencryptVotes(votes) ==
    [i \in DOMAIN votes |->
        [id |-> votes[i].id, address |-> votes[i].address, index |-> votes[i].index,
         weight |-> votes[i].weight, ballot |-> votes[i].ballot,
         reencrypted |-> ReencryptBallot(votes[i].ballot, i)]]

\* processStateTransitionBatch stages a batch on the confirmed root; more votes
\* than slots, a blob that is too small or a leaf of another voter is an error.
StageBatch(votes) ==
    /\ ~staged.there /\ Len(onchain) < MaxBatches
    /\ Len(votes) <= VotesPerBatch
    /\ 3 + Len(votes) * CellsPerVote <= BlobCells
    /\ \A i \in DOMAIN votes : MetadataMatches(current, votes[i])
    /\ staged' = PrepareVotesBatch(current, votes)
    /\ UNCHANGED <<current, onchain, replica, replicaRoots>>

\* The proof is made, the batch committed and the transition accepted on chain.
CommitBatch ==
    /\ staged.there /\ CircuitAccepts(staged)
    /\ current' = staged.after
    /\ onchain' = Append(onchain, [before |-> staged.before, after |-> staged.after,
                                   blob |-> BlobOf(staged), votersCount |-> staged.votersCount,
                                   overwrittenCount |-> staged.overwrittenCount])
    /\ staged' = NoBatch
    /\ UNCHANGED <<replica, replicaRoots>>

\* The circuit rejects the batch: Discard.
DiscardBatch ==
    /\ staged.there /\ ~CircuitAccepts(staged)
    /\ staged' = NoBatch
    /\ UNCHANGED <<current, onchain, replica, replicaRoots>>

\* fetchBlobAndApply with ApplyBlobSidecarFromRoot: the notifications of
\* transitions may come late, twice or in another order; the old root must be
\* there, and the new one is committed only if it is the one expected.
ApplyBlobSidecarFromRoot(i) ==
    LET rebuilt == ApplyBlobData(onchain[i].before, ParseBlobData(onchain[i].blob))
    IN  /\ onchain[i].after \notin replicaRoots /\ onchain[i].before \in replicaRoots
        /\ rebuilt.ok /\ rebuilt.tree = onchain[i].after
        /\ replica' = rebuilt.tree /\ replicaRoots' = replicaRoots \cup {rebuilt.tree}
        /\ UNCHANGED <<current, staged, onchain>>

\* promoteConfirmedStateRoot: the root is there already.
PromoteConfirmedStateRoot(i) ==
    /\ onchain[i].after \in replicaRoots /\ replica # onchain[i].after
    /\ replica' = onchain[i].after
    /\ UNCHANGED <<current, staged, onchain, replicaRoots>>

----------------------------------------------------------------------------
StInit ==
    /\ current = EmptyTree /\ staged = NoBatch /\ onchain = <<>>
    /\ replica = EmptyTree /\ replicaRoots = {EmptyTree}

StNext ==
    \/ \E n \in 1..VotesPerBatch : \E votes \in [1..n -> CastVotes] : StageBatch(ReencryptVotes(votes))
    \/ CommitBatch \/ DiscardBatch
    \/ \E i \in DOMAIN onchain : ApplyBlobSidecarFromRoot(i) \/ PromoteConfirmedStateRoot(i)

StSpec == StInit /\ [][StNext]_stVars

----------------------------------------------------------------------------
(* Properties                                                              *)

Leaves(t) == {k \in BallotIndices : t[k] # NoLeaf}
BallotTally(t) == FoldFunctionOnSet(LAMBDA leaf, acc : BallotAdd(acc, leaf[1]), Zero, t, Leaves(t))

\* In every tree that the circuit let through, here and on the other node, the
\* results are the sum of each voter's last ballot, whatever batches were
\* staged: repeated voters, used vote IDs, overwrites.
ResultsAreTheTally ==
    \A t \in {current} \cup replicaRoots : t[ResultsKey] = <<BallotTally(t)>>

\* A batch of different voters with fresh vote IDs, which is what the
\* aggregator makes, is always provable.
HonestBatchIsProvable ==
    staged.there =>
        LET v == staged.votes
        IN  /\ IsInjective([i \in DOMAIN v |-> v[i].index]) /\ IsInjective([i \in DOMAIN v |-> v[i].id])
            /\ \A i \in DOMAIN v : staged.before[v[i].id] = NoLeaf
            => CircuitAccepts(staged)

\* The other node can rebuild every accepted transition from its blob, and what
\* it rebuilds is on chain.
BlobsRebuildTheTree ==
    /\ \A i \in DOMAIN onchain :
        LET rebuilt == ApplyBlobData(onchain[i].before, ParseBlobData(onchain[i].blob))
        IN  rebuilt.ok /\ rebuilt.tree = onchain[i].after
    /\ replicaRoots \subseteq {EmptyTree} \cup {onchain[i].after : i \in DOMAIN onchain}

=============================================================================
