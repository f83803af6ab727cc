--------------------------- MODULE MCFoundations ---------------------------
(***************************************************************************)
(* Instances of the packages that the pipeline is built on, for TLC.  They *)
(* share no state here: a behaviour is one of the database, of the state   *)
(* tree with its circuit and blobs, of the evaluation of a blob, of the    *)
(* encrypted tally or of the key generation.                               *)
(***************************************************************************)
EXTENDS KVStore, StateTree, BlobEval, DKG

VARIABLE part

MCKeys == {<<"p", 1>>, <<"p", 2>>, <<"q", 1>>}
DbOp(op, key) == [op |-> op, key |-> key]

\* t1 and t2 read and write the same keys, t3 iterates over a prefix that they
\* write under, t4 works under another prefix.
MCProgram ==
    ("t1" :> [prefix |-> "p",
              ops |-> <<DbOp("get", 1), DbOp("set", 2), DbOp("get", 2), DbOp("set", 1)>>]) @@
    ("t2" :> [prefix |-> "p", ops |-> <<DbOp("get", 2), DbOp("set", 1), DbOp("delete", 2)>>]) @@
    ("t3" :> [prefix |-> "p", ops |-> <<DbOp("set", 1), DbOp("get", 2), DbOp("iterate", 1)>>]) @@
    ("t4" :> [prefix |-> "q", ops |-> <<DbOp("get", 1), DbOp("set", 1)>>])
MCInitially == (<<"p", 1>> :> 1) @@ (<<"p", 2>> :> 5) @@ (<<"q", 1>> :> 0)

ASSUME ProgramsSuit == Suits("leveldb") /\ Suits("inmemory")

\* Two voters; the second may vote under either index.
MCCensus == {<<1, 16, 1>>, <<2, 17, 1>>, <<2, 16, 1>>}

\* The powers of a fourth root of unity modulo 17.
MCOmega == (0 :> 1) @@ (1 :> 16) @@ (2 :> 13) @@ (3 :> 4)

StoreStep ==
    part = "store" /\ KVNext /\ UNCHANGED <<stVars, blobVars, elGamalVars, dkgVars, part>>

StateStep ==
    part = "state" /\ StNext /\ UNCHANGED <<kvVars, blobVars, elGamalVars, dkgVars, part>>

BlobStep ==
    part = "blob" /\ BlobNext /\ UNCHANGED <<kvVars, stVars, elGamalVars, dkgVars, part>>

TallyStep ==
    part = "tally" /\ ElGamalNext /\ UNCHANGED <<kvVars, stVars, blobVars, dkgVars, part>>

KeyStep ==
    part = "key" /\ DKGNext /\ UNCHANGED <<kvVars, stVars, blobVars, elGamalVars, part>>

\* The parts that do not run rest in one of their initial states.
MCInit ==
    /\ part \in {"store", "state", "blob", "tally", "key"}
    /\ KVInit /\ StInit /\ BlobInit /\ ElGamalInit /\ DKGInit
    /\ part # "store" => backend = "inmemory"
    /\ part # "blob" => blob = [i \in Cells |-> 0] /\ point = 0
    /\ part # "tally" => privateKey = 1 /\ lastK = 2

MCNext == StoreStep \/ StateStep \/ BlobStep \/ TallyStep \/ KeyStep

MCSpec == MCInit /\ [][MCNext]_<<kvVars, stVars, blobVars, elGamalVars, dkgVars, part>>
=============================================================================
