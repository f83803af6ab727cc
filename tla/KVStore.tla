------------------------------ MODULE KVStore -------------------------------
(***************************************************************************)
(* db/: a key-value database and its write transactions, behind            *)
(* prefixeddb.  The in-memory database validates at commit what the        *)
(* transaction read.  Pebble and LevelDB write a batch without looking, so *)
(* their callers hold a lock (Storage.globalLock) for the whole            *)
(* transaction; LevelDB forgets its own deletions when it reads.  Behaviours*)
(* start with any of the three.                                            *)
(***************************************************************************)
EXTENDS Integers, Sequences, Functions, FiniteSets, SequencesExt

CONSTANTS
    StoreKeys,  \* pairs <<prefix, key>>
    Txs,        \* transactions
    Program,    \* the prefix and the operations of each
    Initially   \* the values at the start, 0 for none

Nobody == "nobody"

ASSUME KVAssumption ==
    /\ Nobody \notin Txs /\ DOMAIN Program = Txs
    /\ IsFiniteSet(StoreKeys) /\ Initially \in [StoreKeys -> Nat]
    /\ \A t \in Txs :
        /\ Program[t].ops \in Seq([op : {"get", "iterate", "set", "delete"},
                                  key : {k[2] : k \in StoreKeys}])
        /\ \A i \in DOMAIN Program[t].ops : <<Program[t].prefix, Program[t].ops[i].key>> \in StoreKeys

VARIABLES
    backend,    \* "inmemory", "pebble" or "leveldb"
    data,       \* key -> value and version; a deleted key keeps its version
    nextVersion,\* last version given
    wtx,        \* the write transactions
    globalLock  \* who holds the lock

kvVars == <<backend, data, nextVersion, wtx, globalLock>>

Unwritten == -1
Unread == -1
Deleted == 0

NewTx == [pc |-> 0, acc |-> 0, base |-> 0, outcome |-> "open",
          reads |-> [k \in StoreKeys |-> Unread], writes |-> [k \in StoreKeys |-> Unwritten]]

\* prefixSlice: the key of the wrapped database.
PrefixSlice(t, key) == <<Program[t].prefix, key>>

Ops(t) == Program[t].ops
Op(t) == Ops(t)[wtx[t].pc]
AtOp(t, kind) == wtx[t].pc \in DOMAIN Ops(t) /\ wtx[t].outcome = "open" /\ Op(t).op = kind
Key(t) == PrefixSlice(t, Op(t).key)
Advance(t, new) == wtx' = [wtx EXCEPT ![t] = [new EXCEPT !.pc = @ + 1]]

\* recordRead keeps the first version seen; only the in-memory database does.
RecordRead(x, keys) ==
    IF backend # "inmemory" THEN x
    ELSE [x EXCEPT !.reads = [k \in StoreKeys |->
            IF k \in keys /\ x.reads[k] = Unread THEN data[k].version ELSE x.reads[k]]]

\* What a transaction sees of a key: its own write, or the database.  LevelDB
\* drops a deletion from the writes that it reads.
View(x, k) ==
    IF x.writes[k] = Unwritten \/ (backend = "leveldb" /\ x.writes[k] = Deleted)
    THEN data[k].val ELSE x.writes[k]

----------------------------------------------------------------------------
\* WriteTx, after the lock of the callers.
WriteTx(t) ==
    /\ wtx[t].pc = 0 /\ wtx[t].outcome = "open"
    /\ backend # "inmemory" => globalLock = Nobody
    /\ globalLock' = IF backend = "inmemory" THEN Nobody ELSE t
    /\ Advance(t, [wtx[t] EXCEPT !.base = nextVersion])
    /\ UNCHANGED <<backend, data, nextVersion>>

\* Get.
GetKey(t) ==
    /\ AtOp(t, "get")
    /\ LET seen == IF wtx[t].writes[Key(t)] = Unwritten THEN RecordRead(wtx[t], {Key(t)}) ELSE wtx[t]
       IN  Advance(t, [seen EXCEPT !.acc = View(wtx[t], Key(t))])
    /\ UNCHANGED <<backend, data, nextVersion, globalLock>>

\* Iterate: the keys that are there, overlaid with the writes.
Iterate(t) ==
    /\ AtOp(t, "iterate")
    /\ LET mine == {k \in StoreKeys : k[1] = Program[t].prefix}
           there == {k \in mine : data[k].val # Deleted}
           seen == RecordRead(wtx[t], there)
       IN  Advance(t, [seen EXCEPT !.acc = SumFunctionOnSet([k \in StoreKeys |-> View(wtx[t], k)], mine)])
    /\ UNCHANGED <<backend, data, nextVersion, globalLock>>

\* Set and Delete.
Write(t, kind, val) ==
    /\ AtOp(t, kind)
    /\ Advance(t, [RecordRead(wtx[t], {Key(t)}) EXCEPT !.writes[Key(t)] = val])
    /\ UNCHANGED <<backend, data, nextVersion, globalLock>>

SetKey(t) == Write(t, "set", wtx[t].acc + 1)
DeleteKey(t) == Write(t, "delete", Deleted)

\* Mutant of Conflict: a version read later than the transaction began is fine.
ConflictNever(t) == FALSE

\* The in-memory commit refuses when something read has changed since.
Conflict(t) ==
    /\ backend = "inmemory"
    /\ \E k \in StoreKeys : wtx[t].reads[k] # Unread
        /\ (wtx[t].reads[k] > wtx[t].base \/ data[k].version # wtx[t].reads[k])

\* applyWrite for every write, each with a version of its own.
ApplyWrites(t) ==
    LET order == SetToSeq({k \in StoreKeys : wtx[t].writes[k] # Unwritten})
        at(k) == CHOOSE i \in DOMAIN order : order[i] = k
    IN  /\ data' = [k \in StoreKeys |-> IF k \notin Range(order) THEN data[k]
                        ELSE [val |-> wtx[t].writes[k], version |-> nextVersion + at(k)]]
        /\ nextVersion' = nextVersion + Len(order)

Finish(t, outcome) ==
    /\ wtx' = [wtx EXCEPT ![t] = [NewTx EXCEPT !.outcome = outcome, !.acc = wtx[t].acc]]
    /\ globalLock' = Nobody

\* Commit of a transaction.
CommitTx(t) ==
    /\ wtx[t].pc = Len(Ops(t)) + 1 /\ ~Conflict(t)
    /\ ApplyWrites(t) /\ Finish(t, "committed")
    /\ UNCHANGED backend

\* Commit returns ErrConflict, or the caller gives up and discards.
Discard(t) ==
    /\ wtx[t].pc > 0 /\ wtx[t].outcome = "open"
    /\ Finish(t, "failed")
    /\ UNCHANGED <<backend, data, nextVersion>>

----------------------------------------------------------------------------
KVInit ==
    /\ backend \in {"inmemory", "pebble", "leveldb"}
    /\ data = [k \in StoreKeys |-> [val |-> Initially[k], version |-> 0]]
    /\ nextVersion = 0 /\ globalLock = Nobody
    /\ wtx = [t \in Txs |-> NewTx]

KVNext == \E t \in Txs :
    WriteTx(t) \/ GetKey(t) \/ Iterate(t) \/ SetKey(t) \/ DeleteKey(t) \/ CommitTx(t) \/ Discard(t)

KVSpec == KVInit /\ [][KVNext]_kvVars

----------------------------------------------------------------------------
Abstract == INSTANCE AtomicStore WITH
    contents <- [k \in StoreKeys |-> data[k].val],
    outcome <- [t \in Txs |-> wtx[t].outcome],
    answer <- [t \in Txs |-> IF wtx[t].outcome = "committed" THEN wtx[t].acc ELSE 0]

\* The i-th operation of t has the key k, and what it does to it.
Touches(t, i, k) == Ops(t)[i].op # "iterate" /\ k = PrefixSlice(t, Ops(t)[i].key)
Deletes(t, i, k) == Ops(t)[i].op = "delete" /\ k = PrefixSlice(t, Ops(t)[i].key)
Sets(t, i, k) == Ops(t)[i].op = "set" /\ k = PrefixSlice(t, Ops(t)[i].key)
Covers(t, i, k) == Ops(t)[i].op = "iterate" /\ k[1] = Program[t].prefix
Reads(t, i, k) == (Ops(t)[i].op = "get" /\ Touches(t, i, k)) \/ Covers(t, i, k)

\* No transaction reads a key that it has deleted before and not set since.
NoReadAfterDelete ==
    \A t \in Txs, k \in StoreKeys : \A j \in DOMAIN Ops(t) : \A i \in 1 .. j - 1 :
        Deletes(t, i, k) /\ Reads(t, j, k) => \E m \in i + 1 .. j - 1 : Sets(t, m, k)

\* A key that is always there.
Permanent(k) == Initially[k] # Deleted /\ \A t \in Txs : \A i \in DOMAIN Ops(t) : ~Deletes(t, i, k)

\* A transaction that iterates has touched the keys that may be missing.
NoPhantom ==
    \A t \in Txs, k \in StoreKeys : \A j \in DOMAIN Ops(t) :
        Covers(t, j, k) => Permanent(k) \/ \E i \in 1 .. j - 1 : Touches(t, i, k)

\* What a database asks of the programs: LevelDB reads through the deletions of
\* the transaction itself, and the in-memory database validates the keys that an
\* iteration found, not that it found no others.  Pebble asks for nothing.
Suits(b) ==
    /\ b = "leveldb" => NoReadAfterDelete
    /\ b = "inmemory" => NoPhantom

\* Every database makes its transactions atomic: interleaved as they are, each
\* one that commits does what it would have done alone at that moment.  This is
\* said of programs that suit the database.
TransactionsAreAtomic == Abstract!AbsSpec
=============================================================================
