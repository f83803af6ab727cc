------------------------------ MODULE CensusDB ------------------------------
(***************************************************************************)
(* census/censusdb: references to census trees in the key-value database,  *)
(* the trees themselves (a directory of the temporary directory, or the    *)
(* shared database for a streamed dump), the references loaded in memory,  *)
(* and the goroutines that index roots and remove directories.  A census   *)
(* is known by a working ID, by its root, or by a chain-scoped contract    *)
(* address.  A tree is represented by its root, a number; 0 is the empty   *)
(* tree.  Operations are atomic under CensusDB.mu; directories are removed *)
(* in the background.                                                      *)
(***************************************************************************)
EXTENDS Integers, FiniteSets, Sequences

CONSTANTS
    WorkingIDs,         \* UUIDs of working censuses
    Roots,              \* roots of censuses known by their root
    Addresses,          \* chain-scoped addresses of census contracts
    MaxRoot,            \* bound: roots of trees are in 0..MaxRoot
    UpdateCap,          \* capacity of updateRootChan
    MaxCensusRestarts,  \* bound: restarts of the node
    Streamed            \* BOOLEAN: dumps may be streamed (JSONL)

\* The keys of the database have a prefix each for working IDs, roots and
\* addresses.
ASSUME CensusDBAssumption ==
    /\ WorkingIDs \cap Roots = {} /\ WorkingIDs \cap Addresses = {} /\ Roots \cap Addresses = {}
    /\ MaxRoot \in Nat /\ Roots \subseteq 1..MaxRoot /\ UpdateCap \in Nat
    /\ MaxCensusRestarts \in Nat /\ Streamed \in BOOLEAN

IDs == WorkingIDs \cup Roots \cup Addresses
Trees == 0..MaxRoot
NoTree == -1

VARIABLES
    refs,           \* cw_, cr_ and ca_ keys of the database
    dirs,           \* tree directories: ID -> root or NoTree
    treeDB,         \* ct_ trees of the database: ID -> root or NoTree
    loadedCensus,   \* ID -> [in, root], in = "no" when it is not loaded
    rootIndex,      \* root -> ID, or NoID
    updates,        \* updateRootChan
    removing,       \* directories to be removed in the background
    dbRestarts      \* auxiliary: restarts so far

cdbVars == <<refs, dirs, treeDB, loadedCensus, rootIndex, updates, removing, dbRestarts>>

NoID == -1
NotLoaded == [in |-> "no", root |-> 0]
IsLoaded(id) == loadedCensus[id].in # "no"

\* The tree behind a loaded reference.
TreeOf(id) == IF loadedCensus[id].in = "db" THEN treeDB[id] ELSE dirs[id]

----------------------------------------------------------------------------
(* Memory                                                                  *)

\* A reference enters the maps; a root that is indexed keeps its census.
Remember(id, where, root) ==
    /\ loadedCensus' = [loadedCensus EXCEPT ![id] = [in |-> where, root |-> root]]
    /\ rootIndex' = IF rootIndex[root] = NoID THEN [rootIndex EXCEPT ![root] = id] ELSE rootIndex

\* The references of ids leave the maps, with what their roots index.
Forget(ids) ==
    /\ loadedCensus' = [id \in IDs |-> IF id \in ids THEN NotLoaded ELSE loadedCensus[id]]
    /\ rootIndex' = [r \in Trees |->
            IF \E id \in ids : IsLoaded(id) /\ loadedCensus[id].root = r THEN NoID ELSE rootIndex[r]]

\* Opening a directory that is missing creates an empty tree.
Opened(id) == IF dirs[id] = NoTree THEN 0 ELSE dirs[id]

\* Exists, ExistsByRoot, ExistsByScopedAddress.
Exists(id) == IsLoaded(id) \/ id \in refs

----------------------------------------------------------------------------
(* Operations                                                              *)

\* New, NewByRoot, NewByScopedAddress: newCensus with an empty tree.
New(id) ==
    /\ ~Exists(id)
    /\ refs' = refs \cup {id}
    /\ dirs' = [dirs EXCEPT ![id] = Opened(id)]
    /\ Remember(id, "dir", Opened(id))
    /\ UNCHANGED <<treeDB, updates, removing, dbRestarts>>

\* Insert, InsertBatch or ApplyEvents on a working census; the request to index
\* the new root is skipped when the channel is full.
Insert(id) ==
    /\ loadedCensus[id].in = "dir" /\ dirs[id] # NoTree /\ dirs[id] < MaxRoot
    /\ dirs' = [dirs EXCEPT ![id] = @ + 1]
    /\ loadedCensus' = [loadedCensus EXCEPT ![id].root = dirs[id] + 1]
    /\ updates' = IF Len(updates) < UpdateCap
                  THEN Append(updates, [id |-> id, root |-> dirs[id] + 1]) ELSE updates
    /\ UNCHANGED <<refs, treeDB, rootIndex, removing, dbRestarts>>

\* The root update worker: updateRoot.
UpdateRoot ==
    /\ updates # <<>>
    /\ updates' = Tail(updates)
    /\ LET u == Head(updates)
           old == loadedCensus[u.id].root
       IN  IF ~IsLoaded(u.id) \/ old = u.root THEN UNCHANGED <<loadedCensus, rootIndex>>
           ELSE /\ loadedCensus' = [loadedCensus EXCEPT ![u.id].root = u.root]
                /\ rootIndex' = [rootIndex EXCEPT ![old] = NoID, ![u.root] = u.id]
    /\ UNCHANGED <<refs, dirs, treeDB, removing, dbRestarts>>

\* Load, LoadByRoot, LoadByScopedAddress of a census that is not in memory: the
\* tree is opened from its directory.
Load(id) ==
    /\ id \in refs /\ ~IsLoaded(id)
    /\ dirs' = [dirs EXCEPT ![id] = Opened(id)]
    /\ Remember(id, "dir", Opened(id))
    /\ UNCHANGED <<refs, treeDB, updates, removing, dbRestarts>>

\* Import of a streamed dump by its root: the tree goes to the shared database.
Import(r) ==
    /\ Streamed /\ ~Exists(r)
    /\ treeDB' = [treeDB EXCEPT ![r] = r]
    /\ refs' = refs \cup {r}
    /\ Remember(r, "db", r)
    /\ UNCHANGED <<dirs, updates, removing, dbRestarts>>

\* Mutant of ImportAll: a dump of another census is taken too.
ImportAllAny(r) ==
    /\ ~Exists(r)
    /\ \E dump \in Roots : dirs' = [dirs EXCEPT ![r] = dump] /\ Remember(r, "dir", dump)
    /\ refs' = refs \cup {r}
    /\ UNCHANGED <<treeDB, updates, removing, dbRestarts>>

\* ImportAll of a whole dump, which is stored under its own root.
ImportAll(r) ==
    /\ ~Exists(r)
    /\ dirs' = [dirs EXCEPT ![r] = r]
    /\ refs' = refs \cup {r}
    /\ Remember(r, "dir", r)
    /\ UNCHANGED <<treeDB, updates, removing, dbRestarts>>

\* ImportByScopedAddress and ImportAllByScopedAddress: an existing census is
\* deleted, its directory in the background, and the dump takes its place.
ImportByScopedAddress(a, r, streamed) ==
    /\ streamed => Streamed
    /\ refs' = refs \cup {a}
    /\ removing' = IF Exists(a) THEN removing \cup {a} ELSE removing
    /\ dirs' = IF streamed THEN dirs ELSE [dirs EXCEPT ![a] = r]
    /\ treeDB' = IF streamed THEN [treeDB EXCEPT ![a] = r] ELSE treeDB
    /\ LET where == IF streamed THEN "db" ELSE "dir"
           index == [x \in Trees |->
                        IF IsLoaded(a) /\ loadedCensus[a].root = x THEN NoID ELSE rootIndex[x]]
       IN  /\ loadedCensus' = [loadedCensus EXCEPT ![a] = [in |-> where, root |-> r]]
           /\ rootIndex' = IF index[r] = NoID THEN [index EXCEPT ![r] = a] ELSE index
    /\ UNCHANGED <<updates, dbRestarts>>

\* Mutant of Del: the directory stays.
DelKeepsDir(id) ==
    /\ id \in refs
    /\ refs' = refs \ {id}
    /\ Forget({id})
    /\ UNCHANGED <<dirs, treeDB, updates, removing, dbRestarts>>

\* Del and DelByScopedAddress.
Del(id) ==
    /\ id \in refs
    /\ refs' = refs \ {id}
    /\ Forget({id})
    /\ removing' = removing \cup {id}
    /\ UNCHANGED <<dirs, treeDB, updates, dbRestarts>>

\* CleanupWorkingCensus: the directory is removed at once.
CleanupWorkingCensus(id) ==
    /\ id \in refs
    /\ refs' = refs \ {id}
    /\ Forget({id})
    /\ dirs' = [dirs EXCEPT ![id] = NoTree]
    /\ UNCHANGED <<treeDB, updates, removing, dbRestarts>>

\* PurgeWorkingCensuses: the ones that were not used for long.
PurgeWorkingCensuses(old) ==
    /\ old # {} /\ old \subseteq refs \cap WorkingIDs
    /\ refs' = refs \ old
    /\ Forget(old)
    /\ removing' = removing \cup old
    /\ UNCHANGED <<dirs, treeDB, updates, dbRestarts>>

\* NewByRoot of the root of a working census, then PublishCensus: its directory
\* is renamed.
PublishCensus(id, r) ==
    /\ id \in refs /\ Opened(id) = r /\ ~Exists(r)
    /\ refs' = (refs \ {id}) \cup {r}
    /\ dirs' = [dirs EXCEPT ![r] = Opened(id), ![id] = NoTree]
    /\ loadedCensus' = [loadedCensus EXCEPT ![id] = NotLoaded, ![r] = [in |-> "dir", root |-> r]]
    /\ rootIndex' = [rootIndex EXCEPT ![r] = r]
    /\ UNCHANGED <<treeDB, updates, removing, dbRestarts>>

\* A background goroutine removes a directory.
RemoveDir(id) ==
    /\ id \in removing
    /\ removing' = removing \ {id}
    /\ dirs' = [dirs EXCEPT ![id] = NoTree]
    /\ UNCHANGED <<refs, treeDB, loadedCensus, rootIndex, updates, dbRestarts>>

\* The node restarts; the temporary directory may be emptied.
RestartDB ==
    /\ dbRestarts < MaxCensusRestarts
    /\ dbRestarts' = dbRestarts + 1
    /\ loadedCensus' = [id \in IDs |-> NotLoaded] /\ rootIndex' = [r \in Trees |-> NoID]
    /\ updates' = <<>> /\ removing' = {}
    /\ dirs' \in {dirs, [id \in IDs |-> NoTree]}
    /\ UNCHANGED <<refs, treeDB>>

----------------------------------------------------------------------------
CdbInit ==
    /\ refs = {} /\ dirs = [id \in IDs |-> NoTree] /\ treeDB = [id \in IDs |-> NoTree]
    /\ loadedCensus = [id \in IDs |-> NotLoaded] /\ rootIndex = [r \in Trees |-> NoID]
    /\ updates = <<>> /\ removing = {} /\ dbRestarts = 0

CdbNext ==
    \/ \E id \in WorkingIDs :
        \/ New(id) \/ Insert(id) \/ Del(id) \/ CleanupWorkingCensus(id)
        \/ \E r \in Roots : PublishCensus(id, r)
    \/ \E old \in SUBSET WorkingIDs : PurgeWorkingCensuses(old)
    \/ \E id \in IDs : Load(id) \/ RemoveDir(id)
    \/ \E r \in Roots : Import(r) \/ ImportAll(r)
    \/ \E a \in Addresses :
        \/ Del(a)
        \/ \E r \in Roots, streamed \in BOOLEAN : ImportByScopedAddress(a, r, streamed)
    \/ UpdateRoot \/ RestartDB

CdbSpec == CdbInit /\ [][CdbNext]_cdbVars

----------------------------------------------------------------------------
(* Properties                                                              *)

\* A census that is found by its root has that root, whoever imported,
\* published, loaded or removed what meanwhile; after a restart it may be empty,
\* but it is never another census.
RootIsTheRoot ==
    \A r \in Roots : IsLoaded(r) => TreeOf(r) = r \/ (dbRestarts > 0 /\ TreeOf(r) = 0)

\* While the node runs, no directory is left behind: it belongs to a stored
\* census or is about to be removed.
DirsAreOwned ==
    dbRestarts = 0 => \A id \in IDs : dirs[id] # NoTree => id \in refs \cup removing

=============================================================================
