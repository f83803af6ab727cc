--------------------------- MODULE ProcessMonitor ---------------------------
(***************************************************************************)
(* How the stored record of one process follows the contract: the event    *)
(* filters of web3/event_filters.go polled by MonitorProcessUpdates, the   *)
(* callbacks of service/process_monitor.go, and storage/process.go with    *)
(* its ticker that ends a process by the clock.  Every contract event is a *)
(* block of its own, numbered by its place in chainLog.                    *)
(* UpdateProcess is atomic (Storage.globalLock); census imports and the    *)
(* ticker's read-then-update are not.                                      *)
(***************************************************************************)
EXTENDS Integers, Sequences, FiniteSets, SequencesExt

CONSTANTS
    MaxEvents,          \* bound: contract events
    OwnerKinds,         \* kinds of event that the organizer may cause
    MaxPastBlocks,      \* maxPastBlocksToWatch
    MaxFaults,          \* bound: failed queries, imports and uploads
    MaxNodeRestarts     \* bound: crashes

ASSUME MonitorAssumption ==
    /\ MaxEvents \in Nat /\ MaxPastBlocks \in Nat /\ MaxFaults \in Nat /\ MaxNodeRestarts \in Nat
    /\ OwnerKinds \subseteq {"status", "root", "voters", "census"}

VARIABLES
    chainLog,       \* the contract's events, oldest first
    contract,       \* the contract's record of the process
    over,           \* whose clock has passed the end: subset of {"node", "chain"}
    record,         \* storage p/ : the process, or NoRecord
    known,          \* Contracts.knownProcesses holds the process
    watch,          \* lastWatchProcessChangesBlock
    poll,           \* MonitorProcessUpdates: [filter, next, end], filter = 0 when idle
    setup,          \* goroutine of newProcessCallback waiting for the census
    imports,        \* census updates being imported
    ender,          \* checkAndUpdateEndedProcesses has read an expired process
    running,        \* the node is up
    faults,         \* auxiliary: faults so far
    restarts,       \* auxiliary: crashes so far
    lost            \* auxiliary: kinds of event that never reached the record

chainVars == <<chainLog, contract, over>>
pollVars == <<known, watch, poll>>
faultVars == <<running, faults, restarts>>
monVars == <<chainVars, record, pollVars, setup, imports, ender, faultVars, lost>>

NoRecord == [status |-> "none", root |-> 0, voters |-> 0, census |-> 0, result |-> -1]
NoResult == -1
NewRecord == [NoRecord EXCEPT !.status = "ready"]
Final == {"results", "canceled"}

\* ProcessUpdatesFilters, in the order in which a poll applies them.
Filters == <<"created", "status", "root", "voters", "census">>

\* Kinds of event that update a stored process.
Kinds == ToSet(Filters) \ {"created"}

----------------------------------------------------------------------------
(* The contract                                                            *)

Emit(kind, val) == chainLog' = Append(chainLog, [kind |-> kind, val |-> val])

\* Room in the bounded log; the last block is kept for the results.
Room == Len(chainLog) < MaxEvents - 1

\* The organizer creates the process.
Create ==
    /\ chainLog = <<>>
    /\ Emit("created", 0) /\ contract' = NewRecord
    /\ UNCHANGED <<over, record, pollVars, setup, imports, ender, faultVars, lost>>

\* The organizer pauses, resumes, ends or cancels the process.
ChangeStatus(s) ==
    /\ "status" \in OwnerKinds /\ Room
    /\ contract.status \in {"ready", "paused"} /\ s # contract.status
    /\ Emit("status", s) /\ contract' = [contract EXCEPT !.status = s]
    /\ UNCHANGED <<over, record, pollVars, setup, imports, ender, faultVars, lost>>

\* A state transition of this or another sequencer is accepted.
Transition ==
    /\ "root" \in OwnerKinds /\ Room
    /\ contract.status = "ready" /\ "chain" \notin over
    /\ Emit("root", contract.root + 1) /\ contract' = [contract EXCEPT !.root = @ + 1]
    /\ UNCHANGED <<over, record, pollVars, setup, imports, ender, faultVars, lost>>

\* The organizer raises the number of voters, or replaces the census.
ChangeField(kind) ==
    /\ kind \in OwnerKinds \cap {"voters", "census"} /\ Room
    /\ contract.status \in {"ready", "paused"}
    /\ Emit(kind, contract[kind] + 1) /\ contract' = [contract EXCEPT ![kind] = @ + 1]
    /\ UNCHANGED <<over, record, pollVars, setup, imports, ender, faultVars, lost>>

\* The duration of the process has passed, by one of the two clocks.
TimeIsOver(clock) ==
    /\ contract # NoRecord /\ clock \notin over
    /\ over' = over \cup {clock}
    /\ UNCHANGED <<chainLog, contract, record, pollVars, setup, imports, ender, faultVars, lost>>

----------------------------------------------------------------------------
(* MonitorProcessUpdates                                                   *)

NotPolling == [filter |-> 0, next |-> 0, end |-> 0]

\* The ticker: the block range starts with the last block already processed.
PollStart(end) ==
    /\ running /\ poll.filter = 0
    /\ end \in (watch + 1)..Len(chainLog)
    /\ poll' = [filter |-> 1, next |-> watch, end |-> end]
    /\ UNCHANGED <<chainVars, record, known, watch, setup, imports, ender, faultVars, lost>>

\* What the poll has still to emit, as <<filter, block>>.
Todo ==
    {e \in (poll.filter..Len(Filters)) \X (watch..poll.end) :
        /\ e[2] > 0 /\ chainLog[e[2]].kind = Filters[e[1]]
        /\ e[1] = poll.filter => e[2] >= poll.next}

\* The emission that comes first: filter by filter, each in block order.
NextEvent == CHOOSE e \in Todo : \A x \in Todo : e[1] < x[1] \/ (e[1] = x[1] /\ e[2] <= x[2])

\* The query of a filter fails three times, before it has emitted anything: the
\* poll ends, and the next one applies all the filters to the range again.
FilterFails ==
    /\ running /\ poll.filter # 0 /\ faults < MaxFaults
    /\ \/ poll.next = watch
       \/ poll.filter < Len(Filters) /\ (\A e \in Todo : e[1] # poll.filter)
    /\ faults' = faults + 1
    /\ poll' = NotPolling
    /\ UNCHANGED <<chainVars, record, known, watch, setup, imports, ender, running, restarts,
                   lost>>

\* Mutant of PollDone: the blocks that came during the poll are skipped.
PollDoneSkips ==
    /\ running /\ poll.filter # 0 /\ Todo = {}
    /\ poll' = NotPolling /\ watch' = Len(chainLog)
    /\ UNCHANGED <<chainVars, record, known, setup, imports, ender, faultVars, lost>>

\* All the filters have emitted their events: the range is processed.
PollDone ==
    /\ running /\ poll.filter # 0 /\ Todo = {}
    /\ poll' = NotPolling /\ watch' = poll.end
    /\ UNCHANGED <<chainVars, record, known, setup, imports, ender, faultVars, lost>>

\* ProcessAtBlock fails for a creation event: NewProcessFilter goes on without
\* it.
CreationUnreadable ==
    /\ running /\ poll.filter = 1 /\ <<1, 1>> \in Todo /\ ~known /\ faults < MaxFaults
    /\ faults' = faults + 1
    /\ poll' = [poll EXCEPT !.next = 2]
    /\ lost' = lost \cup Kinds
    /\ UNCHANGED <<chainVars, record, known, watch, setup, imports, ender, running, restarts>>

----------------------------------------------------------------------------
(* The callbacks of the monitor, each on the next event of the filter      *)

\* IsActive, of the process as it was created.
IsActive == "node" \notin over

\* newProcessCallback: an active process is stored once its census is imported.
NewProcessCallback ==
    IF known THEN UNCHANGED <<record, known, setup, imports, lost>>
    ELSE /\ known' = TRUE
         /\ IF record # NoRecord \/ contract.status \in Final
            THEN UNCHANGED <<record, setup>>
            ELSE IF IsActive THEN setup' = TRUE /\ UNCHANGED record
            ELSE record' = NewRecord /\ UNCHANGED setup
         /\ UNCHANGED <<imports, lost>>

\* UpdateProcess: an update of a process that is not stored is dropped.
UpdateProcess(kind, new) ==
    /\ record' = IF record = NoRecord THEN record ELSE new
    /\ lost' = IF record = NoRecord THEN lost \cup {kind} ELSE lost

\* Mutant of StatusChangeCallback: the results are left to be read later.
StatusChangeCallbackOnly(s) ==
    /\ UpdateProcess("status", [record EXCEPT !.status = s])
    /\ UNCHANGED <<known, setup, imports>>

\* statusChangeCallback: results are read from the contract first.
StatusChangeCallback(s) ==
    /\ UpdateProcess("status",
            IF s = "results" THEN [record EXCEPT !.status = s, !.result = contract.result]
            ELSE [record EXCEPT !.status = s])
    /\ UNCHANGED <<known, setup, imports>>

\* stateRootChangeCallback; the voter counts come with the root.
StateRootChangeCallback(r) ==
    /\ UpdateProcess("root", [record EXCEPT !.root = r])
    /\ UNCHANGED <<known, setup, imports>>

\* maxVotersChangeCallback.
MaxVotersChangeCallback(n) ==
    /\ UpdateProcess("voters", [record EXCEPT !.voters = n])
    /\ UNCHANGED <<known, setup, imports>>

\* censusRootChangeCallback starts a goroutine that waits for the new census.
CensusRootChangeCallback(c) ==
    /\ imports' = IF record = NoRecord THEN imports ELSE imports \cup {c}
    /\ lost' = IF record = NoRecord THEN lost \cup {"census"} ELSE lost
    /\ UNCHANGED <<record, known, setup>>

\* monitorProcesses hands the filter's next event to its callback.
Deliver ==
    /\ running /\ poll.filter # 0 /\ Todo # {}
    /\ LET e == chainLog[NextEvent[2]]
       IN  /\ poll' = [poll EXCEPT !.filter = NextEvent[1], !.next = NextEvent[2] + 1]
           /\ CASE e.kind = "created" -> NewProcessCallback
                [] e.kind = "status" -> StatusChangeCallback(e.val)
                [] e.kind = "root" -> StateRootChangeCallback(e.val)
                [] e.kind = "voters" -> MaxVotersChangeCallback(e.val)
                [] e.kind = "census" -> CensusRootChangeCallback(e.val)
    /\ UNCHANGED <<chainVars, watch, ender, faultVars>>

\* The census of a new process is imported: NewProcess stores the process,
\* unless it exists.
SetupDone ==
    /\ running /\ setup
    /\ setup' = FALSE
    /\ record' = IF record = NoRecord THEN NewRecord ELSE record
    /\ UNCHANGED <<chainVars, pollVars, imports, ender, faultVars, lost>>

\* Its import fails: the process is never set up.
SetupFails ==
    /\ running /\ setup /\ faults < MaxFaults
    /\ setup' = FALSE /\ faults' = faults + 1 /\ lost' = lost \cup Kinds
    /\ UNCHANGED <<chainVars, record, pollVars, imports, ender, running, restarts>>

\* An updated census is imported and takes effect; one that finishes after a
\* newer one replaces it.
CensusImported(c) ==
    /\ running /\ c \in imports
    /\ imports' = imports \ {c}
    /\ record' = [record EXCEPT !.census = c]
    /\ lost' = IF c < record.census THEN lost \cup {"census"} ELSE lost
    /\ UNCHANGED <<chainVars, pollVars, setup, ender, faultVars>>

\* Its import fails: the process keeps the census that it has.
CensusImportFails(c) ==
    /\ running /\ c \in imports /\ faults < MaxFaults
    /\ imports' = imports \ {c} /\ faults' = faults + 1 /\ lost' = lost \cup {"census"}
    /\ UNCHANGED <<chainVars, record, pollVars, setup, ender, running, restarts>>

----------------------------------------------------------------------------
(* checkAndUpdateEndedProcesses                                            *)

EnderReads ==
    /\ running /\ ~ender
    /\ record # NoRecord /\ record.status \notin Final \cup {"ended"} /\ "node" \in over
    /\ ender' = TRUE
    /\ UNCHANGED <<chainVars, record, pollVars, setup, imports, faultVars, lost>>

\* Mutant of EnderWrites: the update starts from the record that was read.
EnderWritesNothing ==
    /\ running /\ ender
    /\ ender' = FALSE
    /\ UNCHANGED <<chainVars, record, pollVars, setup, imports, faultVars, lost>>

\* The update does not look at the status again.
EnderWrites ==
    /\ running /\ ender
    /\ ender' = FALSE
    /\ record' = [record EXCEPT !.status = "ended"]
    /\ UNCHANGED <<chainVars, pollVars, setup, imports, faultVars, lost>>

----------------------------------------------------------------------------
(* Crash and restart                                                       *)

\* What the node has in memory is gone.
StopMonitor ==
    /\ running' = FALSE /\ restarts' = restarts + 1
    /\ known' = FALSE /\ poll' = NotPolling /\ setup' = FALSE /\ imports' = {} /\ ender' = FALSE

Crash ==
    /\ running /\ restarts < MaxNodeRestarts
    /\ StopMonitor
    /\ lost' = IF imports # {} THEN lost \cup {"census"} ELSE lost
    /\ UNCHANGED <<chainVars, record, watch, faults>>

\* The first block that a new Contracts watches.
StartBlock == IF Len(chainLog) > MaxPastBlocks THEN Len(chainLog) - MaxPastBlocks ELSE 0

\* ProcessIsOnChainAlive, of the stored record.
OnChainAlive == record.status = "ready" /\ "node" \notin over

\* Updates that happened before the first watched block and were not processed.
Missed ==
    {kind \in Kinds :
        /\ \E i \in (watch + 1)..(StartBlock - 1) : chainLog[i].kind = kind
        /\ ~(kind = "root" /\ OnChainAlive)}

\* Start: initializeKnownProcesses, with syncActiveProcessesFromBlockchain, which
\* brings the root of an active process up to date.
StartMonitor ==
    /\ ~running
    /\ running' = TRUE /\ watch' = StartBlock /\ known' = (record # NoRecord)
    /\ record' = IF OnChainAlive THEN [record EXCEPT !.root = contract.root] ELSE record
    /\ lost' = lost \cup Missed
    /\ UNCHANGED <<chainVars, poll, setup, imports, ender, faults, restarts>>

----------------------------------------------------------------------------
MonInit ==
    /\ chainLog = <<>> /\ contract = NoRecord /\ over = {}
    /\ record = NoRecord /\ known = FALSE /\ watch = 0 /\ poll = NotPolling
    /\ setup = FALSE /\ imports = {} /\ ender = FALSE
    /\ running = TRUE /\ faults = 0 /\ restarts = 0 /\ lost = {}

ChainNext ==
    \/ Create \/ Transition
    \/ \E s \in {"ready", "paused", "ended", "canceled"} : ChangeStatus(s)
    \/ \E kind \in {"voters", "census"} : ChangeField(kind)
    \/ \E clock \in {"node", "chain"} : TimeIsOver(clock)

PollNext ==
    \/ \E end \in 1..MaxEvents : PollStart(end)
    \/ PollDone \/ Deliver

ImportNext == SetupDone \/ \E c \in imports : CensusImported(c)
EnderNext == EnderReads \/ EnderWrites
FaultNext ==
    \/ FilterFails \/ CreationUnreadable \/ SetupFails
    \/ \E c \in imports : CensusImportFails(c)

----------------------------------------------------------------------------
(* Properties                                                              *)

\* Fields of the record against the contract's; a process that is over by the
\* node's clock may be ended before the contract says so.
Agrees(kind) ==
    CASE kind = "status" ->
            \/ record.status = contract.status
            \/ record.status = "ended" /\ "node" \in over
      [] OTHER -> record[kind] = contract[kind]

\* Every field of a stored process comes to agree with the contract, whatever
\* queries fail and polls repeat: an event is only lost to a process that is not
\* stored yet, to an import that failed or was overtaken, or to a node that was
\* down for longer than the past blocks it watches.
RecordFollowsContract ==
    \A kind \in Kinds :
        []<>(~running \/ kind \in lost \/ record = NoRecord \/ Agrees(kind))

\* A process that is over is ended, or has a final status.
OverIsEnded ==
    (record # NoRecord /\ "node" \in over) ~> (record.status \in Final \cup {"ended"} \/ ~running)

=============================================================================
