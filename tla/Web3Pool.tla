------------------------------ MODULE Web3Pool ------------------------------
(***************************************************************************)
(* The pool of RPC endpoints of one chain (web3/rpc): Web3Iterator hands   *)
(* out endpoints round robin, failing ones are disabled for a cooldown,    *)
(* and retrySwitchingEndpoints runs a call on one endpoint after another.  *)
(* Calls run concurrently; each method of Web3Iterator is atomic under its *)
(* mutex, a call makes several of them.                                    *)
(***************************************************************************)
EXTENDS Integers, Sequences, FiniteSets, SequencesExt

CONSTANTS
    Endpoints,      \* web3 endpoints
    Callers,        \* concurrent RPC calls
    MaxCalls,       \* bound: calls per caller
    MaxFlaky        \* bound: failures of endpoints that are up

ASSUME PoolAssumption == IsFiniteSet(Endpoints) /\ {MaxCalls, MaxFlaky} \subseteq Nat

VARIABLES
    available,      \* Web3Iterator.available
    disabled,       \* Web3Iterator.disabled, oldest first
    nextIndex,      \* index into available, from 0
    cooled,         \* how many of disabled have passed their cooldown
    down,           \* endpoints that answer nothing
    flaky,
    rpc             \* caller -> the state of its call

poolVars == <<available, disabled, nextIndex, cooled>>
web3Vars == <<poolVars, down, flaky, rpc>>

NoEndpoint == "no endpoint"
Known == ToSet(available) \cup ToSet(disabled)

NoCall == [pc |-> "idle", total |-> 0, attempts |-> 0, tried |-> {}, at |-> NoEndpoint,
           alone |-> TRUE, calls |-> 0]

\* A call that is under way while something else changes the pool (auxiliary).
Disturbed(c) == [rpc[c] EXCEPT !.alone = FALSE]

Disturb(c, new) == [d \in Callers |-> IF d = c THEN new ELSE Disturbed(d)]

----------------------------------------------------------------------------
(* Web3Iterator                                                            *)

\* AddEndpoint: a dialled endpoint joins the available ones (Add).
AddEndpoint(e) ==
    /\ e \notin Known
    /\ available' = Append(available, e)
    /\ rpc' = [c \in Callers |-> Disturbed(c)]
    /\ UNCHANGED <<disabled, nextIndex, cooled, down, flaky>>

\* The cooldown of the oldest disabled endpoint that still has one passes.  A
\* call, with its timeouts of seconds, is over before the 5 minutes of the
\* endpoints it disabled.
CooldownPasses ==
    /\ cooled < Len(disabled)
    /\ \A c \in Callers : rpc[c].pc \in {"rotate", "call"}
            => disabled[cooled + 1] \notin rpc[c].tried
    /\ cooled' = cooled + 1
    /\ UNCHANGED <<available, disabled, nextIndex, down, flaky, rpc>>

\* Next: checkCooldowns, then round robin.
NextEndpoint(use(_)) ==
    LET avail == available \o SubSeq(disabled, 1, cooled)
    IN  /\ avail # <<>>
        /\ available' = avail
        /\ disabled' = SubSeq(disabled, cooled + 1, Len(disabled))
        /\ cooled' = 0
        /\ nextIndex' = (nextIndex + 1) % Len(avail)
        /\ use(avail[nextIndex + 1])

\* Mutant of Disable: the list shrinks and the index stays.
DisableKeepsIndex(e) ==
    LET rest == SelectSeq(available, LAMBDA f : f # e)
        gone == Append(disabled, e)
    IN  IF e \notin ToSet(available) THEN UNCHANGED poolVars
        ELSE IF rest = <<>>
        THEN available' = gone /\ disabled' = <<>> /\ cooled' = 0 /\ nextIndex' = 0
        ELSE available' = rest /\ disabled' = gone /\ UNCHANGED <<cooled, nextIndex>>

\* Disable: the endpoint moves to the disabled list and the index follows; an
\* endpoint that is not available is left alone.  When nothing is available
\* any more, everything is.
Disable(e) ==
    LET i == CHOOSE k \in DOMAIN available : available[k] = e
        rest == RemoveAt(available, i)
        gone == Append(disabled, e)
        next == IF nextIndex = i - 1 THEN nextIndex + 1
                ELSE IF nextIndex > i - 1 THEN nextIndex - 1 ELSE nextIndex
    IN  IF e \notin ToSet(available) THEN UNCHANGED poolVars
        ELSE IF rest = <<>>
        THEN available' = gone /\ disabled' = <<>> /\ cooled' = 0 /\ nextIndex' = 0
        ELSE /\ available' = rest /\ disabled' = gone
             /\ nextIndex' = IF next >= Len(rest) THEN 0 ELSE next
             /\ UNCHANGED cooled

----------------------------------------------------------------------------
(* retrySwitchingEndpoints                                                 *)

\* NumberOfEndpoints counts the available endpoints ...
StartCall(c) ==
    /\ rpc[c].pc \in {"idle", "done", "refused", "failed"} /\ rpc[c].calls < MaxCalls
    /\ available # <<>>
    /\ rpc' = [rpc EXCEPT ![c] = [NoCall EXCEPT !.pc = "count", !.total = Len(available),
                                                !.calls = rpc[c].calls + 1]]
    /\ UNCHANGED <<poolVars, down, flaky>>

\* Mutant of CountDisabled: the disabled endpoints are not counted.
CountDisabledNot(c) ==
    /\ rpc[c].pc = "count"
    /\ rpc' = [rpc EXCEPT ![c].pc = "rotate"]
    /\ UNCHANGED <<poolVars, down, flaky>>

\* ... and then the disabled ones, in two critical sections.
CountDisabled(c) ==
    /\ rpc[c].pc = "count"
    /\ rpc' = [rpc EXCEPT ![c].pc = "rotate", ![c].total = @ + Len(disabled)]
    /\ UNCHANGED <<poolVars, down, flaky>>

\* The loop: another endpoint, unless as many as were counted have failed or
\* the rotation returns one that this call has tried already.
Rotate(c) ==
    /\ rpc[c].pc = "rotate"
    /\ \/ /\ rpc[c].attempts >= rpc[c].total
          /\ rpc' = [rpc EXCEPT ![c].pc = "failed"]
          /\ UNCHANGED poolVars
       \/ /\ rpc[c].attempts < rpc[c].total
          /\ NextEndpoint(LAMBDA e :
                rpc' = Disturb(c, IF e \in rpc[c].tried
                                  THEN [rpc[c] EXCEPT !.pc = "failed"]
                                  ELSE [rpc[c] EXCEPT !.pc = "call", !.at = e,
                                                      !.tried = @ \cup {e}]))
    /\ UNCHANGED <<down, flaky>>

\* The endpoint answers: a result, or an error that no endpoint would change
\* (IsPermanentTxError).
Answer(c) ==
    /\ rpc[c].pc = "call"
    /\ rpc[c].at \notin down
    /\ \E out \in {"done", "refused"} : rpc' = [rpc EXCEPT ![c].pc = out]
    /\ UNCHANGED <<poolVars, down, flaky>>

\* Every retry on the endpoint fails; it is disabled and the loop goes on.
EndpointFails(c) ==
    /\ rpc[c].pc = "call"
    /\ \/ rpc[c].at \in down /\ UNCHANGED flaky
       \/ rpc[c].at \notin down /\ flaky < MaxFlaky /\ flaky' = flaky + 1
    /\ Disable(rpc[c].at)
    /\ rpc' = Disturb(c, [rpc[c] EXCEPT !.pc = "rotate", !.attempts = @ + 1])
    /\ UNCHANGED down

----------------------------------------------------------------------------
PoolInit ==
    /\ \E e \in Endpoints : available = <<e>>
    /\ disabled = <<>> /\ nextIndex = 0 /\ cooled = 0
    /\ down \in SUBSET Endpoints /\ flaky = 0
    /\ rpc = [c \in Callers |-> NoCall]

CallNext(c) ==
    StartCall(c) \/ CountDisabled(c) \/ Rotate(c) \/ Answer(c) \/ EndpointFails(c)

PoolNext ==
    \/ \E e \in Endpoints : AddEndpoint(e)
    \/ CooldownPasses
    \/ \E c \in Callers : CallNext(c)

PoolSpec == PoolInit /\ [][PoolNext]_web3Vars

----------------------------------------------------------------------------
(* Properties                                                              *)

\* The index that Next uses without a check is always inside the list, and
\* there is always an endpoint to hand out ("the next index can not be
\* invalid at this point").
IndexValid == available # <<>> /\ nextIndex \in 0 .. (Len(available) - 1)

\* A call gives up only after every endpoint of the pool has failed it, unless
\* another call or a new endpoint moved the rotation meanwhile.
GivesUpAfterAll ==
    \A c \in Callers : rpc[c].pc = "failed" /\ rpc[c].alone => Known \subseteq rpc[c].tried
=============================================================================
