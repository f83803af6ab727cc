---------------------------- MODULE GasEstimate ----------------------------
(***************************************************************************)
(* EstimateGas (web3/txmanager/txgas.go): the node's own estimate, or else *)
(* a binary search with eth_call between limits taken from the last result *)
(* for the same contract method, then a safety margin and a clamp.         *)
(*                                                                         *)
(* Several goroutines estimate calls of one method at the same time and    *)
(* share its cached hint.  Every eth_call is a step of its own; it also    *)
(* fails when the endpoint does or the time for the estimate is over.      *)
(***************************************************************************)
EXTENDS Integers

CONSTANTS
    MinGas, MaxGas, SafetyBps, Fallback,    \* GasEstimateOpts
    Precision,                              \* the search stops at this distance
    Estimators,                             \* the goroutines
    Needs,                                  \* what a call may need
    Floors                                  \* floorGasLimit of the callers

ASSUME GasAssumption ==
    /\ MinGas \in Nat /\ MaxGas \in Nat /\ MinGas <= MaxGas /\ Fallback \in Nat
    /\ SafetyBps \in Nat /\ Precision \in Nat \ {0}
    /\ Needs \subseteq Nat /\ Floors \subseteq Nat

VARIABLES
    gasCache,       \* TxManager.gasCache of one key, 0 if absent
    estimate        \* of each goroutine: where it is, what it knows, its result

gasVars == <<gasCache, estimate>>

NoEstimate == [pc |-> "idle", need |-> 0, floor |-> 0, hint |-> 0, low |-> 0, high |-> 0,
               lost |-> FALSE, gas |-> 0]

\* applySafetyMargin
ApplySafetyMargin(gas, floor) ==
    LET more == gas + (gas * SafetyBps) \div 10000
        least == IF more < MinGas THEN MinGas ELSE more
        floored == IF least < floor THEN floor ELSE least
    IN  IF floored > MaxGas THEN MaxGas ELSE floored

\* The limits of the search: half and twice the cached hint.
SearchLow(hint) == IF hint > 0 /\ hint \div 2 > MinGas THEN hint \div 2 ELSE MinGas
SearchHigh(hint) == IF hint > 0 /\ hint * 2 < MaxGas THEN hint * 2 ELSE MaxGas

\* eth_call with a limit succeeds, or it fails for want of gas or is lost.
CallSucceeds(x, limit) == limit >= x.need
Failed(x, limit, next) == [next EXCEPT !.lost = x.lost \/ limit >= x.need]

Goto(e, new) == estimate' = [estimate EXCEPT ![e] = new]

\* The margin is added to what was found.
ReturnGas(e, by, found) ==
    Goto(e, [estimate[e] EXCEPT !.pc = by, !.gas = ApplySafetyMargin(found, estimate[e].floor)])

----------------------------------------------------------------------------
Begin(e, need, floor) ==
    /\ estimate[e].pc \in {"idle", "node", "first", "search", "fallback"}
    /\ Goto(e, [NoEstimate EXCEPT !.pc = "asking", !.need = need, !.floor = floor])
    /\ UNCHANGED gasCache

\* The node estimates what the call needs.
EstimateByNode(e) ==
    /\ estimate[e].pc = "asking"
    /\ ReturnGas(e, "node", estimate[e].need)
    /\ UNCHANGED gasCache

\* eth_estimateGas fails and the binary search takes over, or has no client.
StartSearch(e) ==
    /\ estimate[e].pc = "asking"
    /\ \/ Goto(e, [estimate[e] EXCEPT !.pc = "low", !.hint = gasCache,
                        !.low = SearchLow(gasCache), !.high = SearchHigh(gasCache)])
       \/ Goto(e, [estimate[e] EXCEPT !.pc = "fallback", !.lost = TRUE, !.gas = Fallback])
    /\ UNCHANGED gasCache

\* The lower limit may do already.
TryLow(e) ==
    LET x == estimate[e]
    IN  /\ x.pc = "low"
        /\ \/ CallSucceeds(x, x.low) /\ ReturnGas(e, "first", x.low)
           \/ Goto(e, Failed(x, x.low, [x EXCEPT !.pc = "high"]))
        /\ UNCHANGED gasCache

\* Mutant of TryHigh: the outcome of the call is not looked at.
TryHighAnyway(e) ==
    LET x == estimate[e]
    IN  /\ x.pc = "high"
        /\ Goto(e, [x EXCEPT !.pc = "loop"])
        /\ UNCHANGED gasCache

\* If the upper limit fails, the fallback is used as it is.
TryHigh(e) ==
    LET x == estimate[e]
    IN  /\ x.pc = "high"
        /\ \/ CallSucceeds(x, x.high) /\ Goto(e, [x EXCEPT !.pc = "loop"])
           \/ Goto(e, Failed(x, x.high, [x EXCEPT !.pc = "fallback", !.gas = Fallback]))
        /\ UNCHANGED gasCache

\* The condition of the loop.
Apart(x) == x.low + Precision < x.high

\* One turn of the loop.
TryMid(e) ==
    LET x == estimate[e]
        mid == (x.low + x.high) \div 2
    IN  /\ x.pc = "loop" /\ Apart(x)
        /\ \/ CallSucceeds(x, mid) /\ Goto(e, [x EXCEPT !.high = mid])
           \/ Goto(e, Failed(x, mid, [x EXCEPT !.low = mid + 1]))
        /\ UNCHANGED gasCache

\* The result is cached, whatever others have cached meanwhile.
FinishSearch(e) ==
    LET x == estimate[e]
    IN  /\ x.pc = "loop" /\ ~Apart(x)
        /\ gasCache' = x.high
        /\ ReturnGas(e, "search", x.high)

----------------------------------------------------------------------------
GasInit ==
    /\ gasCache = 0
    /\ estimate = [e \in Estimators |-> NoEstimate]

GasNext == \E e \in Estimators :
    \/ \E need \in Needs, floor \in Floors : Begin(e, need, floor)
    \/ EstimateByNode(e) \/ StartSearch(e)
    \/ TryLow(e) \/ TryHigh(e) \/ TryMid(e) \/ FinishSearch(e)

GasSpec == GasInit /\ [][GasNext]_gasVars

----------------------------------------------------------------------------
(* Properties                                                              *)

\* A limit that the code derives from an estimate or a search suffices for the
\* call, whichever calls of the search were lost.  The fallback is used only when
\* one was, or for a call that needs more than the search could try: more than
\* MaxGas, or more than twice the hint left by an earlier call.
EstimateSuffices ==
    \A e \in Estimators :
        LET x == estimate[e]
        IN  /\ x.pc \in {"node", "first", "search"} /\ x.need <= MaxGas => x.gas >= x.need
            /\ x.pc = "fallback" => \/ x.lost \/ x.need > MaxGas
                                    \/ x.hint > 0 /\ x.need > 2 * x.hint

\* A search that loses no call ends at most Precision above what the call needs,
\* wherever the hints of concurrent searches made it start.
SearchIsTight ==
    \A e \in Estimators :
        LET x == estimate[e]
        IN  x.pc = "search" /\ ~x.lost => x.high <= x.need + Precision
=============================================================================
