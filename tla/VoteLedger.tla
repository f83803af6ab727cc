----------------------------- MODULE VoteLedger -----------------------------
(***************************************************************************)
(* What a voter is promised by stages 4 and 5 of the pipeline and the      *)
(* process registry contract together: the contract counts votes in        *)
(* batches, none of which has a vote that is counted already, and forgets  *)
(* none; a node reports votes as settled that are counted by then, and     *)
(* never takes that back.                                                  *)
(***************************************************************************)
CONSTANT Votes

VARIABLES
    counted,    \* the votes in the contract's current state
    settled     \* the votes whose status is done

LedgerInit == counted = {} /\ settled = {}

\* The contract accepts a transition, of this node or of another sequencer.
Count(S) ==
    /\ S \cap counted = {}
    /\ counted' = counted \cup S
    /\ UNCHANGED settled

\* The node learns that the transition of S was accepted.
Settle(S) ==
    /\ S \subseteq counted
    /\ settled' = settled \cup S
    /\ UNCHANGED counted

LedgerNext == \E S \in SUBSET Votes : Count(S) \/ Settle(S)

LedgerSpec == LedgerInit /\ [][LedgerNext]_<<counted, settled>>
=============================================================================
