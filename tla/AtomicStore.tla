---------------------------- MODULE AtomicStore -----------------------------
(***************************************************************************)
(* What db/interface.go promises of a database: a write transaction that   *)
(* commits takes effect at one moment, with everything it read as it is at *)
(* that moment, and one that fails has no effect.  A transaction is a      *)
(* program, a sequence of operations on the keys of one prefix; "set"      *)
(* stores one more than what was read last.                                *)
(***************************************************************************)
EXTENDS Integers, Sequences, Functions

CONSTANTS StoreKeys, Txs, Program, Initially

VARIABLES
    contents,   \* the value of each key, NoValue when there is none
    outcome,    \* "open", "committed" or "failed"
    answer      \* what each committed transaction read last

NoValue == 0

\* The reading of all values of a prefix, which are added up.
Total(view, prefix) == SumFunctionOnSet(view, {k \in DOMAIN view : k[1] = prefix})

\* What the n-th operation of t makes of the contents and the last reading.
Effect(t, n, b) ==
    LET o == Program[t].ops[n]
        k == <<Program[t].prefix, o.key>>
    IN  CASE o.op = "get" -> [b EXCEPT !.acc = b.view[k]]
          [] o.op = "iterate" -> [b EXCEPT !.acc = Total(b.view, k[1])]
          [] o.op = "set" -> [b EXCEPT !.view[k] = b.acc + 1]
          [] o.op = "delete" -> [b EXCEPT !.view[k] = NoValue]

\* The contents and the last reading after the first n operations of t.
After(t, view) ==
    LET after[n \in 0..Len(Program[t].ops)] ==
            IF n = 0 THEN [view |-> view, acc |-> 0] ELSE Effect(t, n, after[n - 1])
    IN  after

Run(t, view) == After(t, view)[Len(Program[t].ops)]

Execute(t) ==
    /\ outcome[t] = "open"
    /\ contents' = Run(t, contents).view
    /\ answer' = [answer EXCEPT ![t] = Run(t, contents).acc]
    /\ outcome' = [outcome EXCEPT ![t] = "committed"]

Fail(t) ==
    /\ outcome[t] = "open"
    /\ outcome' = [outcome EXCEPT ![t] = "failed"]
    /\ UNCHANGED <<contents, answer>>

AbsInit ==
    /\ contents = Initially
    /\ outcome = [t \in Txs |-> "open"] /\ answer = [t \in Txs |-> 0]

AbsNext == \E t \in Txs : Execute(t) \/ Fail(t)

AbsSpec == AbsInit /\ [][AbsNext]_<<contents, outcome, answer>>
=============================================================================
