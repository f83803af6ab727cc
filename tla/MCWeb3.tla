------------------------------ MODULE MCWeb3 ------------------------------
(***************************************************************************)
(* Instances of the three parts of package web3 that a transaction goes    *)
(* through, for TLC.  They share no state: a behaviour is one of the       *)
(* transaction manager, of the endpoint pool or of the gas estimator.      *)
(***************************************************************************)
EXTENDS TxManager, Web3Pool, GasEstimate

VARIABLE part

allVars == <<txVars, web3Vars, gasVars, part>>

TxStep == part = "tx" /\ TxNext /\ UNCHANGED <<web3Vars, gasVars, part>>

PoolStep == part = "pool" /\ PoolNext /\ UNCHANGED <<txVars, gasVars, part>>

GasStep == part = "gas" /\ GasNext /\ UNCHANGED <<txVars, web3Vars, part>>

\* The idle parts rest in one of their initial states.
MCInit ==
    /\ part \in {"tx", "pool", "gas"}
    /\ TxInit /\ GasInit /\ PoolInit
    /\ part # "pool" => down = {} /\ available = <<CHOOSE e \in Endpoints : TRUE>>

MCNext == TxStep \/ PoolStep \/ GasStep

MCSpec == MCInit /\ [][MCNext]_allVars
=============================================================================
