------------------------------ MODULE Mempool ------------------------------
(***************************************************************************)
(* What a sequencer promises to whoever submits a transaction to it: an    *)
(* accepted transaction stays pending, over any number of crashes, until   *)
(* it is put on chain, once, or the execution layer refuses it.            *)
(***************************************************************************)
CONSTANT Tx

VARIABLES
    pending,    \* accepted, neither on chain nor refused
    onChain,    \* committed in some block
    rejected    \* the execution layer's current verdict

mempoolVars == <<pending, onChain, rejected>>

Init ==
    /\ pending \in SUBSET Tx
    /\ onChain = {}
    /\ rejected = {}

Accept(txs) ==
    /\ txs \cap onChain = {}
    /\ pending' = pending \cup txs
    /\ UNCHANGED <<onChain, rejected>>

(* A block may commit only what is pending.                                *)
Commit(txs) ==
    /\ txs \subseteq pending
    /\ pending' = pending \ txs
    /\ onChain' = onChain \cup txs
    /\ UNCHANGED rejected

(* The execution layer's filter may reject transactions, and only those it *)
(* rejects may be dropped.                                                 *)
Judge(txs) ==
    /\ rejected' = txs
    /\ UNCHANGED <<pending, onChain>>

Refuse(txs) ==
    /\ txs \subseteq pending \cap rejected
    /\ pending' = pending \ txs
    /\ rejected' = {}
    /\ UNCHANGED onChain

Next == \E txs \in SUBSET Tx : Accept(txs) \/ Commit(txs) \/ Judge(txs) \/ Refuse(txs)

Spec == Init /\ [][Next]_mempoolVars
=============================================================================
