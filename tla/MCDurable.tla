----------------------------- MODULE MCDurable ------------------------------
(***************************************************************************)
(* Five components with durable state, side by side: the batch queue, the  *)
(* client of the execution layer, the block store, the P2P stores and the  *)
(* block times of the sequencer.  They share no variable here, so one of   *)
(* them moves in a behaviour and the others keep one initial state.        *)
(***************************************************************************)
EXTENDS BatchQueue, EngineClient, BlockStore, P2PStore, BatchTime

VARIABLE part

(* A block, one of the same second with other transactions, one of another *)
(* second.                                                                 *)
MCInputs == {[t |-> 1, tx |-> 1], [t |-> 1, tx |-> 2], [t |-> 2, tx |-> 1]}

(* Inputs are compared at one height only: where neither a record nor the  *)
(* execution layer has an attempt, the input is a fixed one.               *)
FirstInput ==
    cand = NoInput /\ cand' # NoInput /\ meta[next] = NoMeta /\ getBlockInfo(next) = NoBlock
      => cand' = [t |-> 1, tx |-> 1]

all == <<part, queueVars, gVars, bVars, pVars, tvars>>

MCInit ==
    /\ part \in {"queue", "engine", "blocks", "p2p", "time"}
    /\ QueueInit /\ (part # "queue" => wal = <<>> /\ legacy = <<>>)
    /\ GInit
    /\ BInit /\ (part # "blocks" => conf = CHOOSE c \in Confs : TRUE)
    /\ PInit /\ (part # "p2p" => stored = 0)
    /\ TimedInit /\ (part # "time" => \A h \in DOMAIN blobs : blobs[h] = 0)

MCNext ==
    \/ part = "queue" /\ QueueNext /\ UNCHANGED <<part, gVars, bVars, pVars, tvars>>
    \/ part = "engine" /\ GNext /\ FirstInput /\ UNCHANGED <<part, queueVars, bVars, pVars, tvars>>
    \/ part = "blocks" /\ BNext /\ UNCHANGED <<part, queueVars, gVars, pVars, tvars>>
    \/ part = "p2p" /\ PNext /\ UNCHANGED <<part, queueVars, gVars, bVars, tvars>>
    \/ part = "time" /\ TimedNext /\ UNCHANGED <<part, queueVars, gVars, bVars, pVars>>

MCSpec == MCInit /\ [][MCNext]_all
=============================================================================
