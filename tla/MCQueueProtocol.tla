-------------------------- MODULE MCQueueProtocol --------------------------
(* Small instances of QueueProtocol.                                       *)
EXTENDS QueueProtocol, TLC

TxSymmetry == Permutations(Tx)
=============================================================================
