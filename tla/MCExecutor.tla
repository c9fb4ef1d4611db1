----------------------------- MODULE MCExecutor -----------------------------
(* Small instances of Executor.                                            *)
EXTENDS Executor, TLC

PayloadSymmetry == Permutations(Payload)
=============================================================================
