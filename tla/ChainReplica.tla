---------------------------- MODULE ChainReplica ----------------------------
(***************************************************************************)
(* What a sync node promises whatever its sources do: it holds a log of    *)
(* blocks that only grows at its end, one admissible block at a time, and  *)
(* declares a prefix of it final, one block at a time.  Restarts change    *)
(* neither.                                                                *)
(***************************************************************************)
EXTENDS Integers, Sequences

CONSTANTS
  Block,                 \* the blocks there are
  Admissible(_, _)       \* may block b follow the log?

VARIABLES log, finalized

Init == log = <<>> /\ finalized = 0

Append1(b) ==
  /\ log' = Append(log, b)
  /\ Admissible(log, b)
  /\ UNCHANGED finalized

Finalize ==
  /\ finalized < Len(log)
  /\ finalized' = finalized + 1
  /\ UNCHANGED log

Grow == Len(log') > Len(log) /\ \E b \in Block : Append1(b)

Next == Finalize \/ Grow

Spec == Init /\ [][Next]_<<log, finalized>>
=============================================================================
