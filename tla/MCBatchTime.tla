----------------------------- MODULE MCBatchTime -----------------------------
(* Block times on small instances.                                         *)
EXTENDS BatchTime
=============================================================================
