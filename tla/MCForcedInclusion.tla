--------------------------- MODULE MCForcedInclusion ---------------------------
(* Forced inclusion on small instances; the instances differ only in the   *)
(* values their configurations give to the constants.                      *)
EXTENDS ForcedInclusion
=============================================================================
