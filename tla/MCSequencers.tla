---------------------------- MODULE MCSequencers ----------------------------
(***************************************************************************)
(* The mempool protocol of the single sequencer and the based sequencer,   *)
(* side by side.  They share no variable here, so one of them moves in a   *)
(* behaviour and the other keeps one initial state.                        *)
(***************************************************************************)
EXTENDS QueueProtocol, BasedSequencer

VARIABLE part

(* Nothing, or two valid forced transactions around one the filter removes. *)
MCPosts == {<<>>, <<TRUE, FALSE, TRUE>>}

all == <<part, vars, bVars>>

MCInit ==
    /\ part \in {"mempool", "based"}
    /\ Init /\ (part # "mempool" => legacy = <<>>)
    /\ BInit /\ (part # "based" => \A h \in DOMAIN bPosted : bPosted[h] = <<>>)

MCNext ==
    \/ part = "mempool" /\ Next /\ UNCHANGED <<part, bVars>>
    \/ part = "based" /\ BNext /\ UNCHANGED <<part, vars>>

(* The fairness of each component, as its module states it.                *)
MCFairness ==
    /\ WF_vars(part = "mempool" /\ RestartSequencer)
    /\ SF_vars(part = "mempool" /\ DrainBatch)
    /\ WF_vars(part = "mempool" /\ FilterBatch)
    /\ SF_vars(part = "mempool" /\ FilterSome)
    /\ SF_vars(part = "mempool" /\ SavePending)
    /\ WF_vars(part = "mempool" /\ UsePending)
    /\ SF_vars(part = "mempool" /\ CommitBlock)
    /\ WF_vars(part = "mempool" /\ AckBatch)
    /\ WF_bVars(part = "based" /\ DAGrowsBased)
    /\ WF_bVars(part = "based" /\ (NewBasedSequencer \/ GetNextBatch \/ SavePendingBased \/ CommitBased))

MCSpec == MCInit /\ [][MCNext]_all /\ MCFairness

(* What whole DA epochs hold reaches the chain of the based sequencer,     *)
(* unless something went wrong on the way (BasedEventually, of the         *)
(* behaviours in which it moves).                                          *)
BasedIncludes == []<>(part = "based" => BasedSettled)
=============================================================================
