----------------------------- MODULE MCCluster ------------------------------
(***************************************************************************)
(* The raft cluster and the forced transactions of the single sequencer,   *)
(* side by side.  They share no variable here, so one of them moves in a   *)
(* behaviour and the other keeps one initial state.                        *)
(***************************************************************************)
EXTENDS RaftCluster, ForcedInclusion

VARIABLE part

all == <<part, cVars, vars>>

(* Nothing is posted at the last DA height: with DAStartHeight 0 its epoch *)
(* is never complete, with 1 the one before it stands for it.              *)
MCInit ==
    /\ part \in {"raft", "forced"}
    /\ CInit
    /\ Init /\ blobs[MaxDAHeight] = 0
    /\ part # "forced" => daStartHeight = 1 /\ \A h \in DOMAIN blobs : blobs[h] = 0

MCNext ==
    \/ part = "raft" /\ CNext /\ UNCHANGED <<part, vars>>
    \/ part = "forced" /\ Next /\ UNCHANGED <<part, cVars>>

(* The fairness of each component, as its module states it.                *)
MCFairness ==
    /\ WF_cVars(part = "raft" /\ leader = None /\ \E n \in Nodes : Elect(n))
    /\ \A n \in Nodes :
         /\ WF_cVars(part = "raft" /\ Raft(n))
         /\ WF_cVars(part = "raft" /\ FollowerSyncs(n))
         /\ WF_cVars(part = "raft" /\ Election(n))
         /\ WF_cVars(part = "raft" /\ Production(n))
    /\ WF_vars(part = "forced" /\ DAGrows)
    /\ WF_vars(part = "forced" /\ (Start \/ NextBatch \/ UsePending \/ SavePending \/ CommitBlock))

MCSpec == MCInit /\ [][MCNext]_all /\ MCFairness

(* If from some time on no node of the cluster ends any more, the chain    *)
(* grows to its height (EventuallyExtends, of the behaviours in which the  *)
(* cluster moves).                                                         *)
ClusterExtends == (<>[](\A n \in Nodes : Up(n))) => []<>(part = "raft" => Extended)
=============================================================================
