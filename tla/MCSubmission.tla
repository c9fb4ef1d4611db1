---------------------------- MODULE MCSubmission ----------------------------
(***************************************************************************)
(* The submission of blocks to DA and the start-up of a node, side by      *)
(* side.  They share no variable here, so one of them moves in a behaviour *)
(* and the other keeps one initial state.                                  *)
(***************************************************************************)
EXTENDS DASubmission, NodeStart

VARIABLE part

MCSize == [header |-> [h \in 1..MaxHeight |-> 1], data |-> [h \in 1..MaxHeight |-> IF h = 1 THEN 2 ELSE 1]]
Plain == [strategy |-> "immediate", stored |-> 0, foreign |-> {}, top |-> MaxHeight, faults |-> 0, crashes |-> 0]
(* A fault in a process that goes on; a restart; the other strategies, two of *)
(* them with a fault; a store begun by another signer.                        *)
MCScenarios == <<[Plain EXCEPT !.faults = 1, !.stored = 2],
                 [Plain EXCEPT !.crashes = 1, !.top = 2, !.stored = 2],
                 [Plain EXCEPT !.strategy = "adaptive", !.faults = 1, !.top = 2, !.stored = 2],
                 [Plain EXCEPT !.strategy = "time", !.stored = 2],
                 [Plain EXCEPT !.strategy = "size", !.stored = 2, !.top = 2, !.faults = 1],
                 [Plain EXCEPT !.foreign = {1}, !.top = 2, !.stored = 2]>>

\* An aggregator that lost its tail, with and without peers; an aggregator that
\* lost nothing; a follower; a raft leader of a new chain; a promotable node.
MCStarts == <<
  [kind |-> "single", role |-> "leader", catchup |-> TRUE, peers |-> TRUE, stored |-> 0, top |-> 2, da |-> 1],
  [kind |-> "single", role |-> "leader", catchup |-> TRUE, peers |-> TRUE, stored |-> 1, top |-> 3, da |-> 2],
  [kind |-> "single", role |-> "leader", catchup |-> TRUE, peers |-> FALSE, stored |-> 0, top |-> 3, da |-> 3],
  [kind |-> "single", role |-> "leader", catchup |-> FALSE, peers |-> FALSE, stored |-> 1, top |-> 1, da |-> 1],
  [kind |-> "single", role |-> "follower", catchup |-> FALSE, peers |-> TRUE, stored |-> 0, top |-> 3, da |-> 2],
  [kind |-> "raft", role |-> "leader", catchup |-> FALSE, peers |-> TRUE, stored |-> 0, top |-> 0, da |-> 0],
  [kind |-> "promotable", role |-> "follower", catchup |-> TRUE, peers |-> TRUE, stored |-> 1, top |-> 2, da |-> 2],
  [kind |-> "promotable", role |-> "follower", catchup |-> FALSE, peers |-> TRUE, stored |-> 1, top |-> 1, da |-> 1]>>

all == <<part, dasVars, nVars>>

MCInit ==
  /\ part \in {"submission", "start"}
  /\ SubInit /\ (part # "submission" => scn = Len(SubScenarios))
  /\ NInit /\ (part # "start" => start = Len(Starts) /\ peersUp)

MCNext ==
  \/ part = "submission" /\ SubNext /\ UNCHANGED <<part, nVars>>
  \/ part = "start" /\ NNext /\ UNCHANGED <<part, dasVars>>

\* The fairness of each component, as its module states it.
MCFairness ==
  /\ WF_dasVars(part = "submission" /\ Produce) /\ WF_dasVars(part = "submission" /\ Tick)
  /\ WF_dasVars(part = "submission" /\ Loop) /\ WF_dasVars(part = "submission" /\ StartSub)
  /\ \A k \in Kinds : WF_dasVars(part = "submission" /\ Work(k))
  /\ WF_dasVars(part = "submission" /\ IncludeBlocks)
  /\ WF_nVars(part = "start" /\ BindPort) /\ WF_nVars(part = "start" /\ ServicesUp)
  /\ WF_nVars(part = "start" /\ DAFollow) /\ WF_nVars(part = "start" /\ P2PWorker)
  /\ WF_nVars(part = "start" /\ ProcessLoop) /\ WF_nVars(part = "start" /\ PendingWorker)
  /\ WF_nVars(part = "start" /\ CatchupPoll) /\ SF_nVars(part = "start" /\ P2PDeadline)
  /\ WF_nVars(part = "start" /\ StopSyncer) /\ WF_nVars(part = "start" /\ RoleSwitch)
  /\ \A k \in Services : /\ WF_nVars(part = "start" /\ StartService(k))
                         /\ WF_nVars(part = "start" /\ (TryInit(k) \/ GiveUpInit(k)))
                         /\ WF_nVars(part = "start" /\ FetchItem(k))

MCSpec == MCInit /\ [][MCNext]_all /\ MCFairness

\* Every start comes to an end, in the role's run or in the exit of the node
\* (EventuallySettles, of the behaviours in which the node starts).
StartSettles == <>[](part = "start" => run.pc \in {"run", "exited"})
=============================================================================
