------------------------------- MODULE MCSync -------------------------------
(***************************************************************************)
(* The sync node and the DA subscriber, side by side.  They share no       *)
(* variable here, so one of them moves in a behaviour and the other keeps  *)
(* one initial state.                                                      *)
(***************************************************************************)
EXTENDS Syncer, DASubscriber

VARIABLE part

(* Blocks 1, 2, 3 are the chain; 4 is block 2 signed again at a later time,  *)
(* 5 is the block 2 of the proposer that block 1 rotated out, 6 is block 1   *)
(* signed again.                                                             *)
Parent == <<0, 1, 2, 1, 1, 0>>
MCTxs == <<"t1", Empty, "t3", Empty, "t5", "t1">>
MCTime == <<1, 2, 3, 3, 2, 2>>
MCProposer == <<"A", "B", "B", "B", "A", "A">>
MCHeightOf == <<1, 2, 3, 2, 2, 1>>
MCRootOf == <<"r1", "r1", "r3", "r1", "r5", "r1">>
MCNamed == [i \in 1..6 |-> IF i \in {1, 6} THEN "B" ELSE NoOne]

MCDataOf ==
  [i \in 1..6 |-> [height |-> MCHeightOf[i], chain |-> ChainID, time |-> MCTime[i],
     txs |-> MCTxs[i], meta |-> TRUE,
     last |-> IF Parent[i] = 0 THEN NoHash
              ELSE <<MCHeightOf[Parent[i]], MCTime[Parent[i]], MCTxs[Parent[i]]>>]]
MCHeaderOf ==
  [i \in 1..6 |-> [height |-> MCHeightOf[i], chain |-> ChainID, time |-> MCTime[i],
     last |-> IF Parent[i] = 0 THEN NoHash ELSE <<"header", Parent[i]>>, data |-> MCTxs[i],
     app |-> IF Parent[i] = 0 THEN NoHash ELSE MCRootOf[Parent[i]],
     proposer |-> MCProposer[i], signer |-> MCProposer[i], addr |-> MCProposer[i],
     sig |-> [by |-> MCProposer[i], over |-> "sync"], id |-> <<"header", i>>]]

H(i) == [k |-> "header", id |-> i, env |-> "valid"]
Legacy(i) == [k |-> "header", id |-> i, env |-> "none"]
D(i) == [k |-> "data", id |-> i, env |-> "none"]
Junk == [k |-> "junk", id |-> 1, env |-> "bad"]

(* All of DA is there; a node without P2P reads it and restarts.              *)
CatchUp == [da |-> <<<<Legacy(1), D(1)>>, <<Junk, H(2), H(3)>>, <<D(3)>>>>, there |-> 3,
            p2p |-> <<>>, hint |-> <<>>, raft |-> <<>>, live |-> TRUE,
            restarts |-> 1, faults |-> 0]
(* The same with a failing call; and with DA growing under the node.         *)
Failing == [CatchUp EXCEPT !.restarts = 0, !.faults = 1]
Growing == [CatchUp EXCEPT !.restarts = 0, !.there = 0,
                            !.da = <<<<H(1)>>, <<D(1), H(2)>>, <<H(3)>>, <<D(3)>>>>]
(* P2P runs ahead of DA and hints at it.                                     *)
Hinted == [da |-> <<<<H(1)>>, <<D(1), H(2)>>>>, there |-> 2,
           p2p |-> <<1, 2>>, hint |-> <<<<1, 2>>, <<2, 0>>>>, raft |-> <<>>, live |-> TRUE,
           restarts |-> 0, faults |-> 0]
(* P2P is ahead when the node restarts.                                      *)
Resumed == [da |-> <<<<H(1), D(1)>>, <<H(2)>>>>, there |-> 2,
            p2p |-> <<1>>, hint |-> <<<<0, 0>>>>, raft |-> <<>>, live |-> TRUE,
            restarts |-> 1, faults |-> 0]
(* DA holds block 2 as signed again, raft as signed first.                   *)
Resigned == [da |-> <<<<H(1), D(1)>>, <<H(4)>>>>, there |-> 2,
             p2p |-> <<>>, hint |-> <<>>, raft |-> <<1, 2>>,
             live |-> FALSE, restarts |-> 0, faults |-> 0]
(* The proposer rotated out after block 1 posted its own block 2 first.      *)
Rotated == [da |-> <<<<H(5), H(1)>>, <<D(1), D(5), H(2)>>, <<H(3), D(3)>>>>, there |-> 3,
            p2p |-> <<>>, hint |-> <<>>, raft |-> <<1>>, live |-> FALSE,
            restarts |-> 0, faults |-> 0]
(* DA holds blocks 1 and 2 as signed again, and block 3 on the first 2.      *)
Twice == [Rotated EXCEPT !.da = <<<<H(6), D(6)>>, <<H(4), H(3)>>, <<D(3)>>>>, !.raft = <<>>,
                         !.restarts = 1]
MCScenarios == <<CatchUp, Failing, Growing, Hinted, Resumed, Resigned, Rotated, Twice>>

all == <<part, syncVars, vars>>

(* The subscriber has one namespace: with two, all that changes is that an   *)
(* inline event may cover half a height, which exempts the behaviour from    *)
(* then on.                                                                  *)
MCInit ==
  /\ part \in {"sync", "subscriber"}
  /\ SyncInit /\ (part # "sync" => Now = Rotated)
  /\ Init /\ ~split

MCNext ==
  \/ part = "sync" /\ SyncNext /\ UNCHANGED <<part, vars>>
  \/ part = "subscriber" /\ Next /\ UNCHANGED <<part, syncVars>>

\* The fairness of each component, as its module states it.
MCFairness ==
  /\ WF_syncVars(part = "sync" /\ RestartSyncer) /\ WF_syncVars(part = "sync" /\ DAGrow)
  /\ WF_syncVars(part = "sync" /\ Follow) /\ WF_syncVars(part = "sync" /\ Process)
  /\ WF_syncVars(part = "sync" /\ Pending) /\ WF_syncVars(part = "sync" /\ P2PWork)
  /\ WF_syncVars(part = "sync" /\ Inclusion)
  /\ WF_vars(part = "subscriber" /\ FollowStep) /\ WF_vars(part = "subscriber" /\ CatchupStep)
  /\ SF_vars(part = "subscriber" /\ HandleCatchup)

MCSpec == MCInit /\ [][MCNext]_all /\ MCFairness
=============================================================================
