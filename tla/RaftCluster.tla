---------------------------- MODULE RaftCluster ----------------------------
(***************************************************************************)
(* A sequencer cluster: nodes that elect a leader with raft, replicate     *)
(* each block state through raft's log and switch between following and    *)
(* producing (pkg/raft, node/failover.go and the raft parts of the         *)
(* executor and the syncer).                                               *)
(*                                                                         *)
(* Raft itself (hashicorp/raft) is external and appears as its contract: a *)
(* committed log, one leader that can commit, and per node the index known *)
(* committed and the index applied.  A node learns that it leads before    *)
(* the no-op of its term is committed; until then it may not know that     *)
(* entries of the previous term are.                                       *)
(*                                                                         *)
(* A block is [h, id, prev, t]: its height, its identity, the identity of  *)
(* its parent and its time.                                                *)
(***************************************************************************)
EXTENDS Integers, Sequences, Functions

CONSTANTS
  Nodes,
  TopHeight,          \* bound: height of the chain
  MaxMade,            \* bound: blocks made
  MaxLog,             \* bound: entries of raft's log
  MaxRaftFaults,          \* bound: elections while a leader exists, crashes, timeouts
  TimesRepeat         \* a block may carry its parent's time

ASSUME RaftClusterAssumption ==
  {TopHeight, MaxMade, MaxLog, MaxRaftFaults} \subseteq Nat /\ TimesRepeat \in BOOLEAN

None == "none"
ASSUME NoneAssumption == None \notin Nodes

VARIABLES
  log,                \* raft: the committed entries, which are blocks
  fsm,                \* the state machine after each entry, the same at every node
  leader,             \* raft: who can commit, or None
  believes,           \* raft: the nodes whose state is Leader
  commit, applied,    \* raft: indexes known committed and applied, by node
  notice,             \* raft: leaderCh, the latest value only
  role,               \* where a node's election loop and its worker are
  stores,              \* the node's store: a sequence of blocks
  pend,               \* the stored pending block of the next height, or NoBlock
  exec,               \* the height of the node's execution layer
  made,               \* blocks made so far
  raftFaults,             \* counts against the bound
  wedged,             \* history: a leader without a worker could not abdicate
  refused             \* history: raft's state machine did not take a leader's block

raftVars == <<log, fsm, leader, believes, commit, applied, notice>>
nodeVars == <<role, stores, pend, exec, made>>
countVars == <<raftFaults, wedged, refused>>
cVars == <<raftVars, nodeVars, countVars>>

NoBlock == [h |-> 0, id |-> 0, prev |-> 0, t |-> 0]

\* Roles: the follower's worker runs in all of Following; "landing", "check" and
\* "syncwait" are a follower that became leader, "landingNew" one not started yet.
Following == {"follower", "landing", "check", "syncwait"}
Leading == {"ready", "apply", "propose", "commit"}
Up(n) == role[n] # "down"
Tip(n) == IF stores[n] = <<>> THEN NoBlock ELSE stores[n][Len(stores[n])]

CInit ==
  /\ log = <<>> /\ fsm = <<>> /\ leader = None /\ believes = {}
  /\ commit = [n \in Nodes |-> 0] /\ applied = [n \in Nodes |-> 0]
  /\ notice = [n \in Nodes |-> "none"]
  /\ role = [n \in Nodes |-> "new"] /\ stores = [n \in Nodes |-> <<>>]
  /\ pend = [n \in Nodes |-> NoBlock] /\ made = 0
  /\ exec = [n \in Nodes |-> 0]
  /\ raftFaults = 0 /\ wedged = FALSE /\ refused = FALSE

------------------------------------------------------------------------------
\* mutant: an equal height is taken for an increase.
assertValid_NotStrict(s, next) == next.h >= s.h /\ next.t >= s.t

\* assertValid: the state a log entry may replace.
assertValid(s, next) == next.h > s.h /\ next.t > s.t

\* The state after the first i entries.
FsmAt(i) == IF i = 0 THEN NoBlock ELSE fsm[i]

\* An entry is committed; FSM.Apply of a refused one leaves the state.
Committed(b) ==
  /\ log' = Append(log, b)
  /\ fsm' = Append(fsm, IF assertValid(FsmAt(Len(log)), b) THEN b ELSE FsmAt(Len(log)))

GetState(n) == FsmAt(applied[n])
Accepted(i) == FsmAt(i) = log[i]

\* Raft elects a node; one that leads already hears nothing new.  Leadership
\* moves while the old leader still believes in its own.
Elect(n) ==
  /\ Up(n) /\ leader # n
  /\ leader = None \/ raftFaults < MaxRaftFaults
  /\ raftFaults' = IF leader = None THEN raftFaults ELSE raftFaults + 1
  /\ leader' = n /\ believes' = believes \cup {n}
  /\ notice' = [notice EXCEPT ![n] = "true"]
  /\ UNCHANGED <<log, fsm, commit, applied, nodeVars, wedged, refused>>

\* The deposed leader steps down.
StepDown(n) ==
  /\ Up(n) /\ n \in believes /\ leader # n
  /\ believes' = believes \ {n}
  /\ notice' = [notice EXCEPT ![n] = "false"]
  /\ UNCHANGED <<log, fsm, leader, commit, applied, nodeVars, countVars>>

\* The no-op of the leader's term, or the leader's next message.
LearnCommit(n) ==
  /\ Up(n) /\ leader # None /\ commit[n] < Len(log)
  /\ commit' = [commit EXCEPT ![n] = Len(log)]
  /\ UNCHANGED <<log, fsm, leader, believes, applied, notice, nodeVars, countVars>>

ApplyEntry(n) ==
  /\ Up(n) /\ applied[n] < commit[n]
  /\ applied' = [applied EXCEPT ![n] = @ + 1]
  /\ UNCHANGED <<log, fsm, leader, believes, commit, notice, nodeVars, countVars>>

------------------------------------------------------------------------------
\* What a follower can take for its next height: an accepted entry it applied
\* (the apply channel may have dropped it), or a block from a peer or DA.
Offered(n) ==
  {b \in {log[i] : i \in {j \in 1..applied[n] : Accepted(j)}}
         \cup UNION {Range(stores[m]) : m \in Nodes \ {n}} :
     b.h = Len(stores[n]) + 1 /\ b.prev = Tip(n).id}

FollowerSyncs(n) ==
  /\ role[n] \in Following
  /\ \E b \in Offered(n) :
       stores' = [stores EXCEPT ![n] = Append(@, b)]
  /\ pend' = [pend EXCEPT ![n] = NoBlock] /\ exec' = [exec EXCEPT ![n] = Len(stores[n]) + 1]
  /\ UNCHANGED <<raftVars, role, made, countVars>>

\* IsSyncedWithRaft: the difference of heights; equal heights compare hashes.
Diff(n) == Len(stores[n]) - GetState(n).h
HashDiffers(n) ==
  LET s == GetState(n) IN s.h > 0 /\ Len(stores[n]) >= s.h /\ stores[n][s.h] # s

\* Recover of a leader whose store is ahead of raft's state compares the block at
\* raft's height; at height zero there is none.
CannotRecover(n) == HashDiffers(n) \/ (GetState(n).h = 0 /\ stores[n] # <<>>)

\* The process ends; its store and raft's log remain, the state machine is
\* rebuilt from what is again known committed.
Ends(n) ==
  /\ role' = [role EXCEPT ![n] = "down"]
  /\ leader' = IF leader = n THEN None ELSE leader
  /\ believes' = believes \ {n}
  /\ notice' = [notice EXCEPT ![n] = "none"]
  /\ commit' = [commit EXCEPT ![n] = 0] /\ applied' = [applied EXCEPT ![n] = 0]
  /\ UNCHANGED <<log, fsm, stores, pend, exec, made>>

\* verifyState and the start of the follower: local state that contradicts
\* raft's ends the process, one behind it is left to normal sync.
StartFollower(n) ==
  /\ role[n] = "new"
  /\ \/ leader \notin {None, n} /\ notice[n] # "true"
     \/ notice[n] = "false"
  /\ IF HashDiffers(n) THEN Ends(n) /\ UNCHANGED countVars
     ELSE /\ role' = [role EXCEPT ![n] = "follower"]
          /\ notice' = [notice EXCEPT ![n] = IF @ = "false" THEN "none" ELSE @]
          /\ UNCHANGED <<log, fsm, leader, believes, commit, applied, stores, pend, exec, made, countVars>>

\* mutant: a started follower ignores its election.
BecomeLeader_FirstOnly(n) ==
  /\ notice[n] = "true" /\ Up(n)
  /\ notice' = [notice EXCEPT ![n] = "none"]
  /\ role' = CASE role[n] = "new" -> [role EXCEPT ![n] = "landingNew"]
               [] OTHER -> role
  /\ role[n] \in {"new", "follower"} \cup Leading
  /\ UNCHANGED <<log, fsm, leader, believes, commit, applied, stores, pend, exec, made, countVars>>

\* The election loop takes leaderCh's value.
BecomeLeader(n) ==
  /\ notice[n] = "true" /\ Up(n)
  /\ notice' = [notice EXCEPT ![n] = "none"]
  /\ role' = CASE role[n] = "new" -> [role EXCEPT ![n] = "landingNew"]
               [] role[n] = "follower" -> [role EXCEPT ![n] = "landing"]
               [] OTHER -> role
  /\ role[n] \in {"new", "follower"} \cup Leading
  /\ UNCHANGED <<log, fsm, leader, believes, commit, applied, stores, pend, exec, made, countVars>>

LostLeadership(n) ==
  /\ notice[n] = "false"
  /\ \/ role[n] \in Leading /\ Ends(n)
     \/ /\ role[n] = "follower" /\ notice' = [notice EXCEPT ![n] = "none"]
        /\ UNCHANGED <<log, fsm, leader, believes, commit, applied, nodeVars>>
  /\ UNCHANGED countVars

Back(n) == IF role[n] = "landingNew" THEN "new" ELSE "follower"

\* leadershipTransfer, which may fail when no peer is ready to take over.
Abdicate(n) ==
  /\ leader' = IF leader = n THEN None ELSE leader
  /\ believes' = believes \ {n}
  /\ notice' = [notice EXCEPT ![n] = IF n \in believes THEN "false" ELSE @]
  /\ UNCHANGED <<log, fsm, commit, applied>>

\* waitForMsgsLanded: everything known committed is applied.
Landed(n) ==
  /\ role[n] \in {"landing", "landingNew"} /\ applied[n] >= commit[n]
  /\ role' = [role EXCEPT ![n] = IF @ = "landingNew" THEN "factory" ELSE "check"]
  /\ UNCHANGED <<raftVars, stores, pend, exec, made, countVars>>

\* It timed out: the node abdicates; a failed transfer is only logged, and the
\* node goes on leading without a worker.
LandTimeout(n) ==
  /\ role[n] \in {"landing", "landingNew"} /\ applied[n] < commit[n]
  /\ raftFaults < MaxRaftFaults /\ raftFaults' = raftFaults + 1
  /\ role' = [role EXCEPT ![n] = Back(n)]
  /\ \/ Abdicate(n) /\ UNCHANGED wedged
     \/ UNCHANGED raftVars /\ wedged' = TRUE
  /\ UNCHANGED <<stores, pend, exec, made, refused>>

\* A started follower that became leader compares its store with raft's state:
\* more than one block behind waits, one block behind takes raft's block, a
\* different block ends the process.
CheckSynced(n) ==
  /\ role[n] = "check"
  /\ \/ /\ n \notin believes
        /\ role' = [role EXCEPT ![n] = "follower"] /\ UNCHANGED <<raftVars, stores, pend, exec, made>>
     \/ /\ n \in believes /\ CannotRecover(n) /\ Ends(n)
     \/ /\ n \in believes /\ ~CannotRecover(n) /\ Diff(n) < -1
        /\ role' = [role EXCEPT ![n] = "syncwait"] /\ UNCHANGED <<raftVars, stores, pend, exec, made>>
     \/ /\ n \in believes /\ ~CannotRecover(n) /\ Diff(n) = -1
        /\ IF GetState(n).prev = Tip(n).id
             THEN /\ stores' = [stores EXCEPT ![n] = Append(@, GetState(n))]
                  /\ pend' = [pend EXCEPT ![n] = NoBlock]
                  /\ exec' = [exec EXCEPT ![n] = Len(stores[n]) + 1]
                  /\ role' = [role EXCEPT ![n] = "factory"] /\ UNCHANGED <<raftVars, made>>
             ELSE Ends(n)
     \/ /\ n \in believes /\ ~CannotRecover(n) /\ Diff(n) >= 0
        /\ role' = [role EXCEPT ![n] = "factory"] /\ UNCHANGED <<raftVars, stores, pend, exec, made>>
  /\ UNCHANGED countVars

\* waitForBlockStoreSync
SyncWait(n) ==
  /\ role[n] = "syncwait"
  /\ \/ /\ n \notin believes /\ role' = [role EXCEPT ![n] = "follower"]
        /\ UNCHANGED <<raftVars, raftFaults>>
     \/ /\ n \in believes /\ Diff(n) >= -1 /\ role' = [role EXCEPT ![n] = "check"]
        /\ UNCHANGED <<raftVars, raftFaults>>
     \/ /\ Diff(n) < -1 /\ raftFaults < MaxRaftFaults /\ raftFaults' = raftFaults + 1
        /\ role' = [role EXCEPT ![n] = "follower"] /\ Abdicate(n)
  /\ UNCHANGED <<stores, pend, exec, made, wedged, refused>>

\* The leader's components start: initializeState refuses a store that is ahead
\* of raft or differs from it, then brings the execution layer to the greater of
\* both heights.  SyncToHeight rolls a higher execution layer back and needs the
\* blocks to replay on a lower one; an equal one is in sync whatever the store
\* holds.
StartLeader(n) ==
  LET s == GetState(n)
      target == IF s.h > Len(stores[n]) THEN s.h ELSE Len(stores[n])
  IN /\ role[n] = "factory"
     /\ IF \/ s.h # 0 /\ (Len(stores[n]) > s.h \/ HashDiffers(n))
           \/ exec[n] < target /\ target > Len(stores[n])
          THEN Ends(n)
          ELSE /\ exec' = [exec EXCEPT ![n] = target]
               /\ role' = [role EXCEPT ![n] = "ready"] /\ UNCHANGED <<raftVars, stores, pend, made>>
     /\ UNCHANGED countVars

------------------------------------------------------------------------------
\* ProduceBlock up to the stored pending block.  HasQuorum's barrier, of the real
\* leader, commits and applies all entries before it; then the pending block of
\* the height is used again, or a new one is made and stored.
CreateBlock(n) ==
  /\ role[n] = "ready" /\ Len(stores[n]) < TopHeight
  /\ n \in believes /\ leader = n
  /\ commit' = [commit EXCEPT ![n] = Len(log)] /\ applied' = [applied EXCEPT ![n] = Len(log)]
  /\ \/ pend[n].h = Len(stores[n]) + 1 /\ UNCHANGED <<pend, made>>
     \/ /\ pend[n].h # Len(stores[n]) + 1
        /\ made < MaxMade /\ made' = made + 1
        /\ \E t \in IF TimesRepeat THEN {Tip(n).t, Tip(n).t + 1} ELSE {Tip(n).t + 1} :
             pend' = [pend EXCEPT ![n] = [h |-> Len(stores[n]) + 1, id |-> made + 1,
                                          prev |-> Tip(n).id, t |-> t]]
  /\ role' = [role EXCEPT ![n] = "apply"]
  /\ UNCHANGED <<log, fsm, leader, believes, notice, stores, exec, countVars>>

\* The second HasQuorum, ApplyBlock and the signature.
ApplyBlock(n) ==
  /\ role[n] = "apply"
  /\ \/ /\ n \in believes /\ leader = n
        /\ commit' = [commit EXCEPT ![n] = Len(log)] /\ applied' = [applied EXCEPT ![n] = Len(log)]
        /\ exec' = [exec EXCEPT ![n] = pend[n].h]
        /\ role' = [role EXCEPT ![n] = "propose"]
     \/ /\ leader # n
        /\ role' = [role EXCEPT ![n] = "ready"] /\ UNCHANGED <<commit, applied, exec>>
  /\ UNCHANGED <<log, fsm, leader, believes, notice, stores, pend, made, countVars>>

\* Broadcast: the entry is committed and applied, whatever the state machine made
\* of it; or leadership was lost, and the entry is committed or not.
Broadcast(n) ==
  /\ role[n] = "propose" /\ Len(log) < MaxLog
  /\ \/ /\ leader = n /\ n \in believes
        /\ Committed(pend[n])
        /\ commit' = [commit EXCEPT ![n] = Len(log) + 1]
        /\ applied' = [applied EXCEPT ![n] = Len(log) + 1]
        /\ refused' = (refused \/ ~(assertValid(FsmAt(Len(log)), pend[n]) \/ FsmAt(Len(log)) = pend[n]))
        /\ role' = [role EXCEPT ![n] = "commit"]
     \/ /\ leader # n
        /\ role' = [role EXCEPT ![n] = "ready"] /\ UNCHANGED <<log, fsm, commit, applied, refused>>
     \/ /\ leader = None /\ n \in believes    \* committed by the next leader
        /\ Committed(pend[n])
        /\ role' = [role EXCEPT ![n] = "ready"] /\ UNCHANGED <<commit, applied, refused>>
  /\ UNCHANGED <<leader, believes, notice, stores, pend, exec, made, raftFaults, wedged>>

\* The batch is committed; then the block is gossiped out of the store.
CommitShared(n) ==
  /\ role[n] = "commit"
  /\ stores' = [stores EXCEPT ![n] = Append(@, pend[n])]
  /\ pend' = [pend EXCEPT ![n] = NoBlock]
  /\ role' = [role EXCEPT ![n] = "ready"]
  /\ UNCHANGED <<raftVars, exec, made, countVars>>

\* A crash, or a stop, which hands leadership over first.
GoesDown(n) ==
  /\ Up(n) /\ raftFaults < MaxRaftFaults /\ raftFaults' = raftFaults + 1
  /\ Ends(n) /\ UNCHANGED <<wedged, refused>>

\* NewNode and Start: the node joins with what it has on disk.
StartNode(n) ==
  /\ role[n] = "down"
  /\ role' = [role EXCEPT ![n] = "new"]
  /\ UNCHANGED <<raftVars, stores, pend, exec, made, countVars>>

Election(n) ==
  \/ StartFollower(n) \/ BecomeLeader(n) \/ LostLeadership(n) \/ Landed(n)
  \/ CheckSynced(n) \/ SyncWait(n) \/ StartLeader(n) \/ StartNode(n)
Production(n) == CreateBlock(n) \/ ApplyBlock(n) \/ Broadcast(n) \/ CommitShared(n)
Raft(n) == StepDown(n) \/ LearnCommit(n) \/ ApplyEntry(n)

CNext ==
  \E n \in Nodes :
    \/ Elect(n) \/ Raft(n) \/ FollowerSyncs(n)
    \/ Election(n) \/ LandTimeout(n) \/ Production(n) \/ GoesDown(n)

\* Raft elects a leader when there is none and its messages arrive; the loops of a
\* node are scheduled and an ended node is started again.
CSpec ==
  /\ CInit /\ [][CNext]_cVars
  /\ WF_cVars(leader = None /\ \E n \in Nodes : Elect(n))
  /\ \A n \in Nodes : /\ WF_cVars(Raft(n)) /\ WF_cVars(FollowerSyncs(n))
                      /\ WF_cVars(Election(n)) /\ WF_cVars(Production(n))
------------------------------------------------------------------------------
\* Types, and that raft's state never runs ahead of what is committed.
CTypeOK ==
  /\ leader \in Nodes \cup {None} /\ believes \subseteq Nodes
  /\ \A n \in Nodes : /\ applied[n] <= commit[n] /\ commit[n] <= Len(log)
                      /\ role[n] \in {"new", "landingNew", "factory", "down"} \cup Following \cup Leading
                      /\ Len(stores[n]) <= TopHeight
                      /\ role[n] \in {"apply", "propose", "commit"} => pend[n].h = Len(stores[n]) + 1

\* No two nodes ever hold different blocks for one height: the cluster does not
\* fork, through elections, deposed leaders, crashes and restarts.
ChainsAgree ==
  \A m, n \in Nodes : \A h \in 1..Len(stores[m]) : h <= Len(stores[n]) => stores[m][h] = stores[n][h]

\* The cluster forks only through a block that raft's state machine refused and
\* whose leader committed it all the same, as Broadcast hides the refusal.
ForkNeedsRefusal == refused \/ ChainsAgree

\* Without such a refusal a store holds only blocks that the state machine took:
\* nothing is committed locally before it is replicated.
RaftHoldsCommitted ==
  refused \/ \A n \in Nodes : \A h \in 1..Len(stores[n]) :
               \E i \in 1..Len(log) : log[i] = stores[n][h] /\ Accepted(i)

\* If from some time on no node ends any more, the chain grows to its height: the
\* elected node is never left without a worker unless its transfer of leadership
\* failed, and no two nodes wait for each other.
Extended ==
  wedged \/ refused \/ made = MaxMade \/ Len(log) = MaxLog \/ \E n \in Nodes : Len(stores[n]) = TopHeight
EventuallyExtends == (<>[](\A n \in Nodes : Up(n))) => []<>Extended
=============================================================================
