----------------------------- MODULE NodeStart ------------------------------
(* How a full node takes up a role and changes it: failoverState.Run and the   *)
(* catch-up phase of an aggregator (node/failover.go), the start of the header *)
(* and data sync services (pkg/sync/sync_service.go), the components they feed *)
(* (block/components.go) and the election of a promotable node                 *)
(* (node/proposer_election.go).  The node comes back with part of its chain;   *)
(* its peers hold the blocks up to top, and DA those up to da, and a block      *)
(* produced at one of these heights is a second one.  The catch-up syncer is    *)
(* modelled by where its events are; Syncer.tla has the rest of it.            *)
EXTENDS Integers, Sequences, FiniteSets

CONSTANTS
  Starts,     \* sequence of scenarios: kind, role, catchup, peers, stored, top, da
  MaxBlock,   \* bound on the heights
  MaxFlips    \* bound on the changes of the next proposer

\* Without peers, DA holds all there is of the chain elsewhere.
ASSUME NodeStartAssumption ==
  /\ MaxBlock \in Nat /\ MaxFlips \in Nat
  /\ \A i \in 1..Len(Starts) :
       /\ Starts[i].role \in {"leader", "follower"} /\ {Starts[i].catchup, Starts[i].peers} \subseteq BOOLEAN
       /\ Starts[i].top \in 0..MaxBlock /\ {Starts[i].stored, Starts[i].da} \subseteq 0..Starts[i].top
       /\ Starts[i].peers \/ Starts[i].da = Starts[i].top

VARIABLES
  start,     \* the scenario
  st,        \* height of the node's store
  peersUp,   \* a peer can be reached
  run,       \* failoverState.Run: role, pc, port (is its RPC server listening)
  leaked,    \* a role ended and left its RPC server listening
  svc,       \* the sync services: pc, bg (background init), p2p, syncer, pend (highest item)
  da,        \* DA follower of the catch-up: next height done, head reached
  ev,        \* its events: channel, taken and in flight, cached, in the pending worker's hand
  sent,      \* the height the P2P worker last piped
  poll,      \* catchupStatus being read
  timer,     \* the P2P recovery deadline is armed
  lead,      \* the store's next proposer is the local signer
  flips,
  early,     \* readiness was answered over a moving event or unfetched blocks, or the drain timed out
  twice,     \* a block was produced at a height that exists
  failedBind, \* a role found the RPC port taken
  cutStart   \* a role was cancelled before its components ran

nVars == <<start, st, peersUp, run, leaked, svc, da, ev, sent, poll, timer, lead, flips, early, twice, failedBind, cutStart>>
catchVars == <<da, ev, sent, poll, timer>>
fixVars == <<start, leaked, lead, flips, failedBind, cutStart>>

Begun == Starts[start]
Services == {"header", "data"}
NewService == [pc |-> "off", bg |-> FALSE, p2p |-> FALSE, syncer |-> FALSE, pend |-> 0]
NoEvents == [ch |-> <<>>, taken |-> 0, flight |-> 0, cache |-> {}, hand |-> 0]
NoPoll == [pc |-> "idle", count |-> 0, p2p |-> FALSE, da |-> FALSE, unfetched |-> FALSE]
NewRun(role) == [role |-> role, pc |-> "start", port |-> FALSE, bound |-> FALSE, cancel |-> FALSE]

NInit ==
  /\ start \in 1..Len(Starts) /\ st = Begun.stored /\ peersUp \in BOOLEAN
  /\ run = NewRun(Begun.role) /\ leaked = FALSE
  /\ svc = [k \in Services |-> NewService]
  /\ da = [next |-> 0, reached |-> FALSE] /\ ev = NoEvents /\ sent = 0 /\ poll = NoPoll /\ timer = FALSE
  /\ lead = FALSE /\ flips = 0 /\ early = FALSE /\ twice = FALSE /\ failedBind = FALSE /\ cutStart = FALSE

------------------------------------------------------------------------------
\* The RPC goroutine of Run.  Where the port is taken the group is cancelled.
BindPort ==
  /\ run.pc \in {"start", "catchup", "stopping", "run"} /\ ~run.bound
  /\ IF leaked
       THEN /\ failedBind' = TRUE /\ run' = [run EXCEPT !.pc = "failed", !.bound = TRUE]
       ELSE /\ run' = [run EXCEPT !.port = TRUE, !.bound = TRUE] /\ UNCHANGED failedBind
  /\ UNCHANGED <<start, st, peersUp, leaked, svc, catchVars, lead, flips, early, twice, cutStart>>

\* Height of a service's store: the node's own store or the items above it.
ServiceHeight(k) == IF svc[k].pend > st THEN svc[k].pend ELSE st

\* shouldStartSyncInPublisherMode
Publisher == run.role = "leader" /\ Begun.kind = "raft" /\ \A k \in Services : ServiceHeight(k) = 0

\* getPeerIDs: the connected peers; a follower, and an aggregator that catches up,
\* asks the configured ones as well.
HasPeers == Begun.peers /\ (run.role = "follower" \/ Begun.catchup \/ peersUp)
keepRetryingP2PInit == run.role = "leader" /\ Begun.catchup /\ Begun.peers

\* Start and StartForPublishing of a service, up to the P2P initialization.
StartService(k) ==
  /\ run.pc = "start" /\ svc[k].pc = "off"
  /\ svc' = [svc EXCEPT ![k].pc = IF Publisher \/ ~HasPeers THEN "up" ELSE "init"]
  /\ UNCHANGED <<fixVars, st, peersUp, run, catchVars, early, twice>>

\* tryInitFromP2P: a peer serves the local head, or the first height; store and
\* go-header's syncer start from it.
TryInit(k) ==
  /\ svc[k].pc = "init" \/ svc[k].bg
  /\ peersUp /\ Begun.top > 0
  /\ svc' = [svc EXCEPT ![k] = [pc |-> "up", bg |-> FALSE, p2p |-> TRUE, syncer |-> TRUE,
                                pend |-> IF st > 0 THEN @.pend ELSE 1]]
  /\ UNCHANGED <<fixVars, st, peersUp, run, catchVars, early, twice>>

\* mutant: without p2pInitTimeout.
GiveUpInit_CatchupOnly(k) ==
  /\ svc[k].pc = "init" /\ ~(peersUp /\ Begun.top > 0) /\ keepRetryingP2PInit
  /\ svc' = [svc EXCEPT ![k].pc = "up", ![k].bg = TRUE]
  /\ UNCHANGED <<fixVars, st, peersUp, run, catchVars, early, twice>>

\* An attempt that failed goes on in the background for catch-up; otherwise the
\* service goes up without a peer after p2pInitTimeout.
GiveUpInit(k) ==
  /\ svc[k].pc = "init" /\ ~(peersUp /\ Begun.top > 0)
  /\ svc' = [svc EXCEPT ![k].pc = "up", ![k].bg = keepRetryingP2PInit]
  /\ UNCHANGED <<fixVars, st, peersUp, run, catchVars, early, twice>>

\* go-header's syncer appends the peers' items.
FetchItem(k) ==
  /\ svc[k].syncer /\ peersUp /\ ServiceHeight(k) < Begun.top /\ run.pc \in {"catchup", "stopping", "run"}
  /\ svc' = [svc EXCEPT ![k].pend = ServiceHeight(k) + 1]
  /\ UNCHANGED <<fixVars, st, peersUp, run, catchVars, early, twice>>

PeersCome ==
  /\ Begun.peers /\ ~peersUp /\ peersUp' = TRUE
  /\ UNCHANGED <<fixVars, st, run, svc, catchVars, early, twice>>

\* Both services are up: the catch-up phase, or the components.
ServicesUp ==
  /\ run.pc = "start" /\ \A k \in Services : svc[k].pc = "up"
  /\ IF run.role = "leader" /\ Begun.catchup
       THEN run' = [run EXCEPT !.pc = "catchup"] /\ timer' = Begun.peers
       ELSE run' = [run EXCEPT !.pc = "run"] /\ UNCHANGED timer
  /\ UNCHANGED <<fixVars, st, peersUp, svc, da, ev, sent, poll, early, twice>>

------------------------------------------------------------------------------
\* The catch-up syncer.  The DA follower pipes a block, then goes on; at the head
\* it says so.
DAFollow ==
  /\ run.pc = "catchup"
  /\ IF da.next < Begun.da
       THEN /\ da' = [da EXCEPT !.next = @ + 1]
            /\ ev' = IF da.next + 1 > st THEN [ev EXCEPT !.ch = Append(@, da.next + 1)] ELSE ev
       ELSE ~da.reached /\ da' = [da EXCEPT !.reached = TRUE] /\ UNCHANGED ev
  /\ UNCHANGED <<fixVars, st, peersUp, run, svc, sent, poll, timer, early, twice>>

P2PWorker ==
  /\ run.pc = "catchup" /\ sent # st + 1
  /\ \A k \in Services : svc[k].pend >= st + 1
  /\ sent' = st + 1 /\ ev' = [ev EXCEPT !.ch = Append(@, st + 1)]
  /\ UNCHANGED <<fixVars, st, peersUp, run, svc, da, poll, timer, early, twice>>

\* processLoop: received, then counted in flight, then done.
TakeEvent ==
  /\ run.pc = "catchup" /\ ev.ch # <<>> /\ ev.taken = 0 /\ ev.flight = 0
  /\ ev' = [ev EXCEPT !.taken = Head(ev.ch), !.ch = Tail(@)]
  /\ UNCHANGED <<fixVars, st, peersUp, run, svc, da, sent, poll, timer, early, twice>>

CountEvent ==
  /\ run.pc = "catchup" /\ ev.taken # 0
  /\ ev' = [ev EXCEPT !.flight = ev.taken, !.taken = 0]
  /\ UNCHANGED <<fixVars, st, peersUp, run, svc, da, sent, poll, timer, early, twice>>

\* What processing an event makes of the store and of the cached events.
Applied(h, c) == IF h = st + 1 THEN c ELSE IF h > st THEN c \cup {h} ELSE c

ProcessEvent ==
  /\ run.pc = "catchup" /\ ev.flight # 0
  /\ ev' = [ev EXCEPT !.flight = 0, !.cache = Applied(ev.flight, @)]
  /\ st' = IF ev.flight = st + 1 THEN st + 1 ELSE st
  /\ UNCHANGED <<fixVars, peersUp, run, svc, da, sent, poll, timer, early, twice>>

\* processPendingEvents: out of the cache, then into the channel.
PendingTake ==
  /\ run.pc = "catchup" /\ ev.hand = 0 /\ st + 1 \in ev.cache
  /\ ev' = [ev EXCEPT !.hand = st + 1, !.cache = @ \ {st + 1}]
  /\ UNCHANGED <<fixVars, st, peersUp, run, svc, da, sent, poll, timer, early, twice>>

PendingSend ==
  /\ run.pc = "catchup" /\ ev.hand # 0
  /\ ev' = [ev EXCEPT !.ch = Append(@, ev.hand), !.hand = 0]
  /\ UNCHANGED <<fixVars, st, peersUp, run, svc, da, sent, poll, timer, early, twice>>

------------------------------------------------------------------------------
\* catchupStatus.p2pReady
p2pReady == \A k \in Services : svc[k].p2p /\ st >= ServiceHeight(k)

Unfetched == Begun.peers /\ \E k \in Services : ServiceHeight(k) < Begun.top

\* catchupStatus, the heights and flags, then the three counters of PendingCount
\* one after the other.
PollStatus ==
  /\ run.pc = "catchup" /\ poll.pc = "idle"
  /\ poll' = [pc |-> "flight", count |-> Len(ev.ch), p2p |-> p2pReady, da |-> da.reached,
              unfetched |-> Unfetched]
  /\ UNCHANGED <<fixVars, st, peersUp, run, svc, da, ev, sent, timer, early, twice>>

PollInFlight ==
  /\ run.pc = "catchup" /\ poll.pc = "flight"
  /\ poll' = [poll EXCEPT !.pc = "cache", !.count = @ + (IF ev.flight # 0 THEN 1 ELSE 0)]
  /\ UNCHANGED <<fixVars, st, peersUp, run, svc, da, ev, sent, timer, early, twice>>

\* mutant: pending events do not count.
ready_AtHead(p, count) == p.da /\ (Begun.peers => p.p2p)

\* catchupStatus.ready
ready(p, count) == p.da /\ count = 0 /\ (Begun.peers => p.p2p)

Outstanding == ev.ch # <<>> \/ ev.taken # 0 \/ ev.flight # 0 \/ ev.cache # {} \/ ev.hand # 0

PollDecides ==
  /\ run.pc = "catchup" /\ poll.pc = "cache"
  /\ poll' = NoPoll
  /\ timer' = (timer /\ ~poll.p2p)
  /\ \E count \in {poll.count + Cardinality(ev.cache)} :
       IF ready(poll, count)
         THEN /\ run' = [run EXCEPT !.pc = "stopping"]
              /\ early' = (early \/ poll.unfetched \/ (count = 0 /\ Outstanding))
         ELSE UNCHANGED <<run, early>>
  /\ UNCHANGED <<fixVars, st, peersUp, svc, da, ev, sent, twice>>

\* The deadline: fatal without continuity, disarmed with it.
P2PDeadline ==
  /\ run.pc = "catchup" /\ timer /\ poll.pc = "idle"
  /\ IF p2pReady THEN timer' = FALSE /\ UNCHANGED run
     ELSE run' = [run EXCEPT !.pc = "failed"] /\ UNCHANGED timer
  /\ UNCHANGED <<fixVars, st, peersUp, svc, da, ev, sent, poll, early, twice>>

\* Syncer.Stop: what was in flight is done or given back by its cancelled context,
\* then the channel is drained, as far as the drain's own deadline allows.
StopInFlight ==
  /\ run.pc = "stopping" /\ (ev.taken # 0 \/ ev.flight # 0 \/ ev.hand # 0)
  /\ \E h \in {ev.taken + ev.flight} :
       \/ /\ st' = IF h = st + 1 THEN st + 1 ELSE st
          /\ ev' = [ev EXCEPT !.taken = 0, !.flight = 0, !.hand = 0, !.cache = Applied(h, @) \cup ({ev.hand} \ {0})]
       \/ /\ ev' = [ev EXCEPT !.taken = 0, !.flight = 0, !.hand = 0, !.cache = (@ \cup {h, ev.hand}) \ {0}]
          /\ UNCHANGED st
  /\ UNCHANGED <<fixVars, peersUp, run, svc, da, sent, poll, timer, early, twice>>

StopDrain ==
  /\ run.pc = "stopping" /\ ev.taken = 0 /\ ev.flight = 0 /\ ev.hand = 0 /\ ev.ch # <<>>
  /\ \/ /\ ev' = [ev EXCEPT !.ch = Tail(@), !.cache = Applied(Head(ev.ch), @)]
        /\ st' = IF Head(ev.ch) = st + 1 THEN st + 1 ELSE st
        /\ UNCHANGED early
     \/ ev' = [ev EXCEPT !.ch = <<>>] /\ early' = TRUE /\ UNCHANGED st
  /\ UNCHANGED <<fixVars, peersUp, run, svc, da, sent, poll, timer, twice>>

StopDone ==
  /\ run.pc = "stopping" /\ ev.taken = 0 /\ ev.flight = 0 /\ ev.hand = 0 /\ ev.ch = <<>>
  /\ run' = [run EXCEPT !.pc = "run"] /\ ev' = NoEvents
  /\ UNCHANGED <<fixVars, st, peersUp, svc, da, sent, poll, timer, early, twice>>

------------------------------------------------------------------------------
\* The components run: a leader produces and publishes (the store is initialized
\* and the syncer started by the first block), a follower syncs.
ProduceNext ==
  /\ run.pc = "run" /\ run.role = "leader" /\ st < MaxBlock
  /\ st' = st + 1 /\ twice' = (twice \/ st + 1 <= Begun.top)
  /\ svc' = [k \in Services |-> [svc[k] EXCEPT !.syncer = TRUE, !.pend = st + 1]]
  /\ UNCHANGED <<fixVars, peersUp, run, catchVars, early>>

FollowChain ==
  /\ run.pc = "run" /\ run.role = "follower"
  /\ st + 1 <= Begun.da \/ \A k \in Services : svc[k].pend >= st + 1
  /\ st' = st + 1
  /\ UNCHANGED <<fixVars, peersUp, run, svc, catchVars, early, twice>>

\* The election of a promotable node follows the next proposer of the state.
NextProposerChanges ==
  /\ Begun.kind = "promotable" /\ flips < MaxFlips /\ run.pc # "exited"
  /\ lead' = ~lead /\ flips' = flips + 1
  /\ UNCHANGED <<start, st, peersUp, run, leaked, svc, catchVars, early, twice, failedBind, cutStart>>

CancelRole ==
  /\ Begun.kind = "promotable" /\ run.pc \in {"start", "catchup", "run"} /\ ~run.cancel
  /\ lead # (run.role = "leader")
  /\ run' = [run EXCEPT !.cancel = TRUE]
  /\ UNCHANGED <<fixVars, st, peersUp, svc, catchVars, early, twice>>

\* A role cancelled before its components run returns and leaves its RPC goroutine;
\* one that ran shuts it down, and the components are stopped.
PortAfter == run.pc \in {"start", "catchup"}

\* Run returned; startRole makes the other role's components.
SwitchRole ==
  /\ run.cancel /\ run.pc # "stopping"
  /\ cutStart' = (cutStart \/ run.pc \in {"start", "catchup"})
  /\ leaked' = (leaked \/ PortAfter)
  /\ run' = NewRun(IF lead THEN "leader" ELSE "follower")
  /\ svc' = [k \in Services |-> NewService]
  /\ da' = [next |-> 0, reached |-> FALSE] /\ ev' = NoEvents /\ sent' = 0 /\ poll' = NoPoll /\ timer' = FALSE
  /\ UNCHANGED <<start, st, peersUp, lead, flips, early, twice, failedBind>>

\* An error of the role ends the node.
ExitNode ==
  /\ run.pc = "failed" /\ run' = [run EXCEPT !.pc = "exited"]
  /\ UNCHANGED <<fixVars, st, peersUp, svc, catchVars, early, twice>>

ProcessLoop == TakeEvent \/ CountEvent \/ ProcessEvent
PendingWorker == PendingTake \/ PendingSend
CatchupPoll == PollStatus \/ PollInFlight \/ PollDecides
StopSyncer == StopInFlight \/ StopDrain \/ StopDone
RoleSwitch == CancelRole \/ SwitchRole \/ ExitNode

NNext ==
  \/ BindPort \/ PeersCome \/ ServicesUp \/ DAFollow \/ P2PWorker \/ ProcessLoop \/ PendingWorker
  \/ CatchupPoll \/ P2PDeadline \/ StopSyncer \/ ProduceNext \/ FollowChain
  \/ NextProposerChanges \/ RoleSwitch
  \/ \E k \in Services : StartService(k) \/ TryInit(k) \/ GiveUpInit(k) \/ FetchItem(k)

NSpec == NInit /\ [][NNext]_nVars

\* Every goroutine goes on, and the deadlines pass.
NFairness ==
  /\ WF_nVars(BindPort) /\ WF_nVars(ServicesUp) /\ WF_nVars(DAFollow) /\ WF_nVars(P2PWorker)
  /\ WF_nVars(ProcessLoop) /\ WF_nVars(PendingWorker) /\ WF_nVars(CatchupPoll)
  /\ SF_nVars(P2PDeadline) /\ WF_nVars(StopSyncer) /\ WF_nVars(RoleSwitch)
  /\ \A k \in Services : WF_nVars(StartService(k)) /\ WF_nVars(TryInit(k) \/ GiveUpInit(k)) /\ WF_nVars(FetchItem(k))

------------------------------------------------------------------------------
\* Types; outside the catch-up no event of its syncer is left.
NTypeOK ==
  /\ st \in 0..MaxBlock /\ run.role \in {"leader", "follower"}
  /\ run.pc \in {"start", "catchup", "stopping", "run", "failed", "exited"}
  /\ \A k \in Services : svc[k].pc \in {"off", "init", "up"} /\ svc[k].pend \in 0..MaxBlock
  /\ run.pc = "run" => ev = NoEvents

\* An aggregator that catches up produces no second block at a height its peers
\* or DA hold, unless readiness was answered while an event was between two of
\* the counters, while go-header was still fetching, or the drain was cut short
\* (failover.go runCatchupPhase, catchupStatus; syncer.go PendingCount, Stop).
RewriteNeedsRace == twice /\ Begun.catchup => early

\* Production starts after both services were initialized from a peer, where peers
\* are configured for recovery (failover.go p2pReady; sync_service.go).
ProducesInitialized ==
  run.pc = "run" /\ run.role = "leader" /\ Begun.catchup /\ Begun.peers => \A k \in Services : svc[k].p2p

\* A role finds the RPC port free, unless a role before it was cancelled while its
\* sync services were starting or it caught up (failover.go Run).
PortFree == failedBind => cutStart

\* Every start ends: the node runs its role or exits (failover.go Run,
\* waitForCatchup; sync_service.go retryInitFromP2P).
EventuallySettles == <>[](run.pc \in {"run", "exited"})
=============================================================================
