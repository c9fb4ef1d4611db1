----------------------------- MODULE NodeProofs -----------------------------
(***************************************************************************)
(* Proofs about the roles of a node: the start of an aggregator that       *)
(* catches up (NodeStart), for any scenarios and bounds, and the sequencer *)
(* cluster (RaftCluster), for any set of nodes, any length of the chain    *)
(* and of raft's log and any number of faults.  The catch-up hands over to *)
(* production with the whole chain, unless it was answered early; the      *)
(* stores of the cluster agree as long as raft's state machine refused no  *)
(* block that its leader then committed.                                   *)
(***************************************************************************)
EXTENDS NodeStart, RaftCluster, SequenceTheorems, TLAPS

(***************************************************************************)
(* The start of an aggregator that catches up                              *)
(***************************************************************************)
Service == [pc : {"off", "init", "up"}, bg : BOOLEAN, p2p : BOOLEAN, syncer : BOOLEAN, pend : Nat]
Phases == {"start", "catchup", "stopping", "run", "failed", "exited"}
RoleRun == [role : {"leader", "follower"}, pc : Phases, port : BOOLEAN, bound : BOOLEAN, cancel : BOOLEAN]
Events == [ch : Seq(Nat), taken : Nat, flight : Nat, cache : SUBSET Nat, hand : Nat]
Polls == [pc : {"idle", "flight", "cache"}, count : Nat, p2p : BOOLEAN, da : BOOLEAN, unfetched : BOOLEAN]

NShape ==
  /\ start \in 1..Len(Starts) /\ st \in Nat /\ early \in BOOLEAN
  /\ run \in RoleRun /\ svc \in [Services -> Service] /\ ev \in Events /\ poll \in Polls

(* The DA follower has passed on the blocks up to da.next.                 *)
Followed ==
  /\ da \in [next : Nat, reached : BOOLEAN] /\ da.next <= Begun.da
  /\ da.reached => da.next = Begun.da

Queued(s) == {s[i] : i \in 1..Len(s)}

(* The heights of the events on their way to the store.                    *)
OnTheWay == Queued(ev.ch) \cup {ev.taken, ev.flight, ev.hand} \cup ev.cache

(* What was passed on and is not in the store is still on its way.         *)
NonePassedOver == ~early => \A h \in Nat : st < h /\ h <= da.next => h \in OnTheWay

(* processLoop has one event at a time.                                    *)
OneAtATime == ev.taken # 0 => ev.flight = 0

(* What a poll has read so far still holds when it decides.                *)
PollHolds ==
  poll.pc # "idle" => /\ poll.da => da.reached
                      /\ Begun.peers /\ poll.p2p /\ ~poll.unfetched => st >= Begun.top

(* Only a leader that catches up has these phases, and it leaves them with *)
(* the whole chain.                                                        *)
CaughtUp ==
  /\ run.pc \in {"catchup", "stopping"} => run.role = "leader" /\ Begun.catchup
  /\ run.pc \in {"stopping", "run"} /\ run.role = "leader" /\ Begun.catchup /\ ~early => st >= Begun.top

NInv ==
  /\ NShape /\ Followed /\ NonePassedOver /\ OneAtATime /\ PollHolds /\ CaughtUp /\ RewriteNeedsRace

LEMMA QueuedAppend ==
  ASSUME NEW s \in Seq(Nat), NEW x \in Nat
  PROVE  Append(s, x) \in Seq(Nat) /\ Queued(Append(s, x)) = Queued(s) \cup {x}
<1>1. /\ Append(s, x) \in Seq(Nat) /\ Len(Append(s, x)) = Len(s) + 1 /\ Append(s, x)[Len(s) + 1] = x
      /\ \A i \in 1..Len(s) : Append(s, x)[i] = s[i]
  BY AppendProperties
<1>2. Len(s) \in Nat
  BY LenProperties, Zenon
<1> QED BY <1>1, <1>2, SMT DEF Queued

LEMMA QueuedTail ==
  ASSUME NEW s \in Seq(Nat), s # <<>>
  PROVE  /\ Head(s) \in Nat /\ Tail(s) \in Seq(Nat)
         /\ \A h \in Queued(s) : h = Head(s) \/ h \in Queued(Tail(s))
<1>1. /\ Head(s) = s[1] /\ Head(s) \in Nat /\ Tail(s) \in Seq(Nat) /\ Len(Tail(s)) = Len(s) - 1 /\ Len(s) \in Nat
      /\ \A i \in 1..Len(Tail(s)) : Tail(s)[i] = s[i + 1]
  BY HeadTailProperties, LenProperties
<1> SUFFICES ASSUME NEW i \in 1..Len(s), i # 1
             PROVE  s[i] \in Queued(Tail(s))
  BY <1>1, Zenon DEF Queued
<1>2. i - 1 \in 1..Len(Tail(s)) /\ Tail(s)[i - 1] = s[i]
  BY <1>1
<1> QED BY <1>2, Zenon DEF Queued

LEMMA QueuedNone == Queued(<<>>) = {} /\ <<>> \in Seq(Nat)
BY DEF Queued

(* What a scenario is.                                                     *)
LEMMA BegunIs ==
  ASSUME start \in 1..Len(Starts)
  PROVE  /\ Begun.role \in {"leader", "follower"} /\ Begun.catchup \in BOOLEAN /\ Begun.peers \in BOOLEAN
         /\ Begun.top \in Nat /\ Begun.stored \in Nat /\ Begun.da \in Nat /\ Begun.da <= Begun.top
         /\ Begun.peers \/ Begun.da = Begun.top
<1>1. /\ Starts[start].role \in {"leader", "follower"} /\ Starts[start].catchup \in BOOLEAN
      /\ Starts[start].peers \in BOOLEAN
      /\ Starts[start].top \in 0..MaxBlock /\ Starts[start].stored \in 0..Starts[start].top
      /\ Starts[start].da \in 0..Starts[start].top
      /\ Starts[start].peers \/ Starts[start].da = Starts[start].top
  BY NodeStartAssumption, Zenon
<1>2. MaxBlock \in Nat
  BY NodeStartAssumption, Zenon
<1> QED BY <1>1, <1>2 DEF Begun

LEMMA NInitInv == NInit => NInv
<1> SUFFICES ASSUME NInit PROVE NInv
  OBVIOUS
<1>1. start \in 1..Len(Starts)
  BY Zenon DEF NInit
<1>2. /\ Begun.role \in {"leader", "follower"} /\ Begun.stored \in Nat /\ Begun.da \in Nat
  BY <1>1, BegunIs, Zenon
<1>3. NShape
  <2>1. svc \in [Services -> Service]
    BY DEF NInit, NewService, Service
  <2>2. ev \in Events
    BY DEF NInit, NoEvents, Events
  <2>3. run \in RoleRun
    BY <1>2 DEF NInit, NewRun, RoleRun, Phases
  <2>4. poll \in Polls
    BY DEF NInit, NoPoll, Polls
  <2>5. st \in Nat /\ early \in BOOLEAN
    BY <1>2, Zenon DEF NInit
  <2> QED BY <1>1, <2>1, <2>2, <2>3, <2>4, <2>5, Zenon DEF NShape
<1>4. Followed /\ NonePassedOver /\ OneAtATime /\ PollHolds /\ CaughtUp /\ RewriteNeedsRace
  BY <1>2 DEF NInit, NoPoll, NoEvents, NewRun, Followed, NonePassedOver, OneAtATime, PollHolds, CaughtUp, RewriteNeedsRace
<1> QED BY <1>3, <1>4, Zenon DEF NInv

(* A step of the services or of the role, while the events rest.           *)
LEMMA RestingKeeps ==
  ASSUME NInv, UNCHANGED <<start, st, da, ev, poll, early, twice>>, NShape', CaughtUp'
  PROVE  NInv'
<1>1. Begun' = Begun
  BY Zenon DEF Begun
<1>2. Followed' /\ OneAtATime' /\ PollHolds' /\ RewriteNeedsRace'
  BY <1>1, Zenon DEF NInv, Followed, OneAtATime, PollHolds, RewriteNeedsRace
<1>3. NonePassedOver'
  BY Zenon DEF NInv, NonePassedOver, OnTheWay
<1> QED BY <1>2, <1>3, Zenon DEF NInv

(* A step of the catch-up syncer: it loses no event above the store, which *)
(* does not shrink.                                                        *)
LEMMA MovingKeeps ==
  ASSUME NInv, UNCHANGED <<start, run, da, poll, early, twice>>, NShape', OneAtATime', st' >= st,
         early \/ st >= da.next \/ \A h \in OnTheWay : h > st' => h \in OnTheWay'
  PROVE  NInv'
<1>1. Begun' = Begun
  BY Zenon DEF Begun
<1>2. Followed' /\ RewriteNeedsRace'
  BY <1>1, Zenon DEF NInv, Followed, RewriteNeedsRace
<1>3. st \in Nat /\ st' \in Nat /\ Begun.top \in Nat
  BY BegunIs, Zenon DEF NInv, NShape
<1>4. PollHolds' /\ CaughtUp'
  BY <1>1, <1>3 DEF NInv, PollHolds, CaughtUp
<1>5. NonePassedOver'
  BY <1>3 DEF NInv, Followed, NonePassedOver
<1> QED BY <1>2, <1>4, <1>5, Zenon DEF NInv

(* The stopping catch-up has the whole chain.                              *)
LEMMA StoppingIsPast ==
  ASSUME NInv, run.pc = "stopping"
  PROVE  early \/ st >= da.next
<1>1. Begun.top \in Nat /\ Begun.da \in Nat /\ Begun.da <= Begun.top /\ st \in Nat
  BY BegunIs, Zenon DEF NInv, NShape
<1> QED BY <1>1 DEF NInv, CaughtUp, Followed

LEMMA ServiceSteps ==
  ASSUME NInv, NEW k \in Services, StartService(k) \/ TryInit(k) \/ GiveUpInit(k) \/ FetchItem(k)
  PROVE  NInv'
<1>1. UNCHANGED <<start, st, da, ev, poll, early, twice, run>>
  BY Zenon DEF StartService, TryInit, GiveUpInit, FetchItem, fixVars, catchVars
<1>2. st \in Nat /\ svc \in [Services -> Service] /\ Begun.catchup \in BOOLEAN /\ Begun.peers \in BOOLEAN
  BY BegunIs, Zenon DEF NInv, NShape
<1>3. svc' \in [Services -> Service]
  <2>1. CASE StartService(k)
    BY <1>2, <2>1 DEF StartService, Service
  <2>2. CASE TryInit(k)
    BY <1>2, <2>2 DEF TryInit, Service
  <2>3. CASE GiveUpInit(k)
    <3>1. keepRetryingP2PInit \in BOOLEAN
      BY Zenon DEF keepRetryingP2PInit
    <3> QED BY <1>2, <2>3, <3>1, Zenon DEF GiveUpInit, Service
  <2>4. CASE FetchItem(k)
    <3>1. ServiceHeight(k) + 1 \in Nat
      BY <1>2 DEF ServiceHeight, Service
    <3> QED BY <1>2, <2>4, <3>1 DEF FetchItem, Service
  <2> QED BY <2>1, <2>2, <2>3, <2>4, Zenon
<1>4. NShape' /\ CaughtUp'
  BY <1>1, <1>3, Zenon DEF NInv, NShape, CaughtUp, Begun
<1> QED BY <1>1, <1>4, RestingKeeps, Zenon

LEMMA RoleSteps ==
  ASSUME NInv, BindPort \/ PeersCome \/ ServicesUp \/ P2PDeadline \/ NextProposerChanges \/ CancelRole \/ ExitNode
  PROVE  NInv'
<1>1. UNCHANGED <<start, st, da, ev, poll, early, twice>>
  BY Zenon DEF BindPort, PeersCome, ServicesUp, P2PDeadline, NextProposerChanges, CancelRole, ExitNode, fixVars, catchVars
<1>2. run \in RoleRun /\ svc \in [Services -> Service]
  BY Zenon DEF NInv, NShape
<1>3. svc' \in [Services -> Service]
  BY <1>2, Zenon DEF BindPort, PeersCome, ServicesUp, P2PDeadline, NextProposerChanges, CancelRole, ExitNode
<1>4. /\ run' \in RoleRun
      /\ \/ run'.pc = run.pc /\ run'.role = run.role
         \/ run'.pc \in {"start", "failed", "exited"}
         \/ /\ run.pc = "start" /\ run'.role = run.role
            /\ IF run.role = "leader" /\ Begun.catchup THEN run'.pc = "catchup" ELSE run'.pc = "run"
  <2>1. CASE BindPort
    BY <1>2, <2>1, Zenon DEF BindPort, RoleRun, Phases
  <2>2. CASE PeersCome \/ NextProposerChanges
    BY <1>2, <2>2, Zenon DEF PeersCome, NextProposerChanges, fixVars
  <2>3. CASE ServicesUp
    BY <1>2, <2>3 DEF ServicesUp, RoleRun, Phases
  <2>4. CASE P2PDeadline
    BY <1>2, <2>4, Zenon DEF P2PDeadline, RoleRun, Phases
  <2>5. CASE CancelRole
    BY <1>2, <2>5, Zenon DEF CancelRole, RoleRun
  <2>6. CASE ExitNode
    BY <1>2, <2>6 DEF ExitNode, RoleRun, Phases
  <2> QED BY <2>1, <2>2, <2>3, <2>4, <2>5, <2>6, Zenon
<1>5. NShape'
  BY <1>1, <1>3, <1>4, Zenon DEF NInv, NShape
<1>6. CaughtUp'
  <2>1. Begun' = Begun /\ st' = st /\ early' = early
    BY <1>1, Zenon DEF Begun
  <2> QED BY <1>4, <2>1 DEF NInv, CaughtUp
<1> QED BY <1>1, <1>5, <1>6, RestingKeeps, Zenon

(* The components of the new role start from nothing but the store.        *)
LEMMA SwitchStep ==
  ASSUME NInv, SwitchRole
  PROVE  NInv'
<1>1. UNCHANGED <<start, st, early, twice>> /\ Begun' = Begun
  BY Zenon DEF SwitchRole, Begun
<1>2. run' \in RoleRun /\ run'.pc = "start"
  BY DEF SwitchRole, NewRun, RoleRun, Phases
<1>3. svc' \in [Services -> Service]
  <2>1. NewService \in Service
    BY DEF NewService, Service
  <2> QED BY <2>1, Zenon DEF SwitchRole
<1>4. /\ ev' \in Events /\ ev'.taken = 0 /\ poll' \in Polls /\ poll'.pc = "idle"
      /\ da' \in [next : Nat, reached : BOOLEAN] /\ da'.next = 0 /\ ~da'.reached
  BY DEF SwitchRole, NoEvents, NoPoll, Events, Polls
<1>5. NShape' /\ OneAtATime' /\ PollHolds' /\ RewriteNeedsRace'
  BY <1>1, <1>2, <1>3, <1>4, Zenon DEF NInv, NShape, OneAtATime, PollHolds, RewriteNeedsRace
<1>6. CaughtUp'
  BY <1>2 DEF CaughtUp
<1>7. Followed' /\ NonePassedOver'
  <2>1. Begun.da \in Nat /\ st \in Nat
    BY BegunIs, Zenon DEF NInv, NShape
  <2> QED BY <1>1, <1>4, <2>1 DEF Followed, NonePassedOver
<1> QED BY <1>5, <1>6, <1>7, Zenon DEF NInv

(* The DA follower pipes the next block before it counts it as done.       *)
LEMMA FollowStep ==
  ASSUME NInv, DAFollow
  PROVE  NInv'
<1>1. /\ UNCHANGED <<start, st, run, svc, poll, early, twice>> /\ Begun' = Begun
  BY Zenon DEF DAFollow, fixVars, Begun
<1>2. /\ ev \in Events
      /\ st \in Nat /\ da \in [next : Nat, reached : BOOLEAN] /\ Begun.da \in Nat
  BY BegunIs, Zenon DEF NInv, NShape, Followed
<1>3. CASE da.next < Begun.da
  <2>1. da' = [next |-> da.next + 1, reached |-> da.reached]
    BY <1>2, <1>3 DEF DAFollow
  <2>2. ~da.reached
    BY <1>2, <1>3 DEF NInv, Followed
  <2>3. Followed'
    BY <1>1, <1>2, <1>3, <2>1, <2>2 DEF Followed
  <2>4. /\ ev' \in Events
        /\ ev'.taken = ev.taken /\ ev'.flight = ev.flight /\ ev'.hand = ev.hand /\ ev'.cache = ev.cache
        /\ Queued(ev.ch) \subseteq Queued(ev'.ch)
        /\ da.next + 1 > st => da.next + 1 \in Queued(ev'.ch)
    <3>1. ev.ch \in Seq(Nat) /\ da.next + 1 \in Nat
      BY <1>2 DEF Events
    <3>2. /\ Append(ev.ch, da.next + 1) \in Seq(Nat)
          /\ Queued(Append(ev.ch, da.next + 1)) = Queued(ev.ch) \cup {da.next + 1}
      BY <3>1, QueuedAppend, SMT
    <3>3. ev' = IF da.next + 1 > st THEN [ev EXCEPT !.ch = Append(ev.ch, da.next + 1)] ELSE ev
      BY <1>3, Zenon DEF DAFollow
    <3>4. CASE da.next + 1 > st
      BY <1>2, <3>2, <3>3, <3>4, Zenon DEF Events
    <3> QED BY <1>2, <3>3, <3>4, Zenon
  <2>5. NShape' /\ OneAtATime'
    BY <1>1, <2>4, Zenon DEF NInv, NShape, OneAtATime
  <2>6. NonePassedOver'
    <3>1. OnTheWay \subseteq OnTheWay' /\ (da.next + 1 > st => da.next + 1 \in OnTheWay')
      BY <2>4, Zenon DEF OnTheWay
    <3> SUFFICES ASSUME ~early, NEW h \in Nat, st < h, h <= da.next + 1
                 PROVE  h \in OnTheWay'
      BY <1>1, <2>1 DEF NonePassedOver
    <3>2. CASE h = da.next + 1
      BY <1>2, <3>1, <3>2
    <3>3. CASE h # da.next + 1
      BY <1>2, <3>1, <3>3 DEF NInv, NonePassedOver
    <3> QED BY <3>2, <3>3, Zenon
  <2>7. PollHolds' /\ CaughtUp' /\ RewriteNeedsRace'
    BY <1>1, <2>1, <2>2 DEF NInv, PollHolds, CaughtUp, RewriteNeedsRace
  <2> QED BY <2>3, <2>5, <2>6, <2>7, Zenon DEF NInv
<1>4. CASE ~(da.next < Begun.da)
  <2>1. da' = [next |-> da.next, reached |-> TRUE] /\ ev' = ev
    BY <1>2, <1>4 DEF DAFollow
  <2>2. Followed'
    BY <1>1, <1>2, <1>4, <2>1 DEF NInv, Followed
  <2>3. NShape' /\ OneAtATime'
    BY <1>1, <2>1, Zenon DEF NInv, NShape, OneAtATime
  <2>4. NonePassedOver'
    BY <1>1, <2>1 DEF NInv, NonePassedOver, OnTheWay
  <2>5. PollHolds' /\ CaughtUp' /\ RewriteNeedsRace'
    BY <1>1, <2>1 DEF NInv, PollHolds, CaughtUp, RewriteNeedsRace
  <2> QED BY <2>2, <2>3, <2>4, <2>5, Zenon DEF NInv
<1> QED BY <1>3, <1>4, Zenon

(* The events move on: from the P2P worker and the cache into the channel, *)
(* to processLoop, and from there into the store or the cache.             *)
LEMMA EventSteps ==
  ASSUME NInv, P2PWorker \/ ProcessLoop \/ PendingWorker
  PROVE  NInv'
<1>1. UNCHANGED <<start, run, svc, da, poll, early, twice>>
  BY Zenon DEF P2PWorker, ProcessLoop, TakeEvent, CountEvent, ProcessEvent, PendingWorker, PendingTake, PendingSend, fixVars
<1>2. ev \in Events /\ st \in Nat /\ OneAtATime
  BY Zenon DEF NInv, NShape
<1>3. ev.ch \in Seq(Nat) /\ ev.taken \in Nat /\ ev.flight \in Nat /\ ev.hand \in Nat /\ ev.cache \subseteq Nat
  BY <1>2 DEF Events
<1> DEFINE Moves == /\ ev' \in Events /\ st' \in Nat /\ st' >= st /\ OneAtATime'
                    /\ \A h \in OnTheWay : h > st' => h \in OnTheWay'
<1>4. SUFFICES Moves
  <2>1. NShape'
    BY <1>1, <1>4, Zenon DEF NInv, NShape
  <2> QED BY <1>1, <1>4, <2>1, MovingKeeps, Zenon
<1>5. CASE P2PWorker
  <2>1. st' = st /\ ev' = [ev EXCEPT !.ch = Append(ev.ch, st + 1)] /\ st + 1 \in Nat
    BY <1>2, <1>5 DEF P2PWorker, fixVars
  <2>2. Append(ev.ch, st + 1) \in Seq(Nat) /\ Queued(Append(ev.ch, st + 1)) = Queued(ev.ch) \cup {st + 1}
    BY <1>3, <2>1, QueuedAppend, SMT
  <2>3. /\ ev' \in Events /\ ev'.ch = Append(ev.ch, st + 1) /\ ev'.taken = ev.taken /\ ev'.flight = ev.flight
        /\ ev'.hand = ev.hand /\ ev'.cache = ev.cache
    BY <1>2, <2>1, <2>2, Zenon DEF Events
  <2>4. st' \in Nat /\ st' >= st
    BY <1>2, <2>1
  <2> QED BY <1>2, <2>2, <2>3, <2>4, Zenon DEF OneAtATime, OnTheWay
<1>6. CASE TakeEvent
  <2>1. /\ st' = st /\ ev' = [ev EXCEPT !.taken = Head(ev.ch), !.ch = Tail(ev.ch)] /\ ev.ch # <<>>
        /\ ev.taken = 0 /\ ev.flight = 0
    BY <1>6, Zenon DEF TakeEvent, fixVars
  <2>2. /\ Head(ev.ch) \in Nat /\ Tail(ev.ch) \in Seq(Nat)
        /\ \A h \in Queued(ev.ch) : h = Head(ev.ch) \/ h \in Queued(Tail(ev.ch))
    BY <1>3, <2>1, QueuedTail, Zenon
  <2>3. /\ ev' \in Events /\ ev'.ch = Tail(ev.ch) /\ ev'.taken = Head(ev.ch) /\ ev'.flight = ev.flight
        /\ ev'.hand = ev.hand /\ ev'.cache = ev.cache
    BY <1>2, <2>1, <2>2, Zenon DEF Events
  <2>4. st' \in Nat /\ st' >= st /\ ~(0 > st')
    BY <1>2, <2>1
  <2>5. OneAtATime'
    BY <2>1, <2>3, Zenon DEF OneAtATime
  <2> QED BY <2>1, <2>2, <2>3, <2>4, <2>5, Zenon DEF OnTheWay
<1>7. CASE CountEvent
  <2>1. st' = st /\ ev' = [ev EXCEPT !.flight = ev.taken, !.taken = 0] /\ ev.flight = 0
    BY <1>2, <1>7, Zenon DEF CountEvent, fixVars, OneAtATime
  <2>2. /\ ev' \in Events /\ ev'.ch = ev.ch /\ ev'.taken = 0 /\ ev'.flight = ev.taken
        /\ ev'.hand = ev.hand /\ ev'.cache = ev.cache
    BY <1>2, <1>3, <2>1, Zenon DEF Events
  <2>3. st' \in Nat /\ st' >= st /\ ~(0 > st')
    BY <1>2, <2>1
  <2> QED BY <2>1, <2>2, <2>3, Zenon DEF OneAtATime, OnTheWay
<1>8. CASE ProcessEvent
  <2>1. /\ ev' = [ev EXCEPT !.flight = 0, !.cache = Applied(ev.flight, ev.cache)]
        /\ st' = IF ev.flight = st + 1 THEN st + 1 ELSE st
    BY <1>8, Zenon DEF ProcessEvent
  <2>2. Applied(ev.flight, ev.cache) \subseteq Nat /\ ev.cache \subseteq Applied(ev.flight, ev.cache)
    BY <1>3, Zenon DEF Applied
  <2>3. ev.flight > st' => ev.flight \in Applied(ev.flight, ev.cache)
    BY <1>2, <1>3, <2>1 DEF Applied
  <2>4. /\ ev' \in Events /\ ev'.ch = ev.ch /\ ev'.taken = ev.taken /\ ev'.flight = 0
        /\ ev'.hand = ev.hand /\ ev'.cache = Applied(ev.flight, ev.cache)
    BY <1>2, <2>1, <2>2, Zenon DEF Events
  <2>5. st' \in Nat /\ st' >= st
    BY <1>2, <2>1
  <2> QED BY <2>2, <2>3, <2>4, <2>5, Zenon DEF OneAtATime, OnTheWay
<1>9. CASE PendingTake
  <2>1. st' = st /\ ev' = [ev EXCEPT !.hand = st + 1, !.cache = ev.cache \ {st + 1}] /\ ev.hand = 0
    BY <1>9, Zenon DEF PendingTake, fixVars
  <2>2. /\ ev' \in Events /\ ev'.ch = ev.ch /\ ev'.taken = ev.taken /\ ev'.flight = ev.flight
        /\ ev'.hand = st + 1 /\ ev'.cache = ev.cache \ {st + 1}
    <3>1. st + 1 \in Nat
      BY <1>2
    <3>2. ev.cache \ {st + 1} \in SUBSET Nat
      BY <1>3, Zenon
    <3> QED BY <1>2, <2>1, <3>1, <3>2, Zenon DEF Events
  <2>3. st' \in Nat /\ st' >= st /\ ~(0 > st')
    BY <1>2, <2>1
  <2> QED BY <1>2, <2>1, <2>2, <2>3, Zenon DEF OneAtATime, OnTheWay
<1>10. CASE PendingSend
  <2>1. st' = st /\ ev' = [ev EXCEPT !.ch = Append(ev.ch, ev.hand), !.hand = 0]
    BY <1>10, Zenon DEF PendingSend, fixVars
  <2>2. Append(ev.ch, ev.hand) \in Seq(Nat) /\ Queued(Append(ev.ch, ev.hand)) = Queued(ev.ch) \cup {ev.hand}
    BY <1>3, QueuedAppend, SMT
  <2>3. /\ ev' \in Events /\ ev'.ch = Append(ev.ch, ev.hand) /\ ev'.taken = ev.taken /\ ev'.flight = ev.flight
        /\ ev'.hand = 0 /\ ev'.cache = ev.cache
    BY <1>2, <2>1, <2>2, Zenon DEF Events
  <2>4. st' \in Nat /\ st' >= st
    BY <1>2, <2>1
  <2> QED BY <1>2, <2>2, <2>3, <2>4, Zenon DEF OneAtATime, OnTheWay
<1> QED BY <1>5, <1>6, <1>7, <1>8, <1>9, <1>10, Zenon DEF ProcessLoop, PendingWorker

(* Stop processes, keeps or drops what is left, all of it below the top    *)
(* unless the decision to stop came early.                                 *)
LEMMA StopSteps ==
  ASSUME NInv, StopSyncer
  PROVE  NInv'
<1>1. run.pc = "stopping" /\ UNCHANGED <<start, svc, da, poll, twice>> /\ Begun' = Begun
  BY Zenon DEF StopSyncer, StopInFlight, StopDrain, StopDone, fixVars, Begun
<1>2. early \/ st >= da.next
  BY <1>1, StoppingIsPast, Zenon
<1>3. ev \in Events /\ st \in Nat /\ run \in RoleRun
  BY Zenon DEF NInv, NShape
<1>4. ev.ch \in Seq(Nat) /\ ev.taken \in Nat /\ ev.flight \in Nat /\ ev.hand \in Nat /\ ev.cache \subseteq Nat
  BY <1>3 DEF Events
<1>5. CASE StopInFlight
  <2>1. UNCHANGED <<run, early>>
    BY <1>5, Zenon DEF StopInFlight
  <2> DEFINE h == ev.taken + ev.flight
             done == Applied(h, ev.cache) \cup ({ev.hand} \ {0})
             kept == (ev.cache \cup {h, ev.hand}) \ {0}
  <2>2. h \in Nat
    BY <1>4
  <2>3. done \in SUBSET Nat /\ kept \in SUBSET Nat
    BY <1>4, <2>2, Zenon DEF Applied
  <2>4. /\ st' = st \/ st' = st + 1
        /\ \/ ev' = [ev EXCEPT !.taken = 0, !.flight = 0, !.hand = 0, !.cache = done]
           \/ ev' = [ev EXCEPT !.taken = 0, !.flight = 0, !.hand = 0, !.cache = kept]
    BY <1>5, Zenon DEF StopInFlight
  <2> HIDE DEF h, done, kept
  <2>5. ev' \in Events /\ ev'.taken = 0
    <3>1. 0 \in Nat
      OBVIOUS
    <3> QED BY <1>3, <2>3, <2>4, <3>1, Zenon DEF Events
  <2>6. st' \in Nat /\ st' >= st
    BY <1>3, <2>4
  <2>7. NShape' /\ OneAtATime'
    BY <1>1, <2>1, <2>5, <2>6, Zenon DEF NInv, NShape, OneAtATime
  <2> QED BY <1>1, <1>2, <2>1, <2>6, <2>7, MovingKeeps, Zenon
<1>6. CASE StopDrain
  <2>1. run' = run /\ ev.taken = 0 /\ ev.ch # <<>>
    BY <1>6, Zenon DEF StopDrain
  <2>2. Head(ev.ch) \in Nat /\ Tail(ev.ch) \in Seq(Nat)
    BY <1>4, <2>1, QueuedTail, Zenon
  <2>3. CASE early' = early /\ st' \in {st, st + 1} /\ ev' = [ev EXCEPT !.ch = Tail(ev.ch), !.cache = Applied(Head(ev.ch), ev.cache)]
    <3>1. Applied(Head(ev.ch), ev.cache) \in SUBSET Nat
      BY <1>4, <2>2, Zenon DEF Applied
    <3>2. ev' \in Events /\ ev'.taken = 0
      BY <1>3, <2>1, <2>2, <2>3, <3>1, Zenon DEF Events
    <3>3. st' \in Nat /\ st' >= st
      BY <1>3, <2>3
    <3>4. NShape' /\ OneAtATime'
      BY <1>1, <2>1, <2>3, <3>2, <3>3, Zenon DEF NInv, NShape, OneAtATime
    <3> QED BY <1>1, <1>2, <2>1, <2>3, <3>3, <3>4, MovingKeeps, Zenon
  <2>4. CASE early' = TRUE /\ st' = st /\ ev' = [ev EXCEPT !.ch = <<>>]
    <3>1. ev' \in Events /\ ev'.taken = 0
      BY <1>3, <2>1, <2>4, QueuedNone, Zenon DEF Events
    <3>2. NShape' /\ OneAtATime'
      BY <1>1, <2>1, <2>4, <3>1, Zenon DEF NInv, NShape, OneAtATime
    <3>3. Followed' /\ PollHolds' /\ CaughtUp'
      BY <1>1, <2>1, <2>4, Zenon DEF NInv, Followed, PollHolds, CaughtUp
    <3>4. NonePassedOver' /\ RewriteNeedsRace'
      BY <2>4, Zenon DEF NonePassedOver, RewriteNeedsRace
    <3> QED BY <3>2, <3>3, <3>4, Zenon DEF NInv
  <2> QED BY <1>6, <2>3, <2>4, Zenon DEF StopDrain
<1>7. CASE StopDone
  <2>1. run' = [run EXCEPT !.pc = "run"] /\ ev' = NoEvents /\ st' = st /\ early' = early
    BY <1>7, Zenon DEF StopDone
  <2>2. run' \in RoleRun /\ run'.pc = "run" /\ run'.role = run.role
    BY <1>3, <2>1 DEF RoleRun, Phases
  <2>3. ev' \in Events /\ ev'.taken = 0
    BY <2>1 DEF NoEvents, Events
  <2>4. NShape' /\ OneAtATime'
    BY <1>1, <2>1, <2>2, <2>3, Zenon DEF NInv, NShape, OneAtATime
  <2>5. Followed' /\ PollHolds' /\ RewriteNeedsRace'
    BY <1>1, <2>1, Zenon DEF NInv, Followed, PollHolds, RewriteNeedsRace
  <2>6. CaughtUp'
    BY <1>1, <2>1, <2>2 DEF NInv, CaughtUp
  <2>7. NonePassedOver'
    BY <1>1, <1>2, <1>3, <2>1 DEF NInv, Followed, NonePassedOver
  <2> QED BY <2>4, <2>5, <2>6, <2>7, Zenon DEF NInv
<1> QED BY <1>5, <1>6, <1>7, Zenon DEF StopSyncer

(* A poll reads the heights and flags, then the counters; the DA and P2P   *)
(* answers stay true while it reads on.  It decides to stop with nothing   *)
(* on the way, or early.                                                   *)
LEMMA PollSteps ==
  ASSUME NInv, CatchupPoll
  PROVE  NInv'
<1>1. run.pc = "catchup" /\ UNCHANGED <<start, st, svc, da, ev, twice>> /\ Begun' = Begun
  BY Zenon DEF CatchupPoll, PollStatus, PollInFlight, PollDecides, fixVars, Begun
<1>2. ev \in Events /\ st \in Nat /\ run \in RoleRun /\ svc \in [Services -> Service] /\ poll \in Polls
  BY Zenon DEF NInv, NShape
<1>3. Followed' /\ OneAtATime'
  BY <1>1, Zenon DEF NInv, Followed, OneAtATime
<1>4. Begun.top \in Nat /\ Begun.da \in Nat /\ Begun.da <= Begun.top /\ (Begun.peers \/ Begun.da = Begun.top)
  BY BegunIs, Zenon DEF NInv, NShape
<1>5. ASSUME run' = run, early' = early, poll' \in Polls, PollHolds' PROVE NInv'
  <2>1. NShape'
    BY <1>1, <1>5, Zenon DEF NInv, NShape
  <2>2. NonePassedOver' /\ CaughtUp' /\ RewriteNeedsRace'
    BY <1>1, <1>5, Zenon DEF NInv, NonePassedOver, OnTheWay, CaughtUp, RewriteNeedsRace
  <2> QED BY <1>3, <1>5, <2>1, <2>2, Zenon DEF NInv
<1>6. CASE PollStatus
  <2>1. /\ run' = run /\ early' = early
        /\ poll' = [pc |-> "flight", count |-> Len(ev.ch), p2p |-> p2pReady, da |-> da.reached, unfetched |-> Unfetched]
    BY <1>6, Zenon DEF PollStatus
  <2>2. Len(ev.ch) \in Nat /\ p2pReady \in BOOLEAN /\ Unfetched \in BOOLEAN /\ da.reached \in BOOLEAN
    <3>1. ev.ch \in Seq(Nat) /\ da.reached \in BOOLEAN
      BY <1>2 DEF Events, NInv, Followed
    <3> QED BY <3>1, LenProperties, Zenon DEF p2pReady, Unfetched
  <2>3. poll' \in Polls /\ poll'.p2p = p2pReady /\ poll'.da = da.reached /\ poll'.unfetched = Unfetched
    BY <2>1, <2>2, Zenon DEF Polls
  <2>4. Begun.peers /\ p2pReady /\ ~Unfetched => st >= Begun.top
    <3> SUFFICES ASSUME Begun.peers, p2pReady, ~Unfetched
                 PROVE  st >= Begun.top
      OBVIOUS
    <3>1. "header" \in Services
      BY DEF Services
    <3>2. ServiceHeight("header") \in Nat
      BY <1>2, <3>1 DEF ServiceHeight, Service
    <3>3. st >= ServiceHeight("header") /\ ~(ServiceHeight("header") < Begun.top)
      BY <3>1, Zenon DEF p2pReady, Unfetched
    <3> QED BY <1>2, <1>4, <3>2, <3>3
  <2>5. PollHolds'
    BY <1>1, <2>3, <2>4, Zenon DEF PollHolds
  <2> QED BY <1>5, <2>1, <2>3, <2>5, Zenon
<1>7. CASE PollInFlight
  <2> DEFINE counted == poll.count + (IF ev.flight # 0 THEN 1 ELSE 0)
  <2>1. run' = run /\ early' = early /\ poll.pc = "flight" /\ poll' = [poll EXCEPT !.pc = "cache", !.count = counted]
    BY <1>7, Zenon DEF PollInFlight
  <2>2. counted \in Nat
    BY <1>2 DEF Polls
  <2> HIDE DEF counted
  <2>3. poll' \in Polls /\ poll'.p2p = poll.p2p /\ poll'.da = poll.da /\ poll'.unfetched = poll.unfetched
    BY <1>2, <2>1, <2>2, Zenon DEF Polls
  <2>4. PollHolds'
    <3>1. "flight" # "idle"
      OBVIOUS
    <3> QED BY <1>1, <2>1, <2>3, <3>1, Zenon DEF NInv, PollHolds
  <2> QED BY <1>5, <2>1, <2>3, <2>4, Zenon
<1>8. CASE PollDecides
  <2>1. NoPoll \in Polls /\ NoPoll.pc = "idle"
    BY DEF NoPoll, Polls
  <2>2. poll' \in Polls /\ PollHolds'
    BY <1>8, <2>1, Zenon DEF PollDecides, PollHolds
  <2>3. CASE run' = run /\ early' = early
    BY <1>5, <2>2, <2>3, Zenon
  <2>4. ASSUME run' = [run EXCEPT !.pc = "stopping"], early' = (early \/ poll.unfetched \/ Outstanding),
               poll.pc = "cache", poll.da, Begun.peers => poll.p2p
        PROVE  NInv'
    <3>1. run' \in RoleRun /\ run'.pc = "stopping" /\ run'.role = run.role
      BY <1>2, <2>4 DEF RoleRun, Phases
    <3>2. early' \in BOOLEAN /\ (early => early')
      BY <2>4, Zenon
    <3>3. NShape'
      BY <1>1, <2>2, <3>1, <3>2, Zenon DEF NInv, NShape
    <3>4. NonePassedOver' /\ RewriteNeedsRace'
      BY <1>1, <3>2, Zenon DEF NInv, NonePassedOver, OnTheWay, RewriteNeedsRace
    <3>5. ~early' => st >= Begun.top
      <4> SUFFICES ASSUME ~early'
                   PROVE  st >= Begun.top
        OBVIOUS
      <4>1. ~early /\ ~poll.unfetched /\ ~Outstanding
        BY <2>4, Zenon
      <4>2. da.reached /\ (Begun.peers /\ poll.p2p => st >= Begun.top)
        <5>1. "cache" # "idle"
          OBVIOUS
        <5> QED BY <2>4, <4>1, <5>1, Zenon DEF NInv, PollHolds
      <4>3. OnTheWay = {0}
        BY <4>1, QueuedNone DEF Outstanding, OnTheWay
      <4>4. da.next \in Nat /\ da.next = Begun.da
        BY <4>2 DEF NInv, Followed
      <4>5. st >= Begun.da
        BY <1>2, <4>1, <4>3, <4>4 DEF NInv, NonePassedOver
      <4> QED BY <1>4, <2>4, <4>2, <4>5, Zenon
    <3>6. CaughtUp'
      BY <1>1, <3>1, <3>5, Zenon DEF NInv, CaughtUp
    <3> QED BY <1>3, <2>2, <3>3, <3>4, <3>6, Zenon DEF NInv
  <2> QED BY <1>8, <2>3, <2>4, Zenon DEF PollDecides, ready
<1> QED BY <1>6, <1>7, <1>8, Zenon DEF CatchupPoll

(* The components: a leader that caught up is at the top, or was early.    *)
LEMMA RunSteps ==
  ASSUME NInv, ProduceNext \/ FollowChain
  PROVE  NInv'
<1>1. run.pc = "run" /\ UNCHANGED <<start, run, da, ev, poll, early>> /\ Begun' = Begun
  BY Zenon DEF ProduceNext, FollowChain, fixVars, catchVars, Begun
<1>2. st \in Nat /\ svc \in [Services -> Service] /\ Begun.top \in Nat
  BY BegunIs, Zenon DEF NInv, NShape
<1>3. st' = st + 1 /\ st' \in Nat /\ st' >= st
  <2>1. st' = st + 1
    BY Zenon DEF ProduceNext, FollowChain
  <2> QED BY <1>2, <2>1
<1>4. svc' \in [Services -> Service]
  <2>1. CASE ProduceNext
    <3>1. \A k \in Services : [svc[k] EXCEPT !.syncer = TRUE, !.pend = st + 1] \in Service
      <4> SUFFICES ASSUME NEW k \in Services
                   PROVE  [svc[k] EXCEPT !.syncer = TRUE, !.pend = st + 1] \in Service
        BY Zenon
      <4>1. svc[k] \in Service /\ st + 1 \in Nat
        BY <1>2
      <4> QED BY <4>1, Zenon DEF Service
    <3> QED BY <2>1, <3>1, Zenon DEF ProduceNext
  <2>2. CASE FollowChain
    BY <1>2, <2>2, Zenon DEF FollowChain
  <2> QED BY <2>1, <2>2, Zenon
<1>5. NShape' /\ OneAtATime' /\ Followed'
  BY <1>1, <1>3, <1>4, Zenon DEF NInv, NShape, OneAtATime, Followed
<1>6. NonePassedOver'
  BY <1>1, <1>2, <1>3 DEF NInv, Followed, NonePassedOver, OnTheWay
<1>7. PollHolds' /\ CaughtUp'
  BY <1>1, <1>2, <1>3 DEF NInv, PollHolds, CaughtUp
<1>8. RewriteNeedsRace'
  <2>1. CASE twice' = twice
    BY <1>1, <2>1, Zenon DEF NInv, RewriteNeedsRace
  <2>2. CASE run.role = "leader" /\ twice' = (twice \/ st + 1 <= Begun.top)
    <3>1. Begun.catchup => early \/ ~(st + 1 <= Begun.top)
      BY <1>1, <1>2, <2>2 DEF NInv, CaughtUp
    <3> QED BY <1>1, <2>2, <3>1, Zenon DEF NInv, RewriteNeedsRace
  <2> QED BY <2>1, <2>2, Zenon DEF ProduceNext, FollowChain
<1> QED BY <1>5, <1>6, <1>7, <1>8, Zenon DEF NInv

LEMMA NInvHolds == NSpec => []NInv
<1>1. NInv /\ [NNext]_nVars => NInv'
  <2> SUFFICES ASSUME NInv, [NNext]_nVars
               PROVE  NInv'
    OBVIOUS
  <2>1. CASE UNCHANGED nVars
    <3>1. UNCHANGED <<start, st, da, ev, poll, early, twice, run, svc>>
      BY <2>1, Zenon DEF nVars
    <3>2. NShape' /\ CaughtUp'
      BY <3>1, Zenon DEF NInv, NShape, CaughtUp, Begun
    <3> QED BY <3>1, <3>2, RestingKeeps, Zenon
  <2>2. CASE NNext
    <3>1. CASE \E k \in Services : StartService(k) \/ TryInit(k) \/ GiveUpInit(k) \/ FetchItem(k)
      BY <3>1, ServiceSteps, Zenon
    <3>2. CASE BindPort \/ PeersCome \/ ServicesUp \/ P2PDeadline \/ NextProposerChanges \/ CancelRole \/ ExitNode
      BY <3>2, RoleSteps, Zenon
    <3>3. CASE DAFollow
      BY <3>3, FollowStep, Zenon
    <3>4. CASE P2PWorker \/ ProcessLoop \/ PendingWorker
      BY <3>4, EventSteps, Zenon
    <3>5. CASE CatchupPoll
      BY <3>5, PollSteps, Zenon
    <3>6. CASE StopSyncer
      BY <3>6, StopSteps, Zenon
    <3>7. CASE ProduceNext \/ FollowChain
      BY <3>7, RunSteps, Zenon
    <3>8. CASE SwitchRole
      BY <3>8, SwitchStep, Zenon
    <3> QED BY <2>2, <3>1, <3>2, <3>3, <3>4, <3>5, <3>6, <3>7, <3>8, Zenon DEF NNext, RoleSwitch
  <2> QED BY <2>1, <2>2, Zenon
<1> QED BY <1>1, NInitInv, PTL DEF NSpec

(* An aggregator that catches up produces no second block at a height that *)
(* its peers or DA hold, unless readiness was answered over a moving event *)
(* or unfetched blocks, or the drain was cut short (node/failover.go       *)
(* runCatchupPhase, catchupStatus; syncer.go PendingCount, Stop).          *)
THEOREM RewritesNeedRaces == NSpec => []RewriteNeedsRace
<1>1. NInv => RewriteNeedsRace
  BY Zenon DEF NInv
<1> QED BY <1>1, NInvHolds, PTL

(***************************************************************************)
(* The sequencer cluster                                                   *)
(***************************************************************************)
Block == [h : 0..TopHeight, id : Nat, prev : Nat, t : Nat]
Roles == {"new", "landingNew", "factory", "down"} \cup Following \cup Leading
Producing == {"apply", "propose", "commit"}

Shape ==
  /\ log \in Seq(Block) /\ fsm \in Seq(Block) /\ Len(fsm) = Len(log)
  /\ stores \in [Nodes -> Seq(Block)] /\ pend \in [Nodes -> Block] /\ made \in Nat
  /\ refused \in BOOLEAN

Membership ==
  /\ role \in [Nodes -> Roles] /\ leader \in Nodes \cup {None} /\ believes \subseteq Nodes
  /\ commit \in [Nodes -> Nat] /\ applied \in [Nodes -> Nat]
  /\ \A n \in Nodes : applied[n] <= commit[n] /\ commit[n] <= Len(log)

(* The state machine took the block.                                       *)
Taken(b) == \E i \in 1..Len(log) : log[i] = b /\ fsm[i] = b

TakenNext(b) == \E i \in 1..Len(log') : log'[i] = b /\ fsm'[i] = b

(* The state machine never goes back and has one block for a height; this  *)
(* is where the strict comparison of assertValid is used.                  *)
Ascending == \A i, j \in 1..Len(fsm) : i < j => fsm[i].h < fsm[j].h \/ fsm[i] = fsm[j]

FromLog == \A i \in 1..Len(fsm) : fsm[i] = NoBlock \/ Taken(fsm[i])

(* A store holds blocks that the state machine took, in their places.      *)
StoresTaken ==
  \A n \in Nodes : \A h \in 1..Len(stores[n]) :
    stores[n][h].h = h /\ (refused \/ Taken(stores[n][h]))

(* A leader past its broadcast holds a block that the state machine took.  *)
PendingNext ==
  \A n \in Nodes :
    /\ role[n] \in Producing => pend[n].h = Len(stores[n]) + 1
    /\ role[n] = "commit" => refused \/ Taken(pend[n])

CInv == Shape /\ Membership /\ Ascending /\ FromLog /\ StoresTaken /\ PendingNext

-----------------------------------------------------------------------------
LEMMA ClusterConstants == TopHeight \in Nat /\ None \notin Nodes
BY RaftClusterAssumption, NoneAssumption, Zenon

LEMMA NoBlockType == NoBlock \in Block /\ NoBlock.h = 0 /\ NoBlock.id = 0 /\ NoBlock.t = 0
BY ClusterConstants DEF NoBlock, Block

LEMMA InitInv == CInit => CInv
<1> SUFFICES ASSUME CInit PROVE CInv
  BY Zenon
<1> USE ClusterConstants, NoBlockType DEF CInit
<1>1. Shape
  <2>1. log \in Seq(Block) /\ fsm \in Seq(Block) /\ Len(fsm) = Len(log)
    OBVIOUS
  <2>2. stores \in [Nodes -> Seq(Block)]
    OBVIOUS
  <2> QED BY <2>1, <2>2, Zenon DEF Shape
<1>2. Membership
  BY DEF Membership, Roles
<1>3. Ascending /\ FromLog /\ StoresTaken /\ PendingNext
  BY DEF Ascending, FromLog, StoresTaken, PendingNext, Producing
<1> QED BY <1>1, <1>2, <1>3, Zenon DEF CInv

(* Two blocks that the state machine took for one height are the same.     *)
LEMMA TakenOnce ==
  ASSUME CInv, NEW b, NEW c, Taken(b), Taken(c), b.h = c.h PROVE b = c
<1>1. PICK i \in 1..Len(log) : fsm[i] = b
  BY Zenon DEF Taken
<1>2. PICK j \in 1..Len(log) : fsm[j] = c
  BY Zenon DEF Taken
<1>3. Len(fsm) = Len(log) /\ Len(log) \in Nat /\ fsm[i].h \in Int /\ fsm[j].h \in Int
  <2>1. Len(fsm) = Len(log) /\ Len(log) \in Nat /\ fsm[i] \in Block /\ fsm[j] \in Block
    BY <1>1, <1>2 DEF CInv, Shape
  <2> QED BY <2>1, ClusterConstants DEF Block
<1>4. CASE i < j
  BY <1>1, <1>2, <1>3, <1>4 DEF CInv, Ascending
<1>5. CASE j < i
  BY <1>1, <1>2, <1>3, <1>5 DEF CInv, Ascending
<1>6. CASE i = j
  BY <1>1, <1>2, <1>6, Zenon
<1> QED BY <1>1, <1>2, <1>3, <1>4, <1>5, <1>6

(* What raft's state of a node is, once it is past height zero.            *)
LEMMA StateTaken ==
  ASSUME CInv, NEW n \in Nodes PROVE GetState(n) \in Block /\ (GetState(n).h > 0 => Taken(GetState(n)))
<1>1. applied[n] \in Nat /\ applied[n] <= Len(log) /\ Len(log) \in Nat /\ Len(fsm) = Len(log)
      /\ commit[n] \in Nat
  BY DEF CInv, Membership, Shape
<1>2. CASE applied[n] = 0
  BY <1>2, NoBlockType DEF GetState, FsmAt
<1>3. CASE applied[n] # 0
  <2>1. applied[n] \in 1..Len(fsm) /\ GetState(n) = fsm[applied[n]]
    BY <1>1, <1>3 DEF GetState, FsmAt
  <2>2. fsm[applied[n]] \in Block
    BY <2>1 DEF CInv, Shape
  <2> QED BY <2>1, <2>2, NoBlockType DEF CInv, FromLog
<1> QED BY <1>2, <1>3, Zenon

-----------------------------------------------------------------------------
(* The steps that keep the blocks where they are.                          *)
BlocksStay ==
  log' = log /\ fsm' = fsm /\ stores' = stores /\ pend' = pend /\ made' = made /\ refused' = refused

LEMMA StayInv ==
  ASSUME CInv, BlocksStay, Membership',
         \A n \in Nodes : role'[n] \in Producing => role[n] \in Producing,
         \A n \in Nodes : role'[n] = "commit" => role[n] = "commit"
  PROVE  CInv'
<1>1. Shape' /\ Ascending' /\ FromLog' /\ StoresTaken'
  BY DEF CInv, BlocksStay, Shape, Ascending, FromLog, Taken, StoresTaken
<1>2. PendingNext'
  BY Zenon DEF CInv, BlocksStay, PendingNext, Taken
<1> QED BY <1>1, <1>2, Zenon DEF CInv

LEMMA EndsInv == ASSUME CInv, NEW n \in Nodes, Ends(n), refused' = refused PROVE CInv'
<1> USE DEF CInv
<1>1. BlocksStay
  BY Zenon DEF Ends, BlocksStay
<1>2. Membership'
  BY DEF Ends, Membership, Shape, Roles
<1>3. \A m \in Nodes : role'[m] = role[m] \/ role'[m] = "down"
  BY Zenon DEF Ends, Membership
<1> QED BY <1>1, <1>2, <1>3, StayInv, Zenon DEF Producing

LEMMA RaftInv ==
  ASSUME CInv, NEW n \in Nodes, Elect(n) \/ StepDown(n) \/ LearnCommit(n) \/ ApplyEntry(n)
  PROVE  CInv'
<1> USE DEF CInv
<1>1. BlocksStay /\ role' = role
  BY Zenon DEF Elect, StepDown, LearnCommit, ApplyEntry, BlocksStay, nodeVars, countVars
<1>2. leader' \in Nodes \cup {None} /\ believes' \subseteq Nodes
  BY Zenon DEF Elect, StepDown, LearnCommit, ApplyEntry, Membership
<1>3. /\ commit' \in [Nodes -> Nat] /\ applied' \in [Nodes -> Nat]
      /\ \A m \in Nodes : applied'[m] <= commit'[m] /\ commit'[m] <= Len(log)
  <2>1. Len(log) \in Nat
    BY DEF Shape
  <2>2. CASE LearnCommit(n)
    BY <2>1, <2>2 DEF LearnCommit, Membership
  <2>3. CASE ApplyEntry(n)
    BY <2>1, <2>3 DEF ApplyEntry, Membership
  <2>4. CASE Elect(n) \/ StepDown(n)
    BY <2>4, Zenon DEF Elect, StepDown, Membership
  <2> QED BY <2>2, <2>3, <2>4, Zenon
<1>4. Membership'
  BY <1>1, <1>2, <1>3, Zenon DEF Membership, BlocksStay
<1> QED BY <1>1, <1>4, StayInv, Zenon

(* Raft's variables but for its log, of an abdication or of nothing.       *)
LEMMA RaftKept ==
  ASSUME CInv, NEW n \in Nodes, Abdicate(n) \/ UNCHANGED raftVars
  PROVE  /\ log' = log /\ fsm' = fsm /\ leader' \in Nodes \cup {None} /\ believes' \subseteq Nodes
         /\ commit' = commit /\ applied' = applied
BY Zenon DEF CInv, Abdicate, raftVars, Membership

(* A change of one node's role.                                            *)
LEMMA RoleInv ==
  ASSUME CInv, NEW n \in Nodes, NEW r \in Roles \ Producing, role' = [role EXCEPT ![n] = r],
         log' = log, fsm' = fsm, leader' \in Nodes \cup {None}, believes' \subseteq Nodes,
         commit' = commit, applied' = applied,
         stores' = stores, pend' = pend, made' = made, refused' = refused
  PROVE  CInv'
<1> USE DEF CInv
<1>1. BlocksStay
  BY Zenon DEF BlocksStay
<1>2. Membership'
  BY Zenon DEF Membership
<1>3. \A m \in Nodes : role'[m] = role[m] \/ role'[m] = r
  BY Zenon DEF Membership
<1> QED BY <1>1, <1>2, <1>3, StayInv, Zenon DEF Producing

(* A block is appended to the store of a node that produces none.          *)
LEMMA AppendedInv ==
  ASSUME CInv, NEW n \in Nodes, NEW b \in Block, b.h = Len(stores[n]) + 1, refused \/ Taken(b),
         NEW r \in Roles \ Producing, role' = [role EXCEPT ![n] = r],
         stores' = [stores EXCEPT ![n] = Append(@, b)], pend' = [pend EXCEPT ![n] = NoBlock],
         UNCHANGED raftVars, made' = made, refused' = refused
  PROVE  CInv'
<1> USE DEF CInv
<1>1. /\ log' = log /\ fsm' = fsm /\ leader' = leader /\ believes' = believes
      /\ commit' = commit /\ applied' = applied
  BY Zenon DEF raftVars
<1>2. stores[n] \in Seq(Block) /\ Len(stores[n]) \in Nat
  BY DEF Shape
<1>3. stores'[n] = Append(stores[n], b) /\ \A m \in Nodes : m # n => stores'[m] = stores[m]
  BY Zenon DEF Shape
<1>4. /\ stores'[n] \in Seq(Block) /\ Len(stores'[n]) = Len(stores[n]) + 1
      /\ stores'[n][Len(stores[n]) + 1] = b
      /\ \A h \in 1..Len(stores[n]) : stores'[n][h] = stores[n][h]
  BY <1>2, <1>3
<1>5. Shape'
  BY <1>1, <1>3, <1>4, NoBlockType, Zenon DEF Shape
<1>6. Membership' /\ Ascending' /\ FromLog'
  BY <1>1, Zenon DEF Membership, Ascending, FromLog, Taken
<1>7. \A c : Taken(c)' <=> Taken(c)
  BY <1>1, Zenon DEF Taken
<1>8. StoresTaken'
  <2> SUFFICES ASSUME NEW m \in Nodes, NEW h \in 1..Len(stores'[m])
               PROVE  stores'[m][h].h = h /\ (refused \/ Taken(stores'[m][h]))
    BY <1>7, Zenon DEF StoresTaken
  <2>1. CASE m # n
    BY <1>3, <2>1 DEF StoresTaken
  <2>2. CASE m = n /\ h = Len(stores[n]) + 1
    BY <1>4, <2>2, Zenon
  <2>3. CASE m = n /\ h # Len(stores[n]) + 1
    <3>1. h \in 1..Len(stores[n])
      BY <1>2, <1>4, <2>3
    <3> QED BY <1>4, <2>3, <3>1 DEF StoresTaken
  <2> QED BY <2>1, <2>2, <2>3, Zenon
<1>9. PendingNext'
  <2> SUFFICES ASSUME NEW m \in Nodes
               PROVE  /\ role'[m] \in Producing => pend'[m].h = Len(stores'[m]) + 1
                      /\ role'[m] = "commit" => refused \/ Taken(pend'[m])
    BY <1>7, Zenon DEF PendingNext
  <2>1. CASE m = n
    <3>1. role'[m] = r
      BY <2>1, Zenon DEF Membership
    <3> QED BY <3>1, Zenon DEF Producing
  <2>2. CASE m # n
    <3>1. role'[m] = role[m] /\ pend'[m] = pend[m] /\ stores'[m] = stores[m]
      BY <1>3, <2>2, Zenon DEF Membership, Shape
    <3> QED BY <3>1, Zenon DEF PendingNext
  <2> QED BY <2>1, <2>2, Zenon
<1> QED BY <1>5, <1>6, <1>8, <1>9, Zenon

-----------------------------------------------------------------------------
(* A follower takes only blocks that the state machine took.               *)
LEMMA SyncsInv == ASSUME CInv, NEW n \in Nodes, FollowerSyncs(n) PROVE CInv'
<1>1. PICK b \in Offered(n) : stores' = [stores EXCEPT ![n] = Append(@, b)]
  BY Zenon DEF FollowerSyncs
<1>2. b.h = Len(stores[n]) + 1
  BY <1>1, Zenon DEF Offered
<1>3. b \in Block /\ (refused \/ Taken(b))
  <2>1. CASE \E i \in 1..applied[n] : Accepted(i) /\ b = log[i]
    <3>1. PICK i \in 1..applied[n] : FsmAt(i) = log[i] /\ b = log[i]
      BY <2>1, Zenon DEF Accepted
    <3>2. i \in 1..Len(log) /\ fsm[i] = log[i]
      BY <3>1 DEF FsmAt, CInv, Membership, Shape
    <3>3. b \in Block
      BY <3>1, <3>2 DEF CInv, Shape
    <3> QED BY <3>1, <3>2, <3>3, Zenon DEF Taken
  <2>2. CASE \E m \in Nodes : b \in Range(stores[m])
    <3>1. PICK m \in Nodes : b \in Range(stores[m])
      BY <2>2, Zenon
    <3>2. stores[m] \in Seq(Block)
      BY Zenon DEF CInv, Shape
    <3>3. PICK h \in 1..Len(stores[m]) : b = stores[m][h]
      BY <3>1, <3>2 DEF Range
    <3> QED BY <3>2, <3>3 DEF CInv, StoresTaken
  <2> QED BY <1>1, <2>1, <2>2, Zenon DEF Offered
<1>4. role[n] \in Roles \ Producing /\ role' = [role EXCEPT ![n] = role[n]]
  BY Zenon DEF FollowerSyncs, Following, Roles, Producing, CInv, Membership
<1>5. pend' = [pend EXCEPT ![n] = NoBlock] /\ UNCHANGED raftVars /\ made' = made /\ refused' = refused
  BY Zenon DEF FollowerSyncs, countVars
<1> QED BY <1>1, <1>2, <1>3, <1>4, <1>5, AppendedInv, Zenon

LEMMA CheckSyncedInv == ASSUME CInv, NEW n \in Nodes, CheckSynced(n) PROVE CInv'
<1>1. refused' = refused
  BY Zenon DEF CheckSynced, countVars
<1>2. CASE Ends(n)
  BY <1>1, <1>2, EndsInv, Zenon
<1>3. ASSUME NEW r \in {"follower", "syncwait", "factory"},
             role' = [role EXCEPT ![n] = r], UNCHANGED <<raftVars, stores, pend, exec, made>>
      PROVE  CInv'
  <2>1. r \in Roles \ Producing
    BY Zenon DEF Roles, Following, Producing
  <2> QED BY <1>1, <1>3, <2>1, RoleInv, Zenon DEF raftVars, CInv, Membership
<1>4. CASE /\ Diff(n) = -1 /\ stores' = [stores EXCEPT ![n] = Append(@, GetState(n))]
           /\ pend' = [pend EXCEPT ![n] = NoBlock] /\ role' = [role EXCEPT ![n] = "factory"]
           /\ UNCHANGED <<raftVars, made>>
  <2>1. GetState(n) \in Block /\ (GetState(n).h > 0 => Taken(GetState(n)))
    BY StateTaken, Zenon
  <2>2. GetState(n).h \in Nat /\ Len(stores[n]) \in Nat
    BY <2>1, ClusterConstants DEF Block, CInv, Shape
  <2>3. GetState(n).h = Len(stores[n]) + 1
    BY <1>4, <2>2 DEF Diff
  <2>4. "factory" \in Roles \ Producing
    BY Zenon DEF Roles, Producing
  <2>5. Taken(GetState(n))
    BY <2>1, <2>2, <2>3
  <2> HIDE DEF Diff
  <2> QED BY <1>1, <1>4, <2>1, <2>3, <2>4, <2>5, AppendedInv, Zenon
<1> QED BY <1>2, <1>3, <1>4, Zenon DEF CheckSynced

LEMMA ElectionInv == ASSUME CInv, NEW n \in Nodes, Election(n) \/ LandTimeout(n) PROVE CInv'
<1>1. CASE StartFollower(n)
  <2>1. CASE Ends(n) /\ UNCHANGED countVars
    BY <2>1, EndsInv, Zenon DEF countVars
  <2>2. CASE role' = [role EXCEPT ![n] = "follower"]
             /\ UNCHANGED <<log, fsm, leader, believes, commit, applied, stores, pend, exec, made, countVars>>
    <3>1. "follower" \in Roles \ Producing
      BY Zenon DEF Roles, Following, Producing
    <3> QED BY <2>2, <3>1, RoleInv, Zenon DEF countVars, CInv, Membership
  <2> QED BY <1>1, <2>1, <2>2, Zenon DEF StartFollower
<1>2. CASE BecomeLeader(n)
  <2>1. /\ log' = log /\ fsm' = fsm /\ leader' = leader /\ believes' = believes /\ commit' = commit
        /\ applied' = applied /\ stores' = stores /\ pend' = pend /\ made' = made /\ refused' = refused
    BY <1>2, Zenon DEF BecomeLeader, countVars
  <2>2. \/ role' = [role EXCEPT ![n] = "landingNew"]
        \/ role' = [role EXCEPT ![n] = "landing"]
        \/ role' = role
    BY <1>2, Zenon DEF BecomeLeader
  <2>3. {"landingNew", "landing"} \subseteq Roles \ Producing
    BY Zenon DEF Roles, Following, Producing
  <2>4. CASE role' = role
    <3>1. Membership' /\ BlocksStay
      BY <2>1, <2>4, Zenon DEF CInv, Membership, BlocksStay
    <3> QED BY <2>4, <3>1, StayInv, Zenon
  <2> QED BY <2>1, <2>2, <2>3, <2>4, RoleInv, Zenon DEF CInv, Membership
<1>3. CASE LostLeadership(n)
  <2>1. CASE Ends(n)
    BY <1>3, <2>1, EndsInv, Zenon DEF LostLeadership, countVars
  <2>2. CASE UNCHANGED <<log, fsm, leader, believes, commit, applied, nodeVars>>
    <3>1. Membership' /\ BlocksStay /\ role' = role
      BY <1>3, <2>2, Zenon DEF LostLeadership, countVars, nodeVars, CInv, Membership, BlocksStay
    <3> QED BY <3>1, StayInv, Zenon
  <2> QED BY <1>3, <2>1, <2>2, Zenon DEF LostLeadership
<1>4. CASE Landed(n)
  <2>1. \/ role' = [role EXCEPT ![n] = "factory"]
        \/ role' = [role EXCEPT ![n] = "check"]
    BY <1>4, Zenon DEF Landed, CInv, Membership
  <2>2. {"factory", "check"} \subseteq Roles \ Producing
    BY Zenon DEF Roles, Following, Producing
  <2>3. /\ UNCHANGED raftVars /\ stores' = stores /\ pend' = pend /\ made' = made /\ refused' = refused
    BY <1>4, Zenon DEF Landed, countVars
  <2>4. /\ log' = log /\ fsm' = fsm /\ leader' \in Nodes \cup {None} /\ believes' \subseteq Nodes
        /\ commit' = commit /\ applied' = applied
    BY <2>3, RaftKept, Zenon
  <2> QED BY <2>1, <2>2, <2>3, <2>4, RoleInv, Zenon
<1>5. CASE LandTimeout(n)
  <2>1. role' = [role EXCEPT ![n] = Back(n)] /\ Back(n) \in Roles \ Producing
    BY <1>5, Zenon DEF LandTimeout, Back, Roles, Following, Producing
  <2>2. /\ Abdicate(n) \/ UNCHANGED raftVars
        /\ stores' = stores /\ pend' = pend /\ made' = made /\ refused' = refused
    BY <1>5, Zenon DEF LandTimeout
  <2>3. /\ log' = log /\ fsm' = fsm /\ leader' \in Nodes \cup {None} /\ believes' \subseteq Nodes
        /\ commit' = commit /\ applied' = applied
    BY <2>2, RaftKept, Zenon
  <2> QED BY <2>1, <2>2, <2>3, RoleInv, Zenon
<1>6. CASE CheckSynced(n)
  BY <1>6, CheckSyncedInv, Zenon
<1>7. CASE SyncWait(n)
  <2>1. \/ role' = [role EXCEPT ![n] = "follower"]
        \/ role' = [role EXCEPT ![n] = "check"]
    BY <1>7, Zenon DEF SyncWait
  <2>2. {"follower", "check"} \subseteq Roles \ Producing
    BY Zenon DEF Roles, Following, Producing
  <2>3. /\ Abdicate(n) \/ UNCHANGED raftVars
        /\ stores' = stores /\ pend' = pend /\ made' = made /\ refused' = refused
    BY <1>7, Zenon DEF SyncWait
  <2>4. /\ log' = log /\ fsm' = fsm /\ leader' \in Nodes \cup {None} /\ believes' \subseteq Nodes
        /\ commit' = commit /\ applied' = applied
    BY <2>3, RaftKept, Zenon
  <2> QED BY <2>1, <2>2, <2>3, <2>4, RoleInv, Zenon
<1>8. CASE StartLeader(n)
  <2>1. CASE Ends(n)
    BY <1>8, <2>1, EndsInv, Zenon DEF StartLeader, countVars
  <2>2. CASE role' = [role EXCEPT ![n] = "ready"] /\ UNCHANGED <<raftVars, stores, pend, made>>
    <3>1. "ready" \in Roles \ Producing
      BY Zenon DEF Roles, Leading, Producing
    <3>2. refused' = refused
      BY <1>8, Zenon DEF StartLeader, countVars
    <3>3. /\ log' = log /\ fsm' = fsm /\ leader' \in Nodes \cup {None} /\ believes' \subseteq Nodes
          /\ commit' = commit /\ applied' = applied
      BY <2>2, RaftKept, Zenon
    <3> QED BY <2>2, <3>1, <3>2, <3>3, RoleInv, Zenon
  <2> QED BY <1>8, <2>1, <2>2, Zenon DEF StartLeader
<1>9. CASE StartNode(n)
  <2>1. "new" \in Roles \ Producing
    BY Zenon DEF Roles, Producing
  <2>2. /\ UNCHANGED raftVars /\ stores' = stores /\ pend' = pend /\ made' = made /\ refused' = refused
        /\ role' = [role EXCEPT ![n] = "new"]
    BY <1>9, Zenon DEF StartNode, countVars
  <2>3. /\ log' = log /\ fsm' = fsm /\ leader' \in Nodes \cup {None} /\ believes' \subseteq Nodes
        /\ commit' = commit /\ applied' = applied
    BY <2>2, RaftKept, Zenon
  <2> QED BY <2>1, <2>2, <2>3, RoleInv, Zenon
<1> QED BY <1>1, <1>2, <1>3, <1>4, <1>5, <1>6, <1>7, <1>8, <1>9, Zenon DEF Election

-----------------------------------------------------------------------------
LEMMA TipType == ASSUME CInv, NEW n \in Nodes PROVE Tip(n) \in Block
<1>1. stores[n] \in Seq(Block)
  BY Zenon DEF CInv, Shape
<1>2. stores[n] # <<>> => Len(stores[n]) \in 1..Len(stores[n])
  BY <1>1
<1> QED BY <1>1, <1>2, NoBlockType DEF Tip

LEMMA CreateInv == ASSUME CInv, NEW n \in Nodes, CreateBlock(n) PROVE CInv'
<1> USE ClusterConstants DEF CInv
<1>1. /\ log' = log /\ fsm' = fsm /\ leader' = leader /\ believes' = believes /\ stores' = stores
      /\ refused' = refused /\ role' = [role EXCEPT ![n] = "apply"] /\ Len(stores[n]) < TopHeight
      /\ commit' = [commit EXCEPT ![n] = Len(log)] /\ applied' = [applied EXCEPT ![n] = Len(log)]
  BY Zenon DEF CreateBlock, countVars
<1>2. Len(log) \in Nat /\ Len(stores[n]) \in Nat
  BY DEF Shape
<1>3. pend' \in [Nodes -> Block] /\ made' \in Nat /\ pend'[n].h = Len(stores[n]) + 1
      /\ \A m \in Nodes : m # n => pend'[m] = pend[m]
  <2>1. CASE pend[n].h = Len(stores[n]) + 1 /\ UNCHANGED <<pend, made>>
    BY <2>1, Zenon DEF Shape
  <2>2. CASE \E t \in {Tip(n).t, Tip(n).t + 1} :
               /\ made' = made + 1
               /\ pend' = [pend EXCEPT ![n] = [h |-> Len(stores[n]) + 1, id |-> made + 1,
                                              prev |-> Tip(n).id, t |-> t]]
    <3>1. PICK t \in {Tip(n).t, Tip(n).t + 1} :
               pend' = [pend EXCEPT ![n] = [h |-> Len(stores[n]) + 1, id |-> made + 1,
                                            prev |-> Tip(n).id, t |-> t]]
      BY <2>2, Zenon
    <3>2. t \in Nat /\ Tip(n).id \in Nat /\ made + 1 \in Nat /\ Len(stores[n]) + 1 \in 0..TopHeight
      <4>1. Tip(n) \in Block
        BY TipType, Zenon
      <4>2. Tip(n).t \in Nat /\ Tip(n).id \in Nat
        BY <4>1, Zenon DEF Block
      <4>3. made + 1 \in Nat /\ Len(stores[n]) + 1 \in 0..TopHeight
        BY <1>1, <1>2 DEF Shape
      <4> QED BY <4>2, <4>3
    <3> DEFINE b == [h |-> Len(stores[n]) + 1, id |-> made + 1, prev |-> Tip(n).id, t |-> t]
    <3>3. b \in Block /\ b.h = Len(stores[n]) + 1
      BY <3>2, Zenon DEF Block
    <3> HIDE DEF b
    <3>4. pend' = [pend EXCEPT ![n] = b]
      BY <3>1, Zenon DEF b
    <3> QED BY <2>2, <3>2, <3>3, <3>4, Zenon DEF Shape
  <2> QED BY <2>1, <2>2, Zenon DEF CreateBlock
<1>4. Shape'
  BY <1>1, <1>3, Zenon DEF Shape
<1>5. Membership'
  BY <1>1, <1>2 DEF Membership, Roles, Leading
<1>6. Ascending' /\ FromLog' /\ StoresTaken'
  BY <1>1 DEF Ascending, FromLog, Taken, StoresTaken
<1>7. \A m \in Nodes : role'[m] = IF m = n THEN "apply" ELSE role[m]
  BY <1>1, Zenon DEF Membership
<1>8. PendingNext'
  BY <1>1, <1>3, <1>7 DEF PendingNext, Taken
<1> QED BY <1>4, <1>5, <1>6, <1>8, Zenon

LEMMA ApplyInv == ASSUME CInv, NEW n \in Nodes, ApplyBlock(n) PROVE CInv'
<1> USE DEF CInv
<1>1. BlocksStay /\ leader' = leader /\ believes' = believes
  BY Zenon DEF ApplyBlock, countVars, BlocksStay
<1>2. Len(log) \in Nat
  BY DEF Shape
<1>3. /\ role[n] = "apply"
      /\ \/ role' = [role EXCEPT ![n] = "propose"]
         \/ role' = [role EXCEPT ![n] = "ready"]
  BY Zenon DEF ApplyBlock
<1>4. \/ commit' = commit /\ applied' = applied
      \/ commit' = [commit EXCEPT ![n] = Len(log)] /\ applied' = [applied EXCEPT ![n] = Len(log)]
  BY Zenon DEF ApplyBlock
<1>5. Membership'
  <2>1. role' \in [Nodes -> Roles]
    BY <1>3, Zenon DEF Membership, Roles, Leading
  <2>2. /\ commit' \in [Nodes -> Nat] /\ applied' \in [Nodes -> Nat]
        /\ \A m \in Nodes : applied'[m] <= commit'[m] /\ commit'[m] <= Len(log)
    <3>1. CASE commit' = commit /\ applied' = applied
      BY <3>1, Zenon DEF Membership
    <3>2. CASE commit' = [commit EXCEPT ![n] = Len(log)] /\ applied' = [applied EXCEPT ![n] = Len(log)]
      BY <1>2, <3>2 DEF Membership
    <3> QED BY <1>4, <3>1, <3>2, Zenon
  <2> QED BY <1>1, <2>1, <2>2, Zenon DEF Membership, BlocksStay
<1>6. /\ \A m \in Nodes : role'[m] \in Producing => role[m] \in Producing
      /\ \A m \in Nodes : role'[m] = "commit" => role[m] = "commit"
  BY <1>3, Zenon DEF Membership, Producing
<1> QED BY <1>1, <1>5, <1>6, StayInv, Zenon

(* An entry is committed: the state machine keeps what it took.            *)
LEMMA CommittedKeeps ==
  ASSUME CInv, NEW b \in Block, Committed(b)
  PROVE  /\ log' \in Seq(Block) /\ fsm' \in Seq(Block) /\ Len(log') = Len(log) + 1 /\ Len(fsm') = Len(log')
         /\ Ascending' /\ FromLog' /\ \A c : Taken(c) => TakenNext(c)
         /\ (assertValid(FsmAt(Len(log)), b) \/ FsmAt(Len(log)) = b) => TakenNext(b)
<1> USE DEF CInv
<1> DEFINE k == Len(log)
<1> DEFINE s == FsmAt(k)
<1> DEFINE x == IF assertValid(s, b) THEN b ELSE s
<1>1. k \in Nat /\ Len(fsm) = k
  BY DEF Shape
<1>2. /\ s \in Block /\ (k = 0 => s = NoBlock) /\ (k # 0 => s = fsm[k] /\ k \in 1..k)
  BY <1>1, NoBlockType DEF Shape, FsmAt
<1>3. x \in Block /\ s.h \in Nat /\ x.h \in Nat /\ b.h \in Nat /\ (x = s \/ (x = b /\ s.h < b.h))
  BY <1>2, ClusterConstants DEF Block, assertValid
<1>4. log' = Append(log, b) /\ fsm' = Append(fsm, x)
  BY Zenon DEF Committed
<1> HIDE DEF s, x
<1>5. /\ log' \in Seq(Block) /\ Len(log') = k + 1 /\ log'[k + 1] = b
      /\ \A i \in 1..k : log'[i] = log[i]
  BY <1>1, <1>4 DEF Shape
<1>6. /\ fsm' \in Seq(Block) /\ Len(fsm') = k + 1 /\ fsm'[k + 1] = x
      /\ \A i \in 1..k : fsm'[i] = fsm[i]
  BY <1>1, <1>3, <1>4 DEF Shape
<1>7. \A i \in 1..(k + 1) : i = k + 1 \/ i \in 1..k
  BY <1>1
<1>8. \A c : Taken(c) => TakenNext(c)
  <2> SUFFICES ASSUME NEW c, Taken(c) PROVE TakenNext(c)
    BY Zenon
  <2>1. PICK i \in 1..k : log[i] = c /\ fsm[i] = c
    BY Zenon DEF Taken
  <2>2. i \in 1..(k + 1)
    BY <1>1
  <2> QED BY <1>5, <1>6, <2>1, <2>2, Zenon DEF TakenNext
<1>9. x = b => TakenNext(b)
  <2>1. k + 1 \in 1..(k + 1)
    BY <1>1
  <2> QED BY <1>5, <1>6, <2>1, Zenon DEF TakenNext
<1>10. (assertValid(s, b) \/ s = b) => x = b
  BY Zenon DEF x
<1>11. Ascending'
  <2> SUFFICES ASSUME NEW i \in 1..(k + 1), NEW j \in 1..(k + 1), i < j
               PROVE  fsm'[i].h < fsm'[j].h \/ fsm'[i] = fsm'[j]
    BY <1>6, Zenon DEF Ascending
  <2>1. i \in 1..k /\ k # 0
    BY <1>1
  <2>2. fsm'[i] = fsm[i] /\ fsm[i].h \in Nat
    <3>1. fsm[i] \in Block
      BY <1>1, <2>1 DEF Shape
    <3>2. fsm[i].h \in Nat
      BY <3>1, ClusterConstants DEF Block
    <3> QED BY <1>6, <2>1, <3>2, Zenon
  <2>3. CASE j \in 1..k
    BY <1>1, <1>6, <2>1, <2>3, Zenon DEF Ascending
  <2>4. CASE j = k + 1
    <3>1. fsm[i].h < s.h \/ fsm[i] = s
      BY <1>1, <1>2, <2>1 DEF Ascending
    <3> QED BY <1>3, <1>6, <2>2, <2>4, <3>1
  <2> QED BY <1>7, <2>3, <2>4, Zenon
<1>12. FromLog'
  <2> SUFFICES ASSUME NEW i \in 1..(k + 1) PROVE fsm'[i] = NoBlock \/ TakenNext(fsm'[i])
    BY <1>6, Zenon DEF FromLog, Taken, TakenNext
  <2>1. CASE i \in 1..k
    BY <1>1, <1>6, <1>8, <2>1, Zenon DEF FromLog
  <2>2. CASE i = k + 1 /\ x = b
    BY <1>6, <1>9, <2>2, Zenon
  <2>3. CASE i = k + 1 /\ x = s
    BY <1>1, <1>2, <1>6, <1>8, <2>3, Zenon DEF FromLog
  <2> QED BY <1>3, <1>7, <2>1, <2>2, <2>3, Zenon
<1> QED BY <1>5, <1>6, <1>8, <1>9, <1>10, <1>11, <1>12, Zenon DEF s

LEMMA BroadcastInv == ASSUME CInv, NEW n \in Nodes, Broadcast(n) PROVE CInv'
<1> USE DEF CInv
<1>1. /\ leader' = leader /\ believes' = believes /\ stores' = stores /\ pend' = pend /\ made' = made
      /\ role[n] = "propose"
  BY Zenon DEF Broadcast
<1>2. pend[n] \in Block /\ Len(log) \in Nat
  BY DEF Shape
<1>3. CASE role' = [role EXCEPT ![n] = "ready"] /\ UNCHANGED <<log, fsm, commit, applied, refused>>
  <2>1. "ready" \in Roles \ Producing
    BY Zenon DEF Roles, Leading, Producing
  <2> QED BY <1>1, <1>3, <2>1, RoleInv, Zenon DEF Membership
<1>4. ASSUME Committed(pend[n]), NEW r \in {"commit", "ready"}, role' = [role EXCEPT ![n] = r],
             refused' \in BOOLEAN, refused => refused', r = "commit" => refused' \/ TakenNext(pend[n]),
             \/ commit' = commit /\ applied' = applied
             \/ commit' = [commit EXCEPT ![n] = Len(log) + 1] /\ applied' = [applied EXCEPT ![n] = Len(log) + 1]
      PROVE  CInv'
  <2>1. /\ log' \in Seq(Block) /\ fsm' \in Seq(Block) /\ Len(log') = Len(log) + 1 /\ Len(fsm') = Len(log')
        /\ Ascending' /\ FromLog' /\ \A c : Taken(c) => TakenNext(c)
    BY <1>2, <1>4, CommittedKeeps, Zenon
  <2>2. Shape'
    BY <1>1, <1>4, <2>1, Zenon DEF Shape
  <2>3. Membership'
    <3>1. role' \in [Nodes -> Roles]
      BY <1>4, Zenon DEF Membership, Roles, Leading
    <3>2. /\ commit' \in [Nodes -> Nat] /\ applied' \in [Nodes -> Nat]
          /\ \A m \in Nodes : applied'[m] <= commit'[m] /\ commit'[m] <= Len(log) + 1
      <4>1. CASE commit' = commit /\ applied' = applied
        BY <1>2, <4>1 DEF Membership
      <4>2. CASE /\ commit' = [commit EXCEPT ![n] = Len(log) + 1]
                 /\ applied' = [applied EXCEPT ![n] = Len(log) + 1]
        BY <1>2, <4>2 DEF Membership
      <4> QED BY <1>4, <4>1, <4>2, Zenon
    <3> QED BY <1>1, <2>1, <3>1, <3>2, Zenon DEF Membership
  <2>4. StoresTaken'
    <3>1. \A m \in Nodes : \A h \in 1..Len(stores[m]) :
            stores[m][h].h = h /\ (refused \/ TakenNext(stores[m][h]))
      BY <2>1, Zenon DEF StoresTaken
    <3>2. \A m \in Nodes : \A h \in 1..Len(stores'[m]) :
            stores'[m][h].h = h /\ (refused' \/ TakenNext(stores'[m][h]))
      BY <1>1, <1>4, <3>1, Zenon
    <3> QED BY <3>2, Zenon DEF StoresTaken, Taken, TakenNext
  <2>5. \A m \in Nodes : role'[m] = IF m = n THEN r ELSE role[m]
    BY <1>4, Zenon DEF Membership
  <2>6. PendingNext'
    <3> SUFFICES ASSUME NEW m \in Nodes
                 PROVE  /\ role'[m] \in Producing => pend'[m].h = Len(stores'[m]) + 1
                        /\ role'[m] = "commit" => refused' \/ TakenNext(pend[m])
      BY <1>1, Zenon DEF PendingNext, Taken, TakenNext
    <3>1. CASE m = n
      <4>1. pend[n].h = Len(stores[n]) + 1
        BY <1>1, Zenon DEF PendingNext, Producing
      <4> QED BY <1>1, <1>4, <2>5, <3>1, <4>1, Zenon
    <3>2. CASE m # n
      BY <1>1, <1>4, <2>1, <2>5, <3>2, Zenon DEF PendingNext
    <3> QED BY <3>1, <3>2, Zenon
  <2> QED BY <2>1, <2>2, <2>3, <2>4, <2>6, Zenon
<1>5. CASE /\ Committed(pend[n]) /\ role' = [role EXCEPT ![n] = "commit"]
           /\ refused' = (refused \/ ~(assertValid(FsmAt(Len(log)), pend[n]) \/ FsmAt(Len(log)) = pend[n]))
           /\ commit' = [commit EXCEPT ![n] = Len(log) + 1] /\ applied' = [applied EXCEPT ![n] = Len(log) + 1]
  <2>1. (assertValid(FsmAt(Len(log)), pend[n]) \/ FsmAt(Len(log)) = pend[n]) => TakenNext(pend[n])
    BY <1>2, <1>5, CommittedKeeps, Zenon
  <2>2. refused' \in BOOLEAN /\ (refused => refused') /\ (refused' \/ TakenNext(pend[n]))
    BY <1>5, <2>1, Zenon DEF Shape
  <2> QED BY <1>4, <1>5, <2>2, Zenon
<1>6. CASE /\ Committed(pend[n]) /\ role' = [role EXCEPT ![n] = "ready"]
           /\ UNCHANGED <<commit, applied, refused>>
  <2>1. refused' \in BOOLEAN /\ (refused => refused')
    BY <1>6, Zenon DEF Shape
  <2> QED BY <1>4, <1>6, <2>1, Zenon
<1> QED BY <1>3, <1>5, <1>6, Zenon DEF Broadcast

LEMMA CommitInv == ASSUME CInv, NEW n \in Nodes, CommitShared(n) PROVE CInv'
<1>1. role[n] = "commit" /\ pend[n] \in Block
  BY Zenon DEF CommitShared, CInv, Shape
<1>2. pend[n].h = Len(stores[n]) + 1 /\ (refused \/ Taken(pend[n]))
  BY <1>1, Zenon DEF CInv, PendingNext, Producing
<1>3. "ready" \in Roles \ Producing
  BY Zenon DEF Roles, Leading, Producing
<1>4. /\ role' = [role EXCEPT ![n] = "ready"] /\ stores' = [stores EXCEPT ![n] = Append(@, pend[n])]
      /\ pend' = [pend EXCEPT ![n] = NoBlock] /\ UNCHANGED raftVars /\ made' = made /\ refused' = refused
  BY Zenon DEF CommitShared, countVars
<1> QED BY <1>1, <1>2, <1>3, <1>4, AppendedInv, Zenon

LEMMA NextInv == CInv /\ [CNext]_cVars => CInv'
<1> SUFFICES ASSUME CInv, [CNext]_cVars PROVE CInv'
  BY Zenon
<1>1. CASE UNCHANGED cVars
  <2>1. BlocksStay /\ role' = role /\ Membership'
    BY <1>1, Zenon DEF cVars, raftVars, nodeVars, countVars, BlocksStay, CInv, Membership
  <2> QED BY <2>1, StayInv, Zenon
<1>2. ASSUME NEW n \in Nodes, GoesDown(n) PROVE CInv'
  BY <1>2, EndsInv, Zenon DEF GoesDown
<1>3. CASE CNext
  BY <1>2, <1>3, RaftInv, SyncsInv, ElectionInv, CreateInv, ApplyInv, BroadcastInv, CommitInv, Zenon
     DEF CNext, Raft, Production
<1> QED BY <1>1, <1>3, Zenon

LEMMA CInvHolds == CSpec => []CInv
BY InitInv, NextInv, PTL DEF CSpec

(* The cluster's types: no node knows more committed, or applies more,     *)
(* than is in raft's log, and a leader produces the height after its store *)
(* (pkg/raft/node.go, executor.go ProduceBlock).                           *)
THEOREM ClusterTypes == CSpec => []CTypeOK
<1>1. CInv => CTypeOK
  <2> SUFFICES ASSUME CInv PROVE CTypeOK
    BY Zenon
  <2>1. \A n \in Nodes : Len(stores[n]) <= TopHeight
    <3> SUFFICES ASSUME NEW n \in Nodes, Len(stores[n]) # 0 PROVE Len(stores[n]) <= TopHeight
      BY ClusterConstants
    <3>1. Len(stores[n]) \in Nat /\ Len(stores[n]) \in 1..Len(stores[n])
      BY DEF CInv, Shape
    <3>2. stores[n][Len(stores[n])] \in Block /\ stores[n][Len(stores[n])].h = Len(stores[n])
      BY <3>1 DEF CInv, Shape, StoresTaken
    <3> QED BY <3>1, <3>2, ClusterConstants DEF Block
  <2> QED BY <2>1, Zenon DEF CInv, CTypeOK, Membership, Roles, PendingNext, Producing
<1> QED BY <1>1, CInvHolds, PTL

(* Without a refusal every stored block is one that raft's state machine   *)
(* took: nothing is committed before it is replicated (executor.go         *)
(* ProduceBlock, the raft broadcast before the batch).                     *)
THEOREM ReplicatedBeforeCommitted == CSpec => []RaftHoldsCommitted
<1>1. CInv => RaftHoldsCommitted
  <2> SUFFICES ASSUME CInv, ~refused, NEW n \in Nodes, NEW h \in 1..Len(stores[n])
               PROVE  \E i \in 1..Len(log) : log[i] = stores[n][h] /\ Accepted(i)
    BY Zenon DEF RaftHoldsCommitted
  <2>1. PICK i \in 1..Len(log) : log[i] = stores[n][h] /\ fsm[i] = stores[n][h]
    BY Zenon DEF CInv, StoresTaken, Taken
  <2>2. FsmAt(i) = fsm[i]
    BY DEF FsmAt, CInv, Shape
  <2> QED BY <2>1, <2>2, Zenon DEF Accepted
<1> QED BY <1>1, CInvHolds, PTL

(* Two nodes hold different blocks of a height only after the state        *)
(* machine refused a block that its leader committed all the same          *)
(* (pkg/raft/node.go Broadcast, FSM.Apply, types.go assertValid).          *)
THEOREM ForksNeedRefusals == CSpec => []ForkNeedsRefusal
<1>1. CInv => ForkNeedsRefusal
  <2> SUFFICES ASSUME CInv, ~refused, NEW m \in Nodes, NEW n \in Nodes,
                      NEW h \in 1..Len(stores[m]), h <= Len(stores[n])
               PROVE  stores[m][h] = stores[n][h]
    BY Zenon DEF ForkNeedsRefusal, ChainsAgree
  <2>1. h \in 1..Len(stores[n])
    BY DEF CInv, Shape
  <2>2. /\ Taken(stores[m][h]) /\ stores[m][h].h = h
        /\ Taken(stores[n][h]) /\ stores[n][h].h = h
    BY <2>1, Zenon DEF CInv, StoresTaken
  <2> QED BY <2>2, TakenOnce, Zenon
<1> QED BY <1>1, CInvHolds, PTL
=============================================================================
