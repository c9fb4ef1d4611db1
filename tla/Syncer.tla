------------------------------- MODULE Syncer -------------------------------
(***************************************************************************)
(* A sync node (block/internal/syncing): blocks reach it from the DA layer *)
(* (da_follower.go, da_retriever.go), from the P2P stores (p2p_handler.go) *)
(* and from raft (raft_retriever.go); a bounded channel feeds the one loop *)
(* that validates, executes and commits them (syncer.go), blocks that come *)
(* too early wait in the cache, and the inclusion loop finalizes what was  *)
(* found on DA (DAInclusion).                                              *)
(*                                                                         *)
(* Headers and data are named by ids; HeaderOf and DataOf give the records *)
(* of Blocks.  A DA height holds a sequence of blobs [k, id, env]: k is    *)
(* "header", "data" or "junk" and env says whether a header came in a      *)
(* signed envelope.  A scenario says what DA, P2P and raft bring in a      *)
(* behaviour (da, p2p, raft, and hint for the P2P hints), how much of DA   *)
(* is there from the start (there), how many restarts and failing calls    *)
(* the behaviour may have, and whether every block is posted just once by  *)
(* its proposer (live).                                                    *)
(***************************************************************************)
EXTENDS Blocks, DAInclusion, SequencesExt

CONSTANTS
  HeaderOf, DataOf,      \* id -> header, id -> data
  RootOf,                \* id -> state root after executing the block
  Named,                 \* id -> proposer the execution layer names, or NoOne
  Genesis,               \* the proposer of the genesis document
  DAStart,               \* DAStartHeight
  Scenarios,             \* see above
  ChCap,                 \* capacity of heightInCh
  MaxPriority            \* maxPriorityHeights

VARIABLES
  sc,                    \* the number of the scenario
  daTop, p2pTop, raftTop,\* how much of it has appeared
  chain, state,          \* persisted: blocks [h, d, last], types.State
  hashErrs,              \* links let through by this process
  inCh, pend,            \* heightInCh; pending events by height
  pendH, pendD, strict,  \* the retriever's half blocks, its strict mode
  daPos, daFrom, piping, \* follower: next DA height, its first, events to pipe
  prio, prioDone,        \* priority DA heights; one was fetched this round
  p2p, processed,        \* P2P worker [pc, target], handler's height
  pw,                    \* pending worker [next, held]
  up, critical,          \* "down", "up" or "stopping"; hasCriticalError
  restarts, faults,      \* counts against the bounds
  broken,                \* history: heights committed over a wrong link
  unmarked,              \* history: heights whose inclusion mark was discarded
  forgot                 \* history: heights whose event a failed read dropped

envVars == <<sc, daTop, p2pTop, raftTop>>
diskVars == <<chain, state>>
retrVars == <<pendH, pendD, strict>>
followVars == <<daPos, daFrom, piping, prio, prioDone>>
p2pVars == <<p2p, processed>>
lifeVars == <<up, critical, restarts, faults>>
histVars == <<broken, unmarked, forgot>>
syncVars == <<envVars, diskVars, hashErrs, inCh, pend, retrVars, followVars, p2pVars,
              pw, lifeVars, histVars, inclVars>>

Ids == DOMAIN HeaderOf
None == [h |-> 0, d |-> 0, da |-> 0, src |-> "none", hints |-> <<0, 0>>]
Heights == 1..MaxHeight
HeightOf(id) == HeaderOf[id].height
Hash(id) == HeaderOf[id].id
Horizon == 1000        \* no honest clock reaches it
Now == Scenarios[sc]
DAHeights == 1..Len(Now.da)

\* Data made up by createEmptyDataForHeader, named by the header it is for.
EmptyData(h) == -h
DataRec(d) ==
  IF d \in Ids THEN DataOf[d]
  ELSE LET h == HeaderOf[-d]
       IN [height |-> h.height, chain |-> h.chain, time |-> h.time, txs |-> Empty,
           last |-> NoHash, meta |-> TRUE]
isEmptyDataExpected(h) == HeaderOf[h].data = Empty
Commitment(d) == <<"data", DACommitment(DataRec(d))>>

EmptyAt(n) == n <= Len(chain) /\ isEmptyDataExpected(chain[n].h)

expectedProposerForHeight(n) == IF n = state.height + 1 THEN state.next ELSE NoOne

GenesisState == [height |-> 0, time |-> 0, last |-> NoHash, app |-> NoHash,
                 da |-> DAStart, next |-> Genesis]
------------------------------------------------------------------------------
\* initializeState chooses where the follower starts: one DA height before the
\* last block's, or as far as the caches got when P2P is ahead of the chain.
FirstDAHeight(cached) ==
  LET fromState == IF state.da > DAStart THEN state.da - 1 ELSE DAStart
  IN IF p2pTop > state.height /\ cached > fromState THEN cached ELSE fromState

\* The memory of a process that is down.
Reset ==
  /\ hashErrs' = 0 /\ inCh' = <<>> /\ pend' = [n \in Heights |-> None]
  /\ pendH' = [n \in Heights |-> 0] /\ pendD' = [n \in Heights |-> 0] /\ strict' = FALSE
  /\ daPos' = DAStart /\ daFrom' = DAStart /\ piping' = {} /\ prio' = {} /\ prioDone' = FALSE
  /\ p2p' = [pc |-> "idle", target |-> 0] /\ processed' = 0
  /\ pw' = [next |-> 0, held |-> None]
  /\ critical' = FALSE
  /\ hc' = NewCache /\ dc' = NewCache /\ incl' = 0 /\ ipc' = "idle"

SyncInit ==
  /\ sc \in DOMAIN Scenarios
  /\ daTop = Now.there /\ p2pTop = 0 /\ raftTop = 0
  /\ chain = <<>> /\ state = GenesisState
  /\ hashErrs = 0 /\ inCh = <<>> /\ pend = [n \in Heights |-> None]
  /\ pendH = [n \in Heights |-> 0] /\ pendD = [n \in Heights |-> 0] /\ strict = FALSE
  /\ daPos = DAStart /\ daFrom = DAStart /\ piping = {} /\ prio = {} /\ prioDone = FALSE
  /\ p2p = [pc |-> "idle", target |-> 0] /\ processed = 0
  /\ pw = [next |-> 0, held |-> None]
  /\ up = "up" /\ critical = FALSE /\ restarts = 0 /\ faults = 0
  /\ broken = {} /\ unmarked = {} /\ forgot = {}
  /\ InclusionInit

\* Start after a stop or a crash: newManager, initializeState, new workers.
SyncStart ==
  /\ up = "down"
  /\ up' = "up"
  /\ InclRestart(RestoredCaches, snap)
  /\ LET first == FirstDAHeight(IF RestoredCaches[1].maxDAHeight > RestoredCaches[2].maxDAHeight
                                THEN RestoredCaches[1].maxDAHeight
                                ELSE RestoredCaches[2].maxDAHeight)
     IN daPos' = first /\ daFrom' = first
  /\ processed' = Len(chain)
  /\ UNCHANGED <<envVars, diskVars, hashErrs, inCh, pend, retrVars, piping, prio, prioDone,
                 p2p, pw, critical, restarts, faults, histVars>>

Marked(n) == getDAIncludedByHeight(hc, n) # 0 \/ getDAIncludedByHeight(dc, n) # 0

\* The process dies: disk stays, memory goes and the inclusion marks with it.
SyncCrash ==
  /\ up = "up" /\ restarts < Now.restarts
  /\ up' = "down" /\ restarts' = restarts + 1
  /\ Reset
  /\ unmarked' = unmarked \cup {n \in Heights : n > incl /\ Marked(n)}
  /\ UNCHANGED <<envVars, diskVars, faults, broken, forgot, inclDiskVars>>

\* Stop cancels the workers; what they still held goes to the pending cache and
\* with it is lost.  The channel is drained by the actions of the process loop.
SyncStop ==
  /\ up = "up" /\ restarts < Now.restarts
  /\ up' = "stopping" /\ restarts' = restarts + 1
  /\ piping' = {} /\ p2p' = [pc |-> "idle", target |-> 0]
  /\ pw' = [next |-> 0, held |-> None]
  /\ UNCHANGED <<envVars, diskVars, hashErrs, inCh, pend, retrVars, daPos, daFrom, prio,
                 prioDone, processed, critical, faults, histVars, inclVars>>

\* After the drain, which a critical error skips and a deadline cuts short, the
\* caches are saved.
SyncStopped ==
  /\ up = "stopping"
  /\ up' = "down"
  /\ SaveToStore
  /\ Reset
  /\ UNCHANGED <<envVars, diskVars, restarts, faults, histVars, inclDisk, toDA, genesisDA,
                 final>>

------------------------------------------------------------------------------
\* The retriever.  r is [pendH, pendD, strict, hc, dc, un]; un collects the
\* heights whose inclusion mark is discarded.

\* tryDecodeHeader: strict mode asks for a valid envelope and is entered with
\* the first one; a header for the next height must be the expected proposer's.
HeaderAccepted(r, b) ==
  /\ b.k = "header" /\ b.env # "bad"
  /\ r.strict => b.env = "valid"
  /\ HeaderValidateBasic(HeaderOf[b.id], Horizon)
  /\ expectedProposerForHeight(HeightOf(b.id)) \in {NoOne, HeaderOf[b.id].proposer}

shouldReplacePendingHeader(existing, candidate) ==
  LET expected == expectedProposerForHeight(HeightOf(candidate))
  IN /\ expected # NoOne
     /\ HeaderOf[existing].proposer # expected
     /\ HeaderOf[candidate].proposer = expected

\* Every accepted header is marked included; a second header for a height that
\* is still waiting loses its mark, or costs the first one its place.
DecodeHeader(r, b, daHeight) ==
  LET n == HeightOf(b.id)
      marked == [r EXCEPT !.strict = @ \/ b.env = "valid",
                          !.hc = setDAIncluded(@, Hash(b.id), daHeight, n)]
  IN CASE r.pendH[n] = 0 -> [marked EXCEPT !.pendH[n] = b.id]
       [] r.pendH[n] # 0 /\ shouldReplacePendingHeader(r.pendH[n], b.id) ->
            [marked EXCEPT !.pendH[n] = b.id,
                           !.hc = removeDAIncluded(@, Hash(r.pendH[n]))]
       [] OTHER -> [marked EXCEPT !.hc = removeDAIncluded(@, Hash(b.id)), !.un = @ \cup {n}]

\* tryDecodeData: signed data is marked included under its commitment; the
\* first data of a height keeps its place.
DecodeData(r, b, daHeight) ==
  LET n == DataOf[b.id].height
  IN [r EXCEPT !.dc = setDAIncluded(@, Commitment(b.id), daHeight, n),
               !.pendD[n] = IF @ = 0 THEN b.id ELSE @]

DecodeBlob(r, b, daHeight) ==
  CASE HeaderAccepted(r, b) -> DecodeHeader(r, b, daHeight)
    [] b.k = "data" -> DecodeData(r, b, daHeight)
    [] OTHER -> r

\* processBlobs, the pairs it completes, and its effect on the retriever.
ProcessBlobs(daHeight) ==
  LET step(r, b) == DecodeBlob(r, b, daHeight)
  IN FoldLeft(step, [pendH |-> pendH, pendD |-> pendD, strict |-> strict,
                     hc |-> hc, dc |-> dc, un |-> {}], Now.da[daHeight])

Paired(r) == {n \in Heights : r.pendH[n] # 0 /\ (r.pendD[n] # 0 \/ isEmptyDataExpected(r.pendH[n]))}

DAEvents(r, daHeight) ==
  {[h |-> r.pendH[n], d |-> IF r.pendD[n] # 0 THEN r.pendD[n] ELSE EmptyData(r.pendH[n]),
    da |-> daHeight, src |-> "da", hints |-> <<0, 0>>] : n \in Paired(r)}

Retrieved(r) ==
  /\ pendH' = [n \in Heights |-> IF n \in Paired(r) THEN 0 ELSE r.pendH[n]]
  /\ pendD' = r.pendD /\ strict' = r.strict
  /\ hc' = r.hc /\ dc' = r.dc
  /\ unmarked' = unmarked \cup r.un
  /\ UNCHANGED <<snap, incl, inclDisk, toDA, genesisDA, ipc, final>>

removePendingData(e) ==
  pendD' = IF e.src = "da" THEN [pendD EXCEPT ![HeightOf(e.h)] = 0] ELSE pendD
------------------------------------------------------------------------------
\* The channel and the pending cache.  A full channel sends the event to the
\* cache, where the last event of a height wins.
Deliver(e) ==
  IF Len(inCh) < ChCap THEN inCh' = Append(inCh, e) /\ UNCHANGED pend
  ELSE pend' = [pend EXCEPT ![HeightOf(e.h)] = e] /\ UNCHANGED inCh

PipeEvent(e) ==
  IF isSeen(hc, Hash(e.h)) THEN UNCHANGED <<inCh, pend>> ELSE Deliver(e)

\* HandleEvent: a subscription event for the follower's height is handled
\* inline; without a complete block the height is left to the catch-up.
FollowInline ==
  /\ up = "up" /\ piping = {} /\ daPos = daTop /\ daPos \in DAHeights
  /\ Now.da[daPos] # <<>>
  /\ \E r \in {ProcessBlobs(daPos)} :
        /\ Retrieved(r)
        /\ piping' = DAEvents(r, daPos)
        /\ daPos' = IF DAEvents(r, daPos) = {} THEN daPos ELSE daPos + 1
  /\ UNCHANGED <<envVars, diskVars, hashErrs, inCh, pend, daFrom, prio, prioDone, p2pVars,
                 pw, lifeVars, broken, forgot>>

\* popPriorityHeight at the head of HandleCatchup: stale and future heights are
\* passed over, one is fetched per round.
FollowPriority ==
  /\ up = "up" /\ piping = {} /\ daPos <= daTop /\ ~prioDone /\ prio # {}
  /\ LET p == CHOOSE x \in prio : \A y \in prio : x <= y
     IN /\ prio' = prio \ {p}
        /\ IF p < daPos \/ p > daTop
             THEN UNCHANGED <<prioDone, piping, retrVars, unmarked, inclVars>>
             ELSE \E r \in {ProcessBlobs(p)} :
                    Retrieved(r) /\ piping' = DAEvents(r, p) /\ prioDone' = TRUE
  /\ UNCHANGED <<envVars, diskVars, hashErrs, inCh, pend, daPos, daFrom, p2pVars, pw,
                 lifeVars, broken, forgot>>

\* The sequential fetch of HandleCatchup; a failing fetch changes nothing.
FollowFetch ==
  /\ up = "up" /\ piping = {} /\ daPos <= daTop /\ (prio = {} \/ prioDone)
  /\ \E r \in {ProcessBlobs(daPos)} : Retrieved(r) /\ piping' = DAEvents(r, daPos)
  /\ daPos' = daPos + 1 /\ prioDone' = FALSE
  /\ UNCHANGED <<envVars, diskVars, hashErrs, inCh, pend, daFrom, prio, p2pVars, pw,
                 lifeVars, broken, forgot>>

\* Completed blocks are piped in the order of a Go map: any.
FollowPipe ==
  /\ up = "up"
  /\ \E e \in piping : PipeEvent(e) /\ piping' = piping \ {e}
  /\ UNCHANGED <<envVars, diskVars, hashErrs, retrVars, daPos, daFrom, prio, prioDone,
                 p2pVars, pw, lifeVars, histVars, inclVars>>

\* QueuePriorityHeight: bounded, lower heights preferred.
QueuePriority(q, hint) ==
  LET last == CHOOSE x \in q : \A y \in q : y <= x
  IN IF hint \in q THEN q
     ELSE IF Cardinality(q) < MaxPriority THEN q \cup {hint}
     ELSE IF hint >= last THEN q ELSE (q \ {last}) \cup {hint}

\* The hints of a P2P event worth fetching: not marked yet, not behind.
HintsToFetch(e) ==
  LET n == HeightOf(e.h)
      want == {i \in 1..2 : /\ e.hints[i] # 0
                            /\ getDAIncludedByHeight(IF i = 1 THEN hc ELSE dc, n) = 0}
  IN IF e.src = "p2p" THEN {e.hints[i] : i \in want} \cap {x \in DAHeights : x >= daFrom}
     ELSE {}

------------------------------------------------------------------------------
\* The process loop.

\* ValidateBlock: header checks against the state, then the pair.
Verdict(e) ==
  LET h == HeaderOf[e.h]
      fault == SequenceFault(state, h, hashErrs)
  IN IF ~SignedValidateBasic(h, "sync", Horizon) \/ ~AssertExpectedProposer(state, h)
       THEN "header"
     ELSE IF fault \in {"chain", "height", "time"} THEN "header"
     ELSE IF fault # "ok" THEN "state"
     ELSE IF ~PairValid(h, DataRec(e.d)) THEN "data" ELSE "ok"

\* The links the check counts, whatever its verdict.
Counted(e) ==
  LET h == HeaderOf[e.h]
  IN IF SignedValidateBasic(h, "sync", Horizon) /\ AssertExpectedProposer(state, h)
       THEN HashErrsAfter(state, h, hashErrs) ELSE hashErrs

\* The previous data's hash, filled in for an empty block that came from DA.
LastDataHash(e) ==
  IF e.src = "da" /\ isEmptyDataExpected(e.h) /\ chain # <<>>
    THEN DataHash(DataRec(chain[Len(chain)].d))
    ELSE DataRec(e.d).last

cancelP2PWait(n) ==
  p2p' = IF p2p.pc = "get" /\ p2p.target <= n THEN [p2p EXCEPT !.pc = "cancelled"] ELSE p2p

\* The event the loop would take now; a stopping node drains its channel.
Ready == IF inCh # <<>> /\ (up = "up" \/ (up = "stopping" /\ ~critical))
           THEN {Head(inCh)} ELSE {}
IsNextEvent(e) == HeightOf(e.h) = Len(chain) + 1 /\ ~isSeen(hc, Hash(e.h))

\* Already processed: only the retriever's copy of the data is dropped.
TakeSkip ==
  /\ \E e \in Ready :
        /\ HeightOf(e.h) <= Len(chain) \/ isSeen(hc, Hash(e.h))
        /\ removePendingData(e)
  /\ inCh' = Tail(inCh)
  /\ UNCHANGED <<envVars, diskVars, hashErrs, pend, pendH, strict, followVars, p2pVars, pw,
                 lifeVars, histVars, inclVars>>

\* mutant: a block that is not the next one is thrown away.
TakeDefer_Drops ==
  /\ \E e \in Ready : HeightOf(e.h) > Len(chain) + 1 /\ ~isSeen(hc, Hash(e.h))
  /\ inCh' = Tail(inCh)
  /\ UNCHANGED <<envVars, diskVars, hashErrs, pend, retrVars, followVars, p2pVars, pw,
                 lifeVars, histVars, inclVars>>

\* Not the next block: it waits in the pending cache.
TakeDefer ==
  /\ \E e \in Ready :
        /\ HeightOf(e.h) > Len(chain) + 1 /\ ~isSeen(hc, Hash(e.h))
        /\ pend' = [pend EXCEPT ![HeightOf(e.h)] = e]
  /\ inCh' = Tail(inCh)
  /\ UNCHANGED <<envVars, diskVars, hashErrs, retrVars, followVars, p2pVars, pw, lifeVars,
                 histVars, inclVars>>

\* A failed read of the height or of the last data returns before anything is
\* rescheduled: the event is gone.
TakeReadFails ==
  /\ faults < Now.faults
  /\ \E e \in Ready : forgot' = forgot \cup {HeightOf(e.h)}
  /\ inCh' = Tail(inCh) /\ faults' = faults + 1
  /\ UNCHANGED <<envVars, diskVars, hashErrs, pend, retrVars, followVars, p2pVars, pw, up,
                 critical, restarts, broken, unmarked, inclVars>>

\* What every attempt at the next block does first.
Attempt(e) ==
  /\ IsNextEvent(e)
  /\ inCh' = Tail(inCh)
  /\ prio' = FoldSet(LAMBDA hint, q : QueuePriority(q, hint), prio, HintsToFetch(e))
  /\ cancelP2PWait(HeightOf(e.h))
  /\ hashErrs' = Counted(e)
  /\ UNCHANGED <<envVars, daPos, daFrom, piping, prioDone, pw, up, restarts>>

\* An invalid block is dropped and the guilty side loses its mark; one that
\* contradicts the local state stops the node.
TakeInvalid ==
  /\ \E e \in Ready : \E verdict \in {Verdict(e)} \ {"ok"} :
        /\ Attempt(e)
        /\ hc' = IF verdict = "header" THEN removeDAIncluded(hc, Hash(e.h)) ELSE hc
        /\ dc' = IF verdict = "data" THEN removeDAIncluded(dc, Commitment(e.d)) ELSE dc
        /\ critical' = (critical \/ verdict = "state")
        /\ unmarked' = IF verdict = "state" THEN unmarked ELSE unmarked \cup {HeightOf(e.h)}
  /\ UNCHANGED <<diskVars, pend, retrVars, processed, faults, broken, forgot,
                 snap, incl, inclDisk, toDA, genesisDA, ipc, final>>

\* A DA block that proves the sequencer left out forced transactions (see
\* InclusionCheck) stops the node and loses its marks.
TakeAccuse ==
  /\ faults < Now.faults
  /\ \E e \in Ready :
        /\ Attempt(e)
        /\ e.src = "da" /\ Verdict(e) = "ok"
        /\ hc' = removeDAIncluded(hc, Hash(e.h))
        /\ dc' = removeDAIncluded(dc, Commitment(e.d))
        /\ unmarked' = unmarked \cup {HeightOf(e.h)}
  /\ critical' = TRUE /\ faults' = faults + 1
  /\ UNCHANGED <<diskVars, pend, retrVars, processed, broken, forgot,
                 snap, incl, inclDisk, toDA, genesisDA, ipc, final>>

\* Execution retried to its limit stops the node; the event is not kept.
TakeExecFails ==
  /\ faults < Now.faults
  /\ \E e \in Ready : Attempt(e) /\ Verdict(e) = "ok"
  /\ critical' = TRUE /\ faults' = faults + 1
  /\ UNCHANGED <<diskVars, pend, retrVars, processed, histVars, inclVars>>

\* A failed batch reschedules the event, unless the node is stopping anyway.
TakeSaveFails ==
  /\ faults < Now.faults
  /\ \E e \in Ready :
        /\ Attempt(e) /\ Verdict(e) = "ok"
        /\ pend' = IF critical THEN pend ELSE [pend EXCEPT ![HeightOf(e.h)] = e]
  /\ faults' = faults + 1
  /\ UNCHANGED <<diskVars, retrVars, processed, critical, histVars, inclVars>>

\* The block is executed and block, height and state are saved in one batch;
\* then memory follows.
TakeCommit ==
  /\ \E e \in Ready :
      LET h == HeaderOf[e.h]
          next == NextState(state, h, RootOf[e.h], Named[e.h])
      IN
        /\ Attempt(e) /\ Verdict(e) = "ok"
        /\ chain' = Append(chain, [h |-> e.h, d |-> e.d, last |-> LastDataHash(e)])
        /\ state' = [next EXCEPT !.da = IF e.da > @ THEN e.da ELSE @]
        /\ hc' = setSeen(hc, Hash(e.h), h.height)
        /\ dc' = IF h.data = Empty THEN dc
                 ELSE setSeen(dc, Commitment(e.d), h.height)
        /\ processed' = IF h.height > processed THEN h.height ELSE processed
        /\ removePendingData(e)
        /\ broken' = IF state.last \notin {NoHash, h.last} THEN broken \cup {h.height} ELSE broken
        /\ unmarked' = IF \/ getDAIncludedByHeight(hc, h.height) > getDAIncludedByHeight(hc', h.height)
                          \/ getDAIncludedByHeight(dc, h.height) > getDAIncludedByHeight(dc', h.height)
                         THEN unmarked \cup {h.height} ELSE unmarked
  /\ UNCHANGED <<pend, pendH, strict, critical, faults, forgot,
                 snap, incl, inclDisk, toDA, genesisDA, ipc, final>>

------------------------------------------------------------------------------
\* The pending worker takes the next block's event out of the cache, offers it
\* to the channel without its hints and goes on with the following height; a
\* full channel sends it back.
PendTake ==
  /\ up = "up" /\ pw.held = None
  /\ LET n == IF pw.next = 0 THEN Len(chain) + 1 ELSE pw.next
     IN IF n \in Heights /\ pend[n] # None
          THEN /\ pw' = [next |-> n, held |-> pend[n]]
               /\ pend' = [pend EXCEPT ![n] = None]
          ELSE /\ pw.next # 0
               /\ pw' = [next |-> 0, held |-> None]
               /\ UNCHANGED pend
  /\ UNCHANGED <<envVars, diskVars, hashErrs, inCh, retrVars, followVars, p2pVars, lifeVars,
                 histVars, inclVars>>

PendSend ==
  /\ up = "up" /\ pw.held # None
  /\ IF Len(inCh) < ChCap
       THEN /\ inCh' = Append(inCh, [pw.held EXCEPT !.hints = <<0, 0>>])
            /\ pw' = [next |-> pw.next + 1, held |-> None]
            /\ UNCHANGED pend
       ELSE /\ pend' = [pend EXCEPT ![pw.next] = pw.held]
            /\ pw' = [next |-> 0, held |-> None]
            /\ UNCHANGED inCh
  /\ UNCHANGED <<envVars, diskVars, hashErrs, retrVars, followVars, p2pVars, lifeVars,
                 histVars, inclVars>>
------------------------------------------------------------------------------
\* The P2P worker waits for the block after the store's height, hands it over
\* and waits until that height is committed, by whatever source.
P2PTarget ==
  /\ up = "up" /\ p2p.pc = "idle" /\ Len(chain) < MaxHeight
  /\ p2p' = [pc |-> "get", target |-> Len(chain) + 1]
  /\ UNCHANGED <<envVars, diskVars, hashErrs, inCh, pend, retrVars, followVars, processed,
                 pw, lifeVars, histVars, inclVars>>

\* ProcessHeight: a height once handed over is not read again.
P2PGet ==
  /\ up = "up" /\ p2p.pc = "get"
  /\ \/ /\ p2p.target <= processed
        /\ UNCHANGED <<inCh, pend, processed>>
     \/ /\ p2p.target > processed /\ p2p.target <= p2pTop
        /\ LET id == Now.p2p[p2p.target]
           IN /\ HeaderOf[id].data = DACommitment(DataOf[id])
              /\ \E hints \in {<<0, 0>>, Now.hint[p2p.target]} :
                   Deliver([h |-> id, d |-> id, da |-> 0, src |-> "p2p", hints |-> hints])
        /\ processed' = p2p.target
  /\ p2p' = [p2p EXCEPT !.pc = "wait"]
  /\ UNCHANGED <<envVars, diskVars, hashErrs, retrVars, followVars, pw, lifeVars, histVars,
                 inclVars>>

\* A cancelled wait ends the attempt, a committed height ends the wait.
P2PDone ==
  /\ up = "up"
  /\ \/ p2p.pc = "cancelled"
     \/ p2p.pc = "wait" /\ Len(chain) >= p2p.target
  /\ p2p' = [pc |-> "idle", target |-> 0]
  /\ UNCHANGED <<envVars, diskVars, hashErrs, inCh, pend, retrVars, followVars, processed,
                 pw, lifeVars, histVars, inclVars>>

\* consumeRaftBlock: blocks replicated by raft, in the order of its log.
RaftBlock ==
  /\ up = "up" /\ raftTop < Len(Now.raft)
  /\ raftTop' = raftTop + 1
  /\ LET id == Now.raft[raftTop + 1]
     IN IF HeaderValidateBasic(HeaderOf[id], Horizon)
          THEN PipeEvent([h |-> id, d |-> id, da |-> 0, src |-> "raft", hints |-> <<0, 0>>])
          ELSE UNCHANGED <<inCh, pend>>
  /\ UNCHANGED <<sc, daTop, p2pTop, diskVars, hashErrs, retrVars, followVars, p2pVars, pw,
                 lifeVars, histVars, inclVars>>

\* The environment: DA produces its next block, P2P fetches its next height.
DAGrow ==
  /\ daTop < Len(Now.da) /\ daTop' = daTop + 1
  /\ UNCHANGED <<sc, p2pTop, raftTop, diskVars, hashErrs, inCh, pend, retrVars, followVars,
                 p2pVars, pw, lifeVars, histVars, inclVars>>
P2PGrow ==
  /\ p2pTop < Len(Now.p2p) /\ p2pTop' = p2pTop + 1
  /\ UNCHANGED <<sc, daTop, raftTop, diskVars, hashErrs, inCh, pend, retrVars, followVars,
                 p2pVars, pw, lifeVars, histVars, inclVars>>
------------------------------------------------------------------------------
\* The inclusion loop of the node; finalizing may fail within the budget.
Inclusion ==
  /\ up = "up"
  /\ \/ InclCheck(Len(chain), EmptyAt(incl + 1)) /\ UNCHANGED <<faults, pend>>
     \/ InclMap(EmptyAt(incl + 1)) /\ UNCHANGED <<faults, pend>>
     \/ InclFinal(TRUE) /\ UNCHANGED <<faults, pend>>
     \/ InclFinal(FALSE) /\ faults < Now.faults /\ faults' = faults + 1 /\ UNCHANGED pend
     \/ InclPersist /\ pend' = [pend EXCEPT ![incl + 1] = None] /\ UNCHANGED faults
  /\ UNCHANGED <<envVars, diskVars, hashErrs, inCh, retrVars, followVars, p2pVars, pw, up,
                 critical, restarts, histVars>>

Follow == FollowPriority \/ FollowFetch \/ FollowPipe
Process == TakeSkip \/ TakeDefer \/ TakeInvalid \/ TakeCommit
Pending == PendTake \/ PendSend
P2PWork == P2PTarget \/ P2PGet \/ P2PDone
RestartSyncer == SyncStart \/ SyncStopped

SyncNext ==
  \/ RestartSyncer \/ SyncCrash \/ SyncStop
  \/ FollowInline \/ Follow
  \/ Process \/ TakeReadFails \/ TakeAccuse \/ TakeExecFails \/ TakeSaveFails
  \/ Pending \/ P2PWork \/ RaftBlock
  \/ DAGrow \/ P2PGrow \/ Inclusion

\* DA is assumed to grow, and the goroutines of the node (follower, process
\* loop, pending worker, P2P worker, inclusion loop) to be scheduled; nothing is
\* assumed of what P2P and raft bring or of the subscription.
SyncSpec ==
  /\ SyncInit /\ [][SyncNext]_syncVars
  /\ WF_syncVars(RestartSyncer) /\ WF_syncVars(DAGrow)
  /\ WF_syncVars(Follow) /\ WF_syncVars(Process) /\ WF_syncVars(Pending)
  /\ WF_syncVars(P2PWork) /\ WF_syncVars(Inclusion)
------------------------------------------------------------------------------
\* The log of a sync node and its final prefix, as ChainReplica states them.
Block ==
  {[h |-> i, d |-> d, last |-> l] :
     i \in Ids, d \in Ids \cup {EmptyData(j) : j \in Ids},
     l \in {NoHash} \cup {DataHash(DataRec(j)) : j \in Ids}
                    \cup {DataHash(DataRec(EmptyData(j))) : j \in Ids}}

RECURSIVE ProposerAfter(_)
ProposerAfter(log) ==
  IF log = <<>> THEN Genesis
  ELSE IF Named[Last(log).h] # NoOne THEN Named[Last(log).h] ELSE ProposerAfter(Front(log))

\* A block of the right height by the proposer the chain names, built on the
\* state the chain left, no earlier than its parent, with its own data.
Admissible(log, b) ==
  /\ HeightOf(b.h) = Len(log) + 1
  /\ HeaderOf[b.h].proposer = ProposerAfter(log)
  /\ SignedValidateBasic(HeaderOf[b.h], "sync", Horizon)
  /\ PairValid(HeaderOf[b.h], DataRec(b.d))
  /\ log # <<>> => /\ HeaderOf[b.h].app = RootOf[Last(log).h]
                   /\ HeaderOf[b.h].time >= HeaderOf[Last(log).h].time

Replica == INSTANCE ChainReplica WITH log <- chain, finalized <- final

\* The committed log only grows by admissible blocks and only a prefix of it is
\* ever finalized, over every source, restart and failure.
SyncsAsReplica == Replica!Spec

\* Every variable keeps its type; the channel and the priority queue their bounds.
SyncTypeOK ==
  /\ Len(inCh) <= ChCap /\ Cardinality(prio) <= MaxPriority
  /\ Len(chain) = state.height /\ state.height <= MaxHeight
  /\ up \in {"down", "up", "stopping"}
  /\ p2p.pc \in {"idle", "get", "cancelled", "wait"}
  /\ hashErrs \in {0, 1} /\ final <= inclDisk + 1

\* A process lets at most one wrong link to the previous header through, the
\* allowance for a node that was a based sequencer (state.go).
BrokenLinksBounded == Cardinality(broken) <= restarts + 1

\* The data of every block names the data of the block before it, also where
\* the node had to fill that in for an empty block read from DA.
DataLinked ==
  \A n \in 2..Len(chain) : n \notin broken =>
    chain[n].last = DataHash(DataRec(chain[n - 1].d))

\* What this process has fetched in full and not committed is still on its way:
\* piped, queued, waiting in the cache or in the hands of the pending worker.
Fetched(n) ==
  LET read == daFrom..(daPos - 1)
      at(k) == {i \in read \cap DAHeights : \E b \in Range(Now.da[i]) :
                  b.k = k /\ HeightOf(b.id) = n}
  IN at("header") # {} /\ (at("data") # {} \/ isEmptyDataExpected(n))
OnItsWay(n) ==
  \/ pend[n] # None
  \/ pw.held # None /\ pw.next = n
  \/ \E e \in piping \cup Range(inCh) : HeightOf(e.h) = n
NothingLost ==
  (up = "up" /\ ~critical /\ Now.live) =>
    \A n \in Heights \ forgot : Fetched(n) /\ n > Len(chain) => OnItsWay(n)

\* A block is finalized only with a header and data of its height really posted
\* at the DA heights recorded for it.
PostedAt(k, n, i) == i \in DAHeights /\ \E b \in Range(Now.da[i]) : b.k = k /\ HeightOf(b.id) = n
InclusionTruthful ==
  \A n \in 1..final : /\ PostedAt("header", n, toDA[n][1])
                      /\ EmptyAt(n) \/ PostedAt("data", n, toDA[n][2])

\* A node that reads the whole chain from DA commits all of it, with P2P and
\* raft helping or not.
BlocksOnDA == {HeightOf(b.id) : b \in UNION {Range(Now.da[i]) : i \in DAHeights}}
EventuallySynced ==
  <>[](Now.live => Len(chain) = Cardinality(BlocksOnDA) \/ critical \/ forgot # {})

\* Every committed block on DA is finalized in the end, unless its mark was
\* discarded on the way.
EventuallyFinal ==
  <>[](Now.live => final = Cardinality(BlocksOnDA) \/ critical \/ forgot # {} \/ unmarked # {})

=============================================================================
