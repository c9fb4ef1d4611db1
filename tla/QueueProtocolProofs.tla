------------------------ MODULE QueueProtocolProofs ------------------------
(***************************************************************************)
(* Proofs about the queue and the block producer together, for any set of  *)
(* transactions and any bounds: nothing accepted is lost, nothing on chain *)
(* is offered again, and the whole implements the abstract mempool.        *)
(***************************************************************************)
EXTENDS QueueProtocol, BatchQueueProofs

-----------------------------------------------------------------------------
(* The producer and the queue agree on where the current block stands.     *)
InStep ==
    /\ mode # "up" => /\ phase = "idle" /\ verdict = NoVerdict
                      /\ catchUp = "unchecked" /\ ~hasPendingBlock
    /\ phase # "committed" => postponedItem = NoItem
    /\ phase \in {"idle", "drained"} => verdict = NoVerdict
    /\ phase = "committed" => lastBlock = verdict.ok /\ \A b \in pending : ~b.next
    /\ verdict.ok \subseteq (FlightTxs \ inFlightPostponed) \cup recovered
    /\ owed \cap committed = {}

(* With a known DA start height no batch is left in flight by a block of   *)
(* the catch-up: an acknowledgement concerns what its own block drained,   *)
(* and the verdict on the block covers all of it.                          *)
FlightJudged ==
    /\ inFlight # <<>> => catchUp = "done"
    /\ phase = "idle" => inFlight = <<>>
    /\ phase \in {"decided", "saved", "committed"} =>
         FlightTxs \ inFlightPostponed \subseteq verdict.ok \cup verdict.remove

(* What is owed is in memory, or still to be read by the restart.          *)
OwedHeld ==
    /\ mode = "down" => owed \subseteq Stored
    /\ mode = "loading" => owed \subseteq txSeen \cup UnreadTxs \cup LegacyTxs
    /\ mode \in {"migrating", "reconciling", "up"} => owed \subseteq txSeen \cup LegacyTxs

(* What is on chain and held again is from the last block, which an        *)
(* acknowledgement or the reconciliation is about to remove, or came there *)
(* with a recovered block.                                                 *)
ChainApart ==
    /\ mode # "up" => Stored \cap committed \subseteq recovered \cup lastBlock
    /\ mode = "reconciling" =>
         \A it \in Elems(queue) : it.key \in todo \/ it.txs \cap lastBlock = {}
    /\ mode = "up" =>
         txSeen \cap committed \subseteq
           recovered \cup (IF phase = "committed" THEN lastBlock ELSE {})

(* A block on its way to be committed holds only what is stored.           *)
BlockStored ==
    /\ \A b \in pending : b.next => b.txs \subseteq Stored \cup committed
    /\ phase \in {"decided", "saved"} => verdict.ok \subseteq Stored \cup committed

ProtoInv == TypeOK /\ IndInv /\ InStep
LossInv == ProtoInv /\ FlightJudged /\ OwedHeld
ExactInv == ProtoInv /\ WalExact /\ ChainApart
RefineInv == LossInv /\ ExactInv /\ BlockStored

-----------------------------------------------------------------------------
(* What is in flight is known to the dedup set.                            *)
LEMMA FlightSeen ==
    ASSUME IndInv
    PROVE  FlightTxs \subseteq txSeen /\ txSeen \subseteq Tx /\ FlightTxs \subseteq Tx
<1>1. FlightTxs \subseteq txSeen
  BY HeldParts, Zenon DEF IndInv, SeenIsHeld, FlightTxs, TxsOf
<1>2. txSeen \subseteq Tx
  BY Zenon DEF IndInv, QueueTypeOK
<1> QED BY <1>1, <1>2, Zenon

(* While nothing is in flight there is nothing to postpone.                *)
LEMMA NothingInFlight ==
    ASSUME IndInv, inFlight = <<>>
    PROVE  FlightTxs = {} /\ inFlightPostponed = {} /\ postponedItem = NoItem
<1>1. FlightTxs = {}
  BY ElemsEmpty, Zenon DEF FlightTxs, TxsOf
<1>2. inFlightPostponed = {}
  BY <1>1, Zenon DEF IndInv, PostponedInFlight
<1>3. postponedItem # NoItem => postponedItem.txs = {} /\ postponedItem \in Item
  BY <1>2, Zenon DEF IndInv, PostponedInFlight, QueueTypeOK
<1> QED BY <1>1, <1>2, <1>3, Zenon DEF Item, Batch

(* Every step of the whole is a step of the queue or leaves it alone.      *)
LEMMA QueueStep ==
    ASSUME TypeOK, [Next]_vars
    PROVE  [QueueNext]_queueVars
<1>1. CASE SubmitBatchTxs
  BY <1>1, Zenon DEF SubmitBatchTxs, QueueNext
<1>2. CASE DrainBatch
  BY <1>2, Zenon DEF DrainBatch, QueueNext
<1>3. CASE FilterBatch
  BY <1>3, Zenon DEF FilterBatch, QueueNext
<1>4. CASE SkipMempool
  <2>1. SetPostponed({}) /\ {} \in SUBSET FlightTxs
    BY <1>4, Zenon DEF SkipMempool
  <2> QED BY <2>1, Zenon DEF QueueNext
<1>5. CASE SavePending \/ UsePending \/ CommitBlock
  BY <1>5, Zenon DEF SavePending, UsePending, CommitBlock
<1>6. CASE AckBatch \/ AckBatchFails
  BY <1>6, Zenon DEF AckBatch, AckBatchFails, QueueNext
<1>7. CASE CrashNode \/ StopNode
  BY <1>7, Zenon DEF CrashNode, StopNode, QueueNext
<1>8. CASE RestartSequencer
  <2>1. lastBlock \in SUBSET Tx
    BY Zenon DEF TypeOK
  <2> QED BY <1>8, <2>1, Zenon DEF RestartSequencer, QueueNext
<1>9. CASE UNCHANGED vars
  BY <1>9, Zenon DEF vars
<1> QED BY <1>1, <1>2, <1>3, <1>4, <1>5, <1>6, <1>7, <1>8, <1>9, Zenon DEF Next

(* So the queue's own invariants hold in the composition.                  *)
LEMMA QueueKeeps ==
    ASSUME TypeOK, IndInv, [Next]_vars
    PROVE  IndInv' /\ QueueTypeOK' /\ (~WritesMayFail /\ WalExact => WalExact')
<1>1. [QueueNext]_queueVars
  BY QueueStep, Zenon
<1>2. IndInv'
  BY <1>1, NextInv, Zenon
<1> QED BY <1>1, <1>2, NextExact, Zenon DEF IndInv

-----------------------------------------------------------------------------
(* What the steps of a restart read and keep, failing clean-ups included.  *)
LEMMA EnqueueReads ==
    ASSUME NEW batch, NEW key, NEW store, key \in DOMAIN store, batch # {},
           DedupAndEnqueue(batch, key, store)
    PROVE  /\ txSeen' = txSeen \cup batch
           /\ \A j \in DOMAIN store : j # key => j \in DOMAIN wal' /\ wal'[j] = store[j]
<1> DEFINE filtered == batch \ txSeen
<1>1. /\ txSeen' = txSeen \cup filtered
      /\ wal' \in CASE filtered = {}    -> BestEffort(store, Without(store, key))
                    [] filtered = batch -> {store}
                    [] OTHER            -> BestEffort(store, With(store, key, filtered))
  BY Zenon DEF DedupAndEnqueue
<1>2. txSeen' = txSeen \cup batch
  BY <1>1, Zenon
<1> HIDE DEF filtered
<1>3. wal' \in {store, Without(store, key), With(store, key, filtered)}
  BY <1>1, Zenon DEF BestEffort
<1> QED BY <1>2, <1>3, Zenon DEF Without, With

LEMMA LoadEntryReads ==
    ASSUME IndInv, LoadEntry
    PROVE  /\ mode = "loading" /\ mode' = mode /\ LegacyTxs' = LegacyTxs
           /\ txSeen \cup UnreadTxs = txSeen' \cup UnreadTxs'
           /\ inFlight' = inFlight /\ UNCHANGED postponeVars
<1>1. PICK k \in todo :
        /\ mode = "loading" /\ DedupAndEnqueue(wal[k], k, wal) /\ todo' = todo \ {k}
        /\ inFlight' = inFlight /\ legacy' = legacy /\ mode' = mode
        /\ UNCHANGED postponeVars
  BY Zenon DEF LoadEntry
<1>2. k \in DOMAIN wal /\ wal[k] # {} /\ todo \subseteq DOMAIN wal
  BY <1>1, Zenon DEF IndInv, RestartOK, QueueTypeOK, Batch
<1>3. /\ txSeen' = txSeen \cup wal[k]
      /\ \A j \in DOMAIN wal : j # k => j \in DOMAIN wal' /\ wal'[j] = wal[j]
  BY <1>1, <1>2, EnqueueReads
<1>4. UnreadTxs = wal[k] \cup UnreadTxs'
  BY <1>1, <1>2, <1>3, Zenon DEF UnreadTxs
<1> QED BY <1>1, <1>3, <1>4, Zenon DEF LegacyTxs

LEMMA MigrateEntryReads ==
    ASSUME IndInv, MigrateEntry
    PROVE  /\ mode = "migrating" /\ mode' = mode
           /\ txSeen \cup LegacyTxs = txSeen' \cup LegacyTxs'
           /\ inFlight' = inFlight /\ UNCHANGED postponeVars
<1>1. PICK k \in todo :
        /\ mode = "migrating" /\ legacy' \in BestEffort(legacy, Without(legacy, k))
        /\ DedupAndEnqueue(legacy[k], nextAddSeq, With(wal, nextAddSeq, legacy[k]))
        /\ inFlight' = inFlight /\ mode' = mode /\ UNCHANGED postponeVars
  BY Zenon DEF MigrateEntry
<1>2. k \in DOMAIN legacy /\ legacy[k] # {}
  BY <1>1, Zenon DEF IndInv, RestartOK, QueueTypeOK, Batch
<1>3. nextAddSeq \in DOMAIN With(wal, nextAddSeq, legacy[k])
  BY Zenon DEF With
<1>4. txSeen' = txSeen \cup legacy[k]
  BY <1>1, <1>2, <1>3, EnqueueReads, Zenon
<1>5. LegacyTxs = legacy[k] \cup LegacyTxs'
  BY <1>1, <1>2 DEF LegacyTxs, BestEffort, Without
<1> QED BY <1>1, <1>4, <1>5, Zenon

(* A crash inside a migration: the entry is under one key, or under both.  *)
LEMMA MigrateCrashKeeps ==
    ASSUME IndInv, MigrateCrash
    PROVE  Stored' = Stored /\ mode = "migrating" /\ mode' = "down" /\ LoseMemory
<1>1. PICK k \in todo :
        /\ mode = "migrating" /\ nextAddSeq < MaxKey
        /\ wal' = With(wal, nextAddSeq, legacy[k])
        /\ legacy' \in {legacy, Without(legacy, k)}
        /\ LoseMemory
  BY Zenon DEF MigrateCrash
<1> DEFINE store == With(wal, nextAddSeq, legacy[k])
<1>2. /\ DOMAIN store = DOMAIN wal \cup {nextAddSeq}
      /\ store[nextAddSeq] = legacy[k]
      /\ \A j \in DOMAIN wal : j < nextAddSeq /\ store[j] = wal[j]
  BY <1>1, MigratedStore, Zenon
<1>3. wal' = store
  BY <1>1, Zenon
<1> HIDE DEF store
<1>4. WalTxs' = WalTxs \cup legacy[k]
  BY <1>2, <1>3 DEF WalTxs
<1>5. k \in DOMAIN legacy
  BY <1>1, Zenon DEF IndInv, RestartOK
<1>6. LegacyTxs \cup legacy[k] = LegacyTxs' \cup legacy[k] /\ legacy[k] \subseteq LegacyTxs
  BY <1>1, <1>5 DEF LegacyTxs, Without
<1>7. Stored = WalTxs \cup LegacyTxs /\ Stored' = WalTxs' \cup LegacyTxs'
  BY Zenon DEF Stored, WalTxs, LegacyTxs
<1> QED BY <1>1, <1>4, <1>6, <1>7, Zenon DEF LoseMemory

(* The restart: memory fills up again and nothing is in flight.            *)
LEMMA RestartQuiet ==
    ASSUME IndInv, IndInv', Restart \/ (\E included : DropIncluded(included))
    PROVE  /\ mode # "up" /\ mode' # "up"
           /\ inFlight' = <<>> /\ postponedItem' = NoItem
           /\ FlightTxs' = {} /\ inFlightPostponed' = {}
<1>1. mode # "up" /\ mode' # "up"
  BY Zenon DEF Restart, Load, LoadEntry, LoadDone, MigrateEntry, MigrateSkip, MigrateCrash,
         MigrateDone, LoseMemory, DropIncluded
<1>2. inFlight' = <<>>
  BY <1>1, Zenon DEF IndInv, RestartOK
<1>3. FlightTxs' = {}
  BY <1>2, ElemsEmpty, Zenon DEF FlightTxs, TxsOf
<1>4. inFlightPostponed' = {}
  BY <1>3, Zenon DEF IndInv, PostponedInFlight
<1>5. postponedItem' # NoItem => postponedItem'.txs = {} /\ postponedItem' \in Item
  BY <1>4, Zenon DEF IndInv, PostponedInFlight, QueueTypeOK
<1> QED BY <1>1, <1>2, <1>3, <1>4, <1>5, Zenon DEF Item, Batch

-----------------------------------------------------------------------------
(* Types, and the agreement of producer and queue, one action at a time.   *)
LEMMA SubmitInv ==
    ASSUME ProtoInv, IndInv', SubmitBatchTxs
    PROVE  ProtoInv'
<1>1. PICK batch \in Batch : batch \cap committed = {} /\ AddBatch(batch) /\ owed' = owed \cup batch
  BY Zenon DEF SubmitBatchTxs
<1>2. /\ mode = "up" /\ mode' = mode /\ inFlight' = inFlight
      /\ inFlightPostponed' = inFlightPostponed /\ postponedItem' = postponedItem
  BY <1>1, Zenon DEF AddBatch, restartVars, postponeVars
<1>3. /\ phase' = phase /\ verdict' = verdict /\ catchUp' = catchUp /\ pending' = pending
      /\ hasPendingBlock' = hasPendingBlock /\ lastBlock' = lastBlock
      /\ committed' = committed /\ recovered' = recovered
  BY Zenon DEF SubmitBatchTxs, blockVars
<1>4. FlightTxs' = FlightTxs
  BY <1>2, Zenon DEF FlightTxs
<1>5. batch \subseteq Tx
  BY Zenon DEF Batch
<1>6. TypeOK'
  BY <1>1, <1>3, <1>5, Zenon DEF ProtoInv, TypeOK, IndInv
<1>7. InStep'
  BY <1>1, <1>2, <1>3, <1>4, Zenon DEF ProtoInv, InStep
<1> QED BY <1>6, <1>7, Zenon DEF ProtoInv

LEMMA DrainBatchInv ==
    ASSUME ProtoInv, IndInv', DrainBatch
    PROVE  ProtoInv' /\ postponedItem' = NoItem /\ inFlightPostponed' = {}
<1>1. /\ MayBuild /\ Drain /\ phase' = "drained" /\ verdict' = NoVerdict
      /\ catchUp' \in CatchUpStates
      /\ pending' = pending /\ hasPendingBlock' = hasPendingBlock /\ lastBlock' = lastBlock
      /\ committed' = committed /\ recovered' = recovered /\ owed' = owed
  BY Zenon DEF DrainBatch, blockVars, chainVars
<1>2. mode = "up" /\ mode' = mode /\ RollbackPostponed
  BY <1>1, Zenon DEF Drain, restartVars
<1>3. postponedItem = NoItem
  BY <1>1, Zenon DEF ProtoInv, InStep, MayBuild
<1>4. inFlight = <<>> => inFlightPostponed = {}
  BY NothingInFlight, Zenon DEF ProtoInv
<1>5. postponedItem' = NoItem /\ inFlightPostponed' = {}
  BY <1>2, <1>3, <1>4, Zenon DEF RollbackPostponed, postponeVars
<1>6. catchUp' \in {"unchecked", "inProgress", "done"}
  BY <1>1, Zenon DEF CatchUpStates, ProtoInv, TypeOK
<1>7. verdict' \in [ok : SUBSET Tx, remove : SUBSET Tx] /\ verdict'.ok = {}
  BY <1>1, Zenon DEF NoVerdict
<1>8. TypeOK'
  BY <1>1, <1>6, <1>7, Zenon DEF ProtoInv, TypeOK, IndInv, Phases
<1>9. InStep'
  BY <1>1, <1>2, <1>5, <1>7, Zenon DEF ProtoInv, InStep
<1> QED BY <1>5, <1>8, <1>9, Zenon DEF ProtoInv

LEMMA FilterBatchInv ==
    ASSUME ProtoInv, IndInv', FilterBatch
    PROVE  /\ ProtoInv'
           /\ FlightTxs' = FlightTxs
           /\ FlightTxs \ inFlightPostponed' = verdict'.ok \cup verdict'.remove
<1>1. PICK postpone \in SUBSET FlightTxs :
        /\ SetPostponed(postpone)
        /\ \E ok \in SUBSET (FlightTxs \ postpone) :
              verdict' = [ok |-> ok, remove |-> (FlightTxs \ postpone) \ ok]
  BY Zenon DEF FilterBatch
<1>2. /\ phase = "drained" /\ phase' = "decided" /\ catchUp' = catchUp
      /\ pending' = pending /\ hasPendingBlock' = hasPendingBlock /\ lastBlock' = lastBlock
      /\ committed' = committed /\ recovered' = recovered /\ owed' = owed
  BY Zenon DEF FilterBatch, blockVars, chainVars
<1>3. postponedItem = NoItem
  BY <1>2, Zenon DEF ProtoInv, InStep
<1>4. /\ mode = "up" /\ mode' = mode /\ inFlight' = inFlight
      /\ postponedItem' = NoItem /\ inFlightPostponed' = postpone
  BY <1>1, <1>3, Zenon DEF SetPostponed, restartVars
<1>5. FlightTxs' = FlightTxs
  BY <1>4, Zenon DEF FlightTxs
<1>6. /\ verdict'.ok \subseteq FlightTxs \ postpone
      /\ verdict'.ok \cup verdict'.remove = FlightTxs \ postpone
  BY <1>1
<1>7. verdict' \in [ok : SUBSET Tx, remove : SUBSET Tx]
  BY <1>1, FlightSeen DEF ProtoInv
<1>8. TypeOK'
  BY <1>2, <1>7, Zenon DEF ProtoInv, TypeOK, IndInv, Phases
<1>9. InStep'
  BY <1>2, <1>4, <1>5, <1>6, Zenon DEF ProtoInv, InStep
<1> QED BY <1>4, <1>5, <1>6, <1>8, <1>9, Zenon DEF ProtoInv

LEMMA SkipMempoolInv ==
    ASSUME ProtoInv, IndInv', SkipMempool
    PROVE  ProtoInv'
<1>1. /\ MayBuild /\ SetPostponed({}) /\ phase' \in {"idle", "decided"}
      /\ verdict' = NoVerdict /\ catchUp' = "inProgress"
      /\ pending' = pending /\ hasPendingBlock' = hasPendingBlock /\ lastBlock' = lastBlock
      /\ committed' = committed /\ recovered' = recovered /\ owed' = owed
  BY Zenon DEF SkipMempool, blockVars, chainVars
<1>2. postponedItem = NoItem
  BY <1>1, Zenon DEF ProtoInv, InStep, MayBuild
<1>3. mode = "up" /\ mode' = mode /\ postponedItem' = NoItem
  BY <1>1, <1>2, Zenon DEF SetPostponed, restartVars
<1>4. verdict' \in [ok : SUBSET Tx, remove : SUBSET Tx] /\ verdict'.ok = {}
  BY <1>1, Zenon DEF NoVerdict
<1>5. TypeOK'
  BY <1>1, <1>4, Zenon DEF ProtoInv, TypeOK, IndInv, Phases
<1>6. InStep'
  BY <1>1, <1>3, <1>4, Zenon DEF ProtoInv, InStep
<1> QED BY <1>5, <1>6, Zenon DEF ProtoInv

(* The queue and what is in flight when no action of the queue is taken.   *)
LEMMA QueueAside ==
    ASSUME UNCHANGED queueVars
    PROVE  /\ wal' = wal /\ legacy' = legacy /\ queue' = queue /\ inFlight' = inFlight
           /\ inFlightPostponed' = inFlightPostponed /\ postponedItem' = postponedItem
           /\ txSeen' = txSeen /\ mode' = mode /\ todo' = todo
           /\ FlightTxs' = FlightTxs /\ Stored' = Stored
           /\ LegacyTxs' = LegacyTxs /\ UnreadTxs' = UnreadTxs
<1>1. /\ wal' = wal /\ legacy' = legacy /\ queue' = queue /\ inFlight' = inFlight
      /\ inFlightPostponed' = inFlightPostponed /\ postponedItem' = postponedItem
      /\ txSeen' = txSeen /\ mode' = mode /\ todo' = todo
  BY Zenon DEF queueVars, durableVars, memoryVars, postponeVars, restartVars
<1> QED BY <1>1 DEF FlightTxs, Stored, LegacyTxs, UnreadTxs

LEMMA SavePendingInv ==
    ASSUME ProtoInv, IndInv', SavePending
    PROVE  ProtoInv'
<1>1. /\ UNCHANGED queueVars /\ mode = "up" /\ phase' = "saved" /\ phase = "decided"
      /\ verdict' = verdict
      /\ pending' = {[txs |-> verdict.ok, next |-> TRUE]}
      /\ catchUp' = catchUp /\ hasPendingBlock' = hasPendingBlock /\ lastBlock' = lastBlock
      /\ committed' = committed /\ recovered' = recovered /\ owed' = owed
  BY Zenon DEF SavePending, chainVars
<1>2. /\ mode' = mode /\ postponedItem' = postponedItem /\ FlightTxs' = FlightTxs
      /\ inFlightPostponed' = inFlightPostponed
  BY <1>1, QueueAside, Zenon
<1>3. [txs |-> verdict.ok, next |-> TRUE] \in PendingBlock
  BY Zenon DEF ProtoInv, TypeOK, PendingBlock
<1>4. pending' \in {{}} \cup {{b} : b \in PendingBlock} /\ pending' # {}
  BY <1>1, <1>3, Zenon
<1>5. TypeOK'
  BY <1>1, <1>4, Zenon DEF ProtoInv, TypeOK, IndInv, Phases
<1>6. InStep'
  BY <1>1, <1>2, Zenon DEF ProtoInv, InStep
<1> QED BY <1>5, <1>6, Zenon DEF ProtoInv

LEMMA UsePendingInv ==
    ASSUME ProtoInv, IndInv', UsePending
    PROVE  ProtoInv'
<1>1. PICK b \in Usable : /\ verdict' = [ok |-> b.txs, remove |-> {}]
                          /\ recovered' = recovered \cup b.txs
  BY Zenon DEF UsePending
<1>2. /\ UNCHANGED queueVars /\ mode = "up" /\ phase' = "saved" /\ phase = "idle"
      /\ pending' = pending
      /\ catchUp' = catchUp /\ hasPendingBlock' = hasPendingBlock /\ lastBlock' = lastBlock
      /\ committed' = committed /\ owed' = owed
  BY Zenon DEF UsePending, blockVars
<1>3. mode' = mode /\ postponedItem' = postponedItem
  BY <1>2, QueueAside, Zenon
<1>4. b.txs \subseteq Tx
  BY Zenon DEF Usable, ProtoInv, TypeOK, PendingBlock
<1>5. verdict' \in [ok : SUBSET Tx, remove : SUBSET Tx] /\ verdict'.ok \subseteq recovered'
  BY <1>1, <1>4, Zenon
<1>6. TypeOK'
  BY <1>1, <1>2, <1>4, <1>5, Zenon DEF ProtoInv, TypeOK, IndInv, Phases
<1>7. InStep'
  BY <1>2, <1>3, <1>5, Zenon DEF ProtoInv, InStep
<1> QED BY <1>6, <1>7, Zenon DEF ProtoInv

LEMMA CommitBlockInv ==
    ASSUME ProtoInv, IndInv', CommitBlock
    PROVE  ProtoInv'
<1>1. /\ UNCHANGED queueVars /\ mode = "up" /\ phase' = "committed" /\ phase = "saved"
      /\ verdict' = verdict /\ pending' = {Passed} /\ hasPendingBlock' = FALSE
      /\ catchUp' = catchUp /\ lastBlock' = verdict.ok /\ recovered' = recovered
      /\ committed' = committed \cup verdict.ok /\ owed' = owed \ verdict.ok
  BY Zenon DEF CommitBlock
<1>2. /\ mode' = mode /\ postponedItem' = postponedItem /\ FlightTxs' = FlightTxs
      /\ inFlightPostponed' = inFlightPostponed
  BY <1>1, QueueAside, Zenon
<1>3. Passed \in PendingBlock /\ ~Passed.next
  BY Zenon DEF Passed, PendingBlock
<1>4. pending' \in {{}} \cup {{b} : b \in PendingBlock}
  BY <1>1, <1>3, Zenon
<1>5. verdict.ok \subseteq Tx
  BY Zenon DEF ProtoInv, TypeOK
<1>6. TypeOK'
  BY <1>1, <1>4, <1>5, Zenon DEF ProtoInv, TypeOK, IndInv, Phases
<1>7. InStep'
  BY <1>1, <1>2, <1>3, Zenon DEF ProtoInv, InStep
<1> QED BY <1>6, <1>7, Zenon DEF ProtoInv

LEMMA AckBatchInv ==
    ASSUME ProtoInv, IndInv', AckBatch
    PROVE  ProtoInv'
<1>1. /\ Ack /\ phase = "committed" /\ phase' = "idle" /\ verdict' = NoVerdict
      /\ owed' = owed \ verdict.remove
      /\ pending' = pending /\ hasPendingBlock' = hasPendingBlock /\ catchUp' = catchUp
      /\ lastBlock' = lastBlock /\ committed' = committed /\ recovered' = recovered
  BY Zenon DEF AckBatch, blockVars
<1>2. mode = "up" /\ mode' = mode /\ postponedItem' = NoItem
  BY <1>1, Zenon DEF Ack, restartVars
<1>3. verdict' \in [ok : SUBSET Tx, remove : SUBSET Tx] /\ verdict'.ok = {}
  BY <1>1, Zenon DEF NoVerdict
<1>4. TypeOK'
  BY <1>1, <1>3, Zenon DEF ProtoInv, TypeOK, IndInv, Phases
<1>5. InStep'
  BY <1>1, <1>2, <1>3, Zenon DEF ProtoInv, InStep
<1> QED BY <1>4, <1>5, Zenon DEF ProtoInv

LEMMA AckBatchFailsInv ==
    ASSUME ProtoInv, IndInv', AckBatchFails
    PROVE  ProtoInv'
<1>1. AckDeleteFails /\ phase = "committed" /\ UNCHANGED producerVars
  BY Zenon DEF AckBatchFails
<1>2. /\ phase' = phase /\ verdict' = verdict /\ catchUp' = catchUp /\ pending' = pending
      /\ hasPendingBlock' = hasPendingBlock /\ lastBlock' = lastBlock
      /\ committed' = committed /\ recovered' = recovered /\ owed' = owed
  BY <1>1, Zenon DEF producerVars, blockVars, chainVars
<1>3. /\ mode = "up" /\ mode' = mode /\ inFlight' = inFlight
      /\ inFlightPostponed' = inFlightPostponed
  BY <1>1, Zenon DEF AckDeleteFails, restartVars
<1>4. FlightTxs' = FlightTxs
  BY <1>3, Zenon DEF FlightTxs
<1>5. TypeOK'
  BY <1>2, Zenon DEF ProtoInv, TypeOK, IndInv
<1>6. InStep'
  BY <1>1, <1>2, <1>3, <1>4, Zenon DEF ProtoInv, InStep
<1> QED BY <1>5, <1>6, Zenon DEF ProtoInv

LEMMA LoseInv ==
    ASSUME ProtoInv, IndInv', CrashNode \/ StopNode
    PROVE  ProtoInv'
<1>1. /\ LoseMemory /\ phase' = "idle" /\ verdict' = NoVerdict /\ catchUp' = "unchecked"
      /\ hasPendingBlock' = FALSE /\ lastBlock' = lastBlock
      /\ committed' = committed /\ recovered' = recovered /\ owed' = owed
      /\ pending' = pending \/ pending' = {}
  BY Zenon DEF CrashNode, StopNode, Crash, LoseProducer, chainVars
<1>2. postponedItem' = NoItem
  BY <1>1, Zenon DEF LoseMemory
<1>3. verdict' \in [ok : SUBSET Tx, remove : SUBSET Tx] /\ verdict'.ok = {}
  BY <1>1, Zenon DEF NoVerdict
<1>4. TypeOK'
  BY <1>1, <1>3, Zenon DEF ProtoInv, TypeOK, IndInv, Phases
<1>5. InStep'
  BY <1>1, <1>2, <1>3, Zenon DEF ProtoInv, InStep
<1> QED BY <1>4, <1>5, Zenon DEF ProtoInv

LEMMA RestartInv ==
    ASSUME ProtoInv, IndInv', RestartSequencer
    PROVE  ProtoInv'
<1>1. CASE (Restart \/ DropIncluded(lastBlock)) /\ UNCHANGED producerVars
  <2>1. /\ mode # "up" /\ mode' # "up" /\ postponedItem' = NoItem
    BY <1>1, RestartQuiet, Zenon DEF ProtoInv
  <2>2. /\ phase' = phase /\ verdict' = verdict /\ catchUp' = catchUp /\ pending' = pending
        /\ hasPendingBlock' = hasPendingBlock /\ lastBlock' = lastBlock
        /\ committed' = committed /\ recovered' = recovered /\ owed' = owed
    BY <1>1, Zenon DEF producerVars, blockVars, chainVars
  <2>3. verdict = NoVerdict /\ verdict.ok = {} /\ phase = "idle"
    BY <2>1 DEF ProtoInv, InStep, NoVerdict
  <2>4. TypeOK'
    BY <2>2, Zenon DEF ProtoInv, TypeOK, IndInv
  <2>5. InStep'
    BY <2>1, <2>2, <2>3, Zenon DEF ProtoInv, InStep
  <2> QED BY <2>4, <2>5, Zenon DEF ProtoInv
<1>2. CASE ReconcileDone /\ hasPendingBlock' = (pending # {})
           /\ UNCHANGED <<phase, verdict, catchUp, pending, chainVars>>
  <2>1. /\ mode = "reconciling" /\ mode' = "up" /\ postponedItem' = postponedItem
    BY <1>2, Zenon DEF ReconcileDone, memoryVars, postponeVars
  <2>2. /\ phase' = phase /\ verdict' = verdict /\ catchUp' = catchUp /\ pending' = pending
        /\ lastBlock' = lastBlock /\ committed' = committed /\ recovered' = recovered
        /\ owed' = owed
    BY <1>2, Zenon DEF chainVars
  <2>3. verdict = NoVerdict /\ verdict.ok = {} /\ phase = "idle"
    BY <2>1 DEF ProtoInv, InStep, NoVerdict
  <2>4. TypeOK'
    BY <1>2, <2>2, Zenon DEF ProtoInv, TypeOK, IndInv
  <2>5. InStep'
    BY <2>1, <2>2, <2>3, Zenon DEF ProtoInv, InStep
  <2> QED BY <2>4, <2>5, Zenon DEF ProtoInv
<1> QED BY <1>1, <1>2, Zenon DEF RestartSequencer

(* Every step of the whole keeps types and agreement.                      *)
LEMMA ProtoNext ==
    ASSUME ProtoInv, [Next]_vars
    PROVE  ProtoInv'
<1>1. IndInv'
  BY QueueKeeps, Zenon DEF ProtoInv
<1>2. CASE UNCHANGED vars
  <2>1. UNCHANGED queueVars
    BY <1>2, Zenon DEF vars
  <2>2. /\ mode' = mode /\ postponedItem' = postponedItem /\ FlightTxs' = FlightTxs
        /\ inFlightPostponed' = inFlightPostponed
    BY <2>1, QueueAside, Zenon
  <2>3. /\ phase' = phase /\ verdict' = verdict /\ catchUp' = catchUp /\ pending' = pending
        /\ hasPendingBlock' = hasPendingBlock /\ lastBlock' = lastBlock
        /\ committed' = committed /\ recovered' = recovered /\ owed' = owed
    BY <1>2, Zenon DEF vars, producerVars, blockVars, chainVars
  <2>4. TypeOK'
    BY <1>1, <2>3, Zenon DEF ProtoInv, TypeOK, IndInv
  <2>5. InStep'
    BY <2>2, <2>3, Zenon DEF ProtoInv, InStep
  <2> QED BY <1>1, <2>4, <2>5, Zenon DEF ProtoInv
<1> QED BY <1>1, <1>2, SubmitInv, DrainBatchInv, FilterBatchInv, SkipMempoolInv, SavePendingInv,
           UsePendingInv, CommitBlockInv, AckBatchInv, AckBatchFailsInv, LoseInv, RestartInv
        DEF Next

LEMMA ProtoInit == Init => ProtoInv
<1> SUFFICES ASSUME Init PROVE ProtoInv
  BY Zenon
<1>1. IndInv
  BY InitInv, Zenon DEF Init
<1>2. /\ mode = "down" /\ phase = "idle" /\ verdict = NoVerdict /\ catchUp = "unchecked"
      /\ pending = {} /\ hasPendingBlock = FALSE /\ lastBlock = {} /\ committed = {}
      /\ owed = Stored /\ recovered = {} /\ postponedItem = NoItem
  BY Zenon DEF Init, QueueInit, EmptyMemory
<1>3. Stored \subseteq Tx
  BY <1>1, Zenon DEF Stored, IndInv, QueueTypeOK, Batch
<1>4. verdict \in [ok : SUBSET Tx, remove : SUBSET Tx] /\ verdict.ok = {}
  BY <1>2, Zenon DEF NoVerdict
<1>5. TypeOK
  BY <1>1, <1>2, <1>3, <1>4, Zenon DEF TypeOK, IndInv, Phases
<1>6. InStep
  BY <1>2, <1>4, Zenon DEF InStep
<1> QED BY <1>1, <1>5, <1>6, Zenon DEF ProtoInv

-----------------------------------------------------------------------------
(* Nothing is lost.  What is owed is stored, whatever the restart has read. *)
LEMMA OwedStored ==
    ASSUME IndInv, OwedHeld
    PROVE  NeverLost
<1>1. txSeen \subseteq WalTxs
  BY Zenon DEF IndInv, WriteAhead, SeenIsHeld, TxsOf, WalTxs
<1>2. UnreadTxs \subseteq WalTxs
  BY Zenon DEF UnreadTxs, WalTxs
<1>3. Stored = WalTxs \cup LegacyTxs
  BY Zenon DEF Stored, WalTxs, LegacyTxs
<1>4. mode \in Modes
  BY Zenon DEF IndInv, QueueTypeOK
<1> QED BY <1>1, <1>2, <1>3, <1>4, Zenon DEF OwedHeld, NeverLost, Modes

(* The verdict on a block covers all that is in flight.                    *)
LEMMA JudgedNext ==
    ASSUME ProtoInv, ProtoInv', DAStartKnown, FlightJudged, [Next]_vars
    PROVE  FlightJudged'
<1> USE DEF FlightJudged
<1>1. CASE SubmitBatchTxs
  <2>1. /\ inFlight' = inFlight /\ inFlightPostponed' = inFlightPostponed
        /\ phase' = phase /\ verdict' = verdict /\ catchUp' = catchUp
    BY <1>1, Zenon DEF SubmitBatchTxs, AddBatch, postponeVars
  <2> QED BY <2>1, Zenon DEF FlightTxs
<1>2. CASE DrainBatch
  <2>1. catchUp' \in CatchUpStates \ {"inProgress"} /\ phase' = "drained"
    BY <1>2, Zenon DEF DrainBatch
  <2>2. catchUp' = "done"
    BY <2>1, Zenon DEF CatchUpStates, ProtoInv, TypeOK
  <2> QED BY <2>1, <2>2, Zenon
<1>3. CASE FilterBatch
  <2>1. /\ FlightTxs' = FlightTxs
        /\ FlightTxs \ inFlightPostponed' = verdict'.ok \cup verdict'.remove
    BY <1>3, FilterBatchInv, Zenon DEF ProtoInv
  <2>2. inFlight' = inFlight /\ phase' = "decided" /\ catchUp' = catchUp
    BY <1>3, Zenon DEF FilterBatch, SetPostponed
  <2> QED BY <2>1, <2>2, Zenon
<1>4. CASE SkipMempool
  <2>1. /\ inFlight' = inFlight /\ "inProgress" \in CatchUpStates
    BY <1>4, Zenon DEF SkipMempool, SetPostponed
  <2>2. catchUp # "done"
    BY <2>1, Zenon DEF CatchUpStates
  <2>3. inFlight = <<>> /\ FlightTxs' = {}
    BY <2>1, <2>2, ElemsEmpty, Zenon DEF FlightTxs, TxsOf
  <2> QED BY <2>1, <2>3, Zenon
<1>5. CASE SavePending
  <2>1. /\ UNCHANGED queueVars /\ phase = "decided" /\ phase' = "saved"
        /\ verdict' = verdict /\ catchUp' = catchUp
    BY <1>5, Zenon DEF SavePending
  <2>2. inFlight' = inFlight /\ inFlightPostponed' = inFlightPostponed /\ FlightTxs' = FlightTxs
    BY <2>1, QueueAside, Zenon
  <2> QED BY <2>1, <2>2, Zenon
<1>6. CASE UsePending
  <2>1. /\ UNCHANGED queueVars /\ phase = "idle" /\ phase' = "saved" /\ catchUp' = catchUp
    BY <1>6, Zenon DEF UsePending
  <2>2. inFlight' = inFlight /\ inFlight = <<>> /\ FlightTxs' = {}
    BY <2>1, QueueAside, ElemsEmpty, Zenon DEF FlightTxs, TxsOf
  <2> QED BY <2>1, <2>2, Zenon
<1>7. CASE CommitBlock
  <2>1. /\ UNCHANGED queueVars /\ phase = "saved" /\ phase' = "committed"
        /\ verdict' = verdict /\ catchUp' = catchUp
    BY <1>7, Zenon DEF CommitBlock
  <2>2. inFlight' = inFlight /\ inFlightPostponed' = inFlightPostponed /\ FlightTxs' = FlightTxs
    BY <2>1, QueueAside, Zenon
  <2> QED BY <2>1, <2>2, Zenon
<1>8. CASE AckBatch
  BY <1>8, Zenon DEF AckBatch, Ack
<1>9. CASE AckBatchFails
  <2>1. /\ inFlight' = inFlight /\ inFlightPostponed' = inFlightPostponed
        /\ phase' = phase /\ verdict' = verdict /\ catchUp' = catchUp
    BY <1>9, Zenon DEF AckBatchFails, AckDeleteFails, producerVars
  <2> QED BY <2>1, Zenon DEF FlightTxs
<1>10. CASE CrashNode \/ StopNode
  BY <1>10, Zenon DEF CrashNode, StopNode, Crash, LoseMemory, LoseProducer
<1>11. CASE RestartSequencer
  <2>1. phase' = phase
    BY <1>11, Zenon DEF RestartSequencer, producerVars
  <2>2. mode # "up"
    BY <1>11, Zenon DEF RestartSequencer, Restart, Load, LoadEntry, LoadDone, MigrateEntry, MigrateSkip,
                 MigrateCrash, MigrateDone, DropIncluded, ReconcileDone
  <2>3. phase = "idle" /\ inFlight = <<>>
    BY <2>2, Zenon DEF ProtoInv, InStep, IndInv, RestartOK
  <2>4. inFlight' = <<>>
    <3>1. CASE ReconcileDone
      BY <2>3, <3>1, Zenon DEF ReconcileDone, memoryVars
    <3>2. CASE Restart \/ DropIncluded(lastBlock)
      BY <3>2, RestartQuiet, Zenon DEF ProtoInv
    <3> QED BY <1>11, <3>1, <3>2, Zenon DEF RestartSequencer
  <2> QED BY <2>1, <2>3, <2>4, Zenon
<1>12. CASE UNCHANGED vars
  <2>1. /\ inFlight' = inFlight /\ inFlightPostponed' = inFlightPostponed
        /\ FlightTxs' = FlightTxs
    BY <1>12, QueueAside, Zenon DEF vars
  <2>2. phase' = phase /\ verdict' = verdict /\ catchUp' = catchUp
    BY <1>12, Zenon DEF vars, producerVars
  <2> QED BY <2>1, <2>2, Zenon
<1> QED BY <1>1, <1>2, <1>3, <1>4, <1>5, <1>6, <1>7, <1>8, <1>9, <1>10, <1>11, <1>12 DEF Next

(* What Ack takes out of the dedup set.                                    *)
LEMMA AckForgets ==
    ASSUME Ack
    PROVE  /\ mode = "up" /\ mode' = mode /\ LegacyTxs' = LegacyTxs
           /\ txSeen' = txSeen \ (FlightTxs \ inFlightPostponed)
BY Zenon DEF Ack, SeenAfterAck, restartVars, LegacyTxs

(* The restart keeps what is owed; reconciliation drops only what is on    *)
(* chain.                                                                  *)
LEMMA RestartOwed ==
    ASSUME ProtoInv, OwedHeld, RestartSequencer
    PROVE  OwedHeld'
<1>1. owed' = owed /\ lastBlock' = lastBlock
  BY Zenon DEF RestartSequencer, producerVars, chainVars
<1>2. IndInv /\ NeverLost
  BY OwedStored, Zenon DEF ProtoInv
<1>3. CASE Load
  <2>1. /\ mode = "down" /\ mode' = "loading" /\ wal' = wal /\ legacy' = legacy
        /\ todo' = DOMAIN wal
    BY <1>3, Zenon DEF Load, durableVars
  <2>2. Stored = UnreadTxs' \cup LegacyTxs'
    BY <2>1 DEF Stored, UnreadTxs, LegacyTxs
  <2> QED BY <1>1, <2>1, <2>2, Zenon DEF OwedHeld
<1>4. CASE LoadEntry
  BY <1>1, <1>2, <1>4, LoadEntryReads, Zenon DEF OwedHeld
<1>5. CASE LoadDone
  <2>1. /\ mode = "loading" /\ mode' = "migrating" /\ legacy' = legacy /\ txSeen' = txSeen
        /\ UnreadTxs = {}
    BY <1>5, Zenon DEF LoadDone, durableVars, memoryVars, UnreadTxs
  <2> QED BY <1>1, <2>1, Zenon DEF OwedHeld, LegacyTxs
<1>6. CASE MigrateEntry
  BY <1>1, <1>2, <1>6, MigrateEntryReads, Zenon DEF OwedHeld
<1>7. CASE MigrateSkip
  <2>1. mode = "migrating" /\ mode' = mode /\ legacy' = legacy /\ txSeen' = txSeen
    BY <1>7, Zenon DEF MigrateSkip, durableVars, memoryVars
  <2> QED BY <1>1, <2>1, Zenon DEF OwedHeld, LegacyTxs
<1>8. CASE MigrateCrash
  BY <1>1, <1>2, <1>8, MigrateCrashKeeps, Zenon DEF OwedHeld, NeverLost
<1>9. CASE MigrateDone
  <2>1. mode = "migrating" /\ mode' = "reconciling" /\ legacy' = legacy /\ txSeen' = txSeen
    BY <1>9, Zenon DEF MigrateDone, durableVars, memoryVars
  <2> QED BY <1>1, <2>1, Zenon DEF OwedHeld, LegacyTxs
<1>10. CASE DropIncluded(lastBlock)
  <2>1. PICK it \in Elems(queue) :
          /\ mode = "reconciling" /\ mode' = mode /\ legacy' = legacy
          /\ txSeen' = txSeen \ (it.txs \cap lastBlock)
    BY <1>2, <1>10, DropIncludedStep, Zenon
  <2>2. owed \cap lastBlock = {}
    BY Zenon DEF ProtoInv, InStep, TypeOK
  <2> QED BY <1>1, <2>1, <2>2, Zenon DEF OwedHeld, LegacyTxs
<1>11. CASE ReconcileDone
  <2>1. mode = "reconciling" /\ mode' = "up" /\ legacy' = legacy /\ txSeen' = txSeen
    BY <1>11, Zenon DEF ReconcileDone, durableVars, memoryVars
  <2> QED BY <1>1, <2>1, Zenon DEF OwedHeld, LegacyTxs
<1> QED BY <1>3, <1>4, <1>5, <1>6, <1>7, <1>8, <1>9, <1>10, <1>11 DEF RestartSequencer, Restart

(* What is owed stays in memory or in the part of the datastore that the   *)
(* restart has yet to read.                                                *)
LEMMA OwedNext ==
    ASSUME ProtoInv, FlightJudged, OwedHeld, [Next]_vars
    PROVE  OwedHeld'
<1>1. CASE SubmitBatchTxs
  <2>1. PICK batch \in Batch : AddBatch(batch) /\ owed' = owed \cup batch
    BY <1>1, Zenon DEF SubmitBatchTxs
  <2>2. /\ mode = "up" /\ mode' = mode /\ legacy' = legacy
        /\ txSeen' = txSeen \cup batch
    BY <2>1, Zenon DEF AddBatch, restartVars
  <2> QED BY <2>1, <2>2 DEF OwedHeld, LegacyTxs
<1>2. CASE DrainBatch \/ FilterBatch \/ SkipMempool \/ AckBatchFails
  <2>1. mode = "up" /\ mode' = mode /\ legacy' = legacy /\ txSeen' = txSeen
    BY <1>2, Zenon DEF DrainBatch, FilterBatch, SkipMempool, AckBatchFails, Drain, SetPostponed,
                AckDeleteFails, durableVars, restartVars
  <2>2. owed' = owed
    BY <1>2, Zenon DEF DrainBatch, FilterBatch, SkipMempool, AckBatchFails, producerVars, chainVars
  <2> QED BY <2>1, <2>2, Zenon DEF OwedHeld, LegacyTxs
<1>3. CASE SavePending \/ UsePending \/ CommitBlock \/ UNCHANGED vars
  <2>1. UNCHANGED queueVars /\ owed' \subseteq owed
    BY <1>3, Zenon DEF SavePending, UsePending, CommitBlock, vars, producerVars, chainVars
  <2> QED BY <2>1, QueueAside, Zenon DEF OwedHeld
<1>4. CASE AckBatch
  <2>1. Ack /\ phase = "committed" /\ owed' = owed \ verdict.remove
    BY <1>4, Zenon DEF AckBatch
  <2>2. FlightTxs \ inFlightPostponed \subseteq verdict.ok \cup verdict.remove
    BY <2>1, Zenon DEF FlightJudged
  <2>3. owed \cap verdict.ok = {}
    BY <2>1, Zenon DEF ProtoInv, InStep, TypeOK
  <2> QED BY <2>1, <2>2, <2>3, AckForgets, Zenon DEF OwedHeld
<1>5. CASE CrashNode \/ StopNode
  <2>1. /\ mode' = "down" /\ Stored' = Stored /\ owed' = owed
    BY <1>5, Zenon DEF CrashNode, StopNode, Crash, LoseMemory, LoseProducer, chainVars, durableVars, Stored
  <2> QED BY <2>1, OwedStored, Zenon DEF OwedHeld, NeverLost, ProtoInv
<1>6. CASE RestartSequencer
  BY <1>6, RestartOwed, Zenon
<1> QED BY <1>1, <1>2, <1>3, <1>4, <1>5, <1>6, Zenon DEF Next

(* The composition keeps its types: in particular a block under production *)
(* always consists of transactions, and the pending record is at most one. *)
THEOREM ProtocolTypes == Spec => []TypeOK
<1>1. ProtoInv => TypeOK
  BY Zenon DEF ProtoInv
<1>2. ProtoInv /\ [Next]_vars => ProtoInv'
  BY ProtoNext, Zenon
<1> QED BY <1>1, <1>2, ProtoInit, PTL DEF Spec

(* With a known DA start height no accepted transaction is lost, whatever  *)
(* crashes, failed clean-ups and failed acknowledgements come between: it  *)
(* stays in the datastore until it is committed or an acknowledgement      *)
(* drops it on FilterTxs' verdict.                                         *)
THEOREM NoAcceptedTxLost ==
    ASSUME DAStartKnown
    PROVE  Spec => []NeverLost
<1>1. Init => LossInv
  <2> SUFFICES ASSUME Init PROVE LossInv
    BY Zenon
  <2>1. /\ mode = "down" /\ phase = "idle" /\ inFlight = <<>> /\ owed = Stored
    BY Zenon DEF Init, QueueInit, EmptyMemory
  <2> QED BY <2>1, ProtoInit, Zenon DEF LossInv, FlightJudged, OwedHeld
<1>2. LossInv /\ [Next]_vars => LossInv'
  BY ProtoNext, JudgedNext, OwedNext, Zenon DEF LossInv
<1>3. LossInv => NeverLost
  BY OwedStored, Zenon DEF LossInv, ProtoInv
<1> QED BY <1>1, <1>2, <1>3, PTL DEF Spec

-----------------------------------------------------------------------------
(* Where clean-up writes do not fail, a restart reads the datastore back   *)
(* without changing what it holds, until reconciliation drops from it what *)
(* the last block holds.                                                   *)
LEMMA RestartStored ==
    ASSUME IndInv, IndInv', WalExact, WalExact', ~WritesMayFail,
           Restart \/ ReconcileDone
    PROVE  Stored' = Stored
<1>1. CASE Load \/ LoadDone \/ MigrateSkip \/ MigrateDone \/ ReconcileDone
  <2>1. wal' = wal /\ legacy' = legacy
    BY <1>1, Zenon DEF Load, LoadDone, MigrateSkip, MigrateDone, ReconcileDone, durableVars
  <2> QED BY <2>1 DEF Stored
<1>2. CASE LoadEntry
  <2>1. /\ mode = "loading" /\ mode' = mode /\ LegacyTxs' = LegacyTxs
        /\ txSeen \cup UnreadTxs = txSeen' \cup UnreadTxs'
    BY <1>2, LoadEntryReads, Zenon
  <2>2. Stored = txSeen \cup UnreadTxs \cup LegacyTxs
    BY <2>1, StoredExact, Zenon DEF StoredIsRead
  <2>3. Stored' = txSeen' \cup UnreadTxs' \cup LegacyTxs'
    BY <2>1, StoredExactAfter, Zenon DEF StoredIsRead
  <2> QED BY <2>1, <2>2, <2>3, Zenon
<1>3. CASE MigrateEntry
  <2>1. /\ mode = "migrating" /\ mode' = mode
        /\ txSeen \cup LegacyTxs = txSeen' \cup LegacyTxs'
    BY <1>3, MigrateEntryReads, Zenon
  <2>2. Stored = txSeen \cup LegacyTxs
    BY <2>1, StoredExact, Zenon DEF StoredIsRead
  <2>3. Stored' = txSeen' \cup LegacyTxs'
    BY <2>1, StoredExactAfter, Zenon DEF StoredIsRead
  <2> QED BY <2>1, <2>2, <2>3, Zenon
<1>4. CASE MigrateCrash
  BY <1>4, MigrateCrashKeeps, Zenon
<1> QED BY <1>1, <1>2, <1>3, <1>4, Zenon DEF Restart

LEMMA DropStored ==
    ASSUME IndInv, IndInv', WalExact, WalExact', DropIncluded(lastBlock)
    PROVE  Stored' \subseteq Stored /\ Stored \ lastBlock \subseteq Stored'
<1>1. PICK it \in Elems(queue) :
        /\ mode = "reconciling" /\ mode' = mode
        /\ txSeen' = txSeen \ (it.txs \cap lastBlock)
  BY DropIncludedStep, Zenon
<1>2. Stored = txSeen
  BY <1>1, StoredExact, Zenon DEF StoredIsRead
<1>3. Stored' = txSeen'
  BY <1>1, StoredExactAfter, Zenon DEF StoredIsRead
<1> QED BY <1>1, <1>2, <1>3, Zenon

LEMMA RestartApart ==
    ASSUME ProtoInv, IndInv', WalExact, WalExact', ~WritesMayFail, ChainApart, RestartSequencer
    PROVE  ChainApart'
<1>1. /\ phase' = phase /\ committed' = committed /\ recovered' = recovered
      /\ lastBlock' = lastBlock
  BY Zenon DEF RestartSequencer, producerVars, chainVars
<1>2. IndInv
  BY Zenon DEF ProtoInv
<1>3. CASE Restart
  <2>1. mode # "up" /\ mode' # "up"
    BY <1>2, <1>3, RestartQuiet, Zenon
  <2>2. Stored' = Stored
    BY <1>2, <1>3, RestartStored, Zenon
  <2>3. mode' = "reconciling" => \A it \in Elems(queue') : it.key \in todo'
    BY <1>3, Zenon DEF Restart, Load, LoadEntry, LoadDone, MigrateEntry, MigrateSkip, MigrateCrash,
                MigrateDone, LoseMemory, memoryVars
  <2> QED BY <1>1, <2>1, <2>2, <2>3, Zenon DEF ChainApart
<1>4. CASE DropIncluded(lastBlock)
  <2>1. PICK it \in Elems(queue) :
             LET remaining == it.txs \ lastBlock
                 e == [key |-> it.key, txs |-> remaining]
             IN  /\ mode = "reconciling" /\ mode' = mode /\ legacy' = legacy
                 /\ todo' = todo \ {it.key} /\ postponedItem' = postponedItem
                 /\ txSeen' = txSeen \ (it.txs \cap lastBlock)
                 /\ Held = queue /\ Held' = queue' /\ inFlight' = inFlight
                 /\ \A o \in Elems(queue) \ {it} : o.key # it.key
                 /\ remaining = {} => /\ wal' = Without(wal, it.key)
                                      /\ Elems(queue') = Elems(queue) \ {it}
                 /\ remaining # {} => /\ wal' = IF remaining = it.txs THEN wal
                                                ELSE With(wal, it.key, remaining)
                                      /\ Elems(queue') = (Elems(queue) \ {it}) \cup {e}
    BY <1>2, <1>4, DropIncludedStep, Zenon
  <2> DEFINE remaining == it.txs \ lastBlock
             e == [key |-> it.key, txs |-> remaining]
  <2>2. \A o \in Elems(queue') : o \in Elems(queue) \ {it} \/ o = e
    BY <2>1, Zenon
  <2>3. e.txs \cap lastBlock = {}
    BY Zenon
  <2>4. \A o \in Elems(queue) \ {it} : o.key \in todo' \/ o.txs \cap lastBlock = {}
    BY <2>1, Zenon DEF ChainApart
  <2> HIDE DEF e
  <2>5. \A o \in Elems(queue') : o.key \in todo' \/ o.txs \cap lastBlock = {}
    BY <2>2, <2>3, <2>4, Zenon
  <2>6. Stored' \subseteq Stored
    BY <1>2, <1>4, DropStored, Zenon
  <2> QED BY <1>1, <2>1, <2>5, <2>6, Zenon DEF ChainApart
<1>5. CASE ReconcileDone
  <2>1. /\ mode = "reconciling" /\ mode' = "up" /\ todo = {} /\ txSeen' = txSeen
    BY <1>5, Zenon DEF ReconcileDone, memoryVars
  <2>2. Stored = txSeen
    BY <1>2, <2>1, StoredExact, Zenon DEF StoredIsRead
  <2>3. inFlight = <<>> /\ queue \in Seq(Item) /\ phase = "idle"
    BY <1>2, <2>1 DEF IndInv, RestartOK, QueueTypeOK, ProtoInv, InStep
  <2>4. txSeen = TxsOf(Elems(queue))
    BY <1>2, <2>3, HeldIsQueue, Zenon DEF Held, IndInv, SeenIsHeld
  <2>5. txSeen \cap lastBlock = {}
    BY <2>1, <2>4, Zenon DEF ChainApart, TxsOf
  <2> QED BY <1>1, <2>1, <2>2, <2>3, <2>5, Zenon DEF ChainApart
<1> QED BY <1>3, <1>4, <1>5, Zenon DEF RestartSequencer

LEMMA ApartNext ==
    ASSUME ProtoInv, IndInv', WalExact, WalExact', ~WritesMayFail, ChainApart, [Next]_vars
    PROVE  ChainApart'
<1>1. CASE SubmitBatchTxs
  <2>1. PICK batch \in Batch : batch \cap committed = {} /\ AddBatch(batch)
    BY <1>1, Zenon DEF SubmitBatchTxs
  <2>2. mode = "up" /\ mode' = mode /\ txSeen' = txSeen \cup batch
    BY <2>1, Zenon DEF AddBatch, restartVars
  <2>3. /\ phase' = phase /\ committed' = committed /\ recovered' = recovered
        /\ lastBlock' = lastBlock
    BY <1>1, Zenon DEF SubmitBatchTxs
  <2> QED BY <2>1, <2>2, <2>3, Zenon DEF ChainApart
<1>2. CASE DrainBatch \/ FilterBatch \/ SkipMempool
  <2>1. mode = "up" /\ mode' = mode /\ txSeen' = txSeen
    BY <1>2, Zenon DEF DrainBatch, FilterBatch, SkipMempool, Drain, SetPostponed, restartVars
  <2>2. /\ committed' = committed /\ recovered' = recovered /\ lastBlock' = lastBlock
        /\ phase # "committed" /\ phase' # "committed"
    BY <1>2, Zenon DEF DrainBatch, FilterBatch, SkipMempool, MayBuild, chainVars
  <2> QED BY <2>1, <2>2, Zenon DEF ChainApart
<1>3. CASE AckBatchFails
  <2>1. mode = "up" /\ mode' = mode /\ txSeen' = txSeen
    BY <1>3, Zenon DEF AckBatchFails, AckDeleteFails, restartVars
  <2>2. /\ phase' = phase /\ committed' = committed /\ recovered' = recovered
        /\ lastBlock' = lastBlock
    BY <1>3, Zenon DEF AckBatchFails, producerVars, chainVars
  <2> QED BY <2>1, <2>2, Zenon DEF ChainApart
<1>4. CASE SavePending \/ UsePending
  <2>1. /\ UNCHANGED queueVars /\ mode = "up" /\ committed' = committed
        /\ recovered \subseteq recovered' /\ phase # "committed"
    BY <1>4, Zenon DEF SavePending, UsePending, chainVars
  <2>2. mode' = mode /\ txSeen' = txSeen
    BY <2>1, QueueAside, Zenon
  <2> QED BY <2>1, <2>2, Zenon DEF ChainApart
<1>5. CASE CommitBlock
  <2>1. /\ UNCHANGED queueVars /\ mode = "up" /\ phase = "saved" /\ phase' = "committed"
        /\ committed' = committed \cup verdict.ok /\ lastBlock' = verdict.ok
        /\ recovered' = recovered
    BY <1>5, Zenon DEF CommitBlock
  <2>2. mode' = mode /\ txSeen' = txSeen
    BY <2>1, QueueAside, Zenon
  <2> QED BY <2>1, <2>2, Zenon DEF ChainApart
<1>6. CASE AckBatch
  <2>1. /\ Ack /\ phase = "committed" /\ phase' = "idle" /\ committed' = committed
        /\ recovered' = recovered
    BY <1>6, Zenon DEF AckBatch
  <2>2. lastBlock \subseteq (FlightTxs \ inFlightPostponed) \cup recovered
    BY <2>1, Zenon DEF ProtoInv, InStep
  <2>3. /\ mode = "up" /\ mode' = mode
        /\ txSeen' = txSeen \ (FlightTxs \ inFlightPostponed)
    BY <2>1, AckForgets, Zenon
  <2> QED BY <2>1, <2>2, <2>3, Zenon DEF ChainApart
<1>7. CASE CrashNode \/ StopNode
  <2>1. /\ mode' = "down" /\ Stored' = Stored /\ committed' = committed
        /\ recovered' = recovered /\ lastBlock' = lastBlock
    BY <1>7, Zenon DEF CrashNode, StopNode, Crash, LoseMemory, LoseProducer, chainVars, durableVars, Stored
  <2>2. mode = "up" => Stored = txSeen
    BY StoredExact, Zenon DEF StoredIsRead, ProtoInv
  <2> QED BY <2>1, <2>2, Zenon DEF ChainApart
<1>8. CASE RestartSequencer
  BY <1>8, RestartApart, Zenon
<1>9. CASE UNCHANGED vars
  <2>1. /\ UNCHANGED queueVars /\ phase' = phase /\ committed' = committed
        /\ recovered' = recovered /\ lastBlock' = lastBlock
    BY <1>9, Zenon DEF vars, producerVars, chainVars
  <2>2. /\ mode' = mode /\ txSeen' = txSeen /\ Stored' = Stored /\ queue' = queue
        /\ todo' = todo
    BY <2>1, QueueAside, Zenon
  <2> QED BY <2>1, <2>2, Zenon DEF ChainApart
<1> QED BY <1>1, <1>2, <1>3, <1>4, <1>5, <1>6, <1>7, <1>8, <1>9, Zenon DEF Next

LEMMA ExactInit == Init => ExactInv
<1> SUFFICES ASSUME Init PROVE ExactInv
  BY Zenon
<1>1. mode = "down" /\ committed = {}
  BY Zenon DEF Init, QueueInit
<1> QED BY <1>1, ProtoInit, Zenon DEF ExactInv, WalExact, ChainApart

LEMMA ExactNext ==
    ASSUME ~WritesMayFail, ExactInv, [Next]_vars
    PROVE  ExactInv'
<1>1. ProtoInv' /\ IndInv' /\ WalExact'
  BY ProtoNext, QueueKeeps, Zenon DEF ExactInv, ProtoInv
<1> QED BY <1>1, ApartNext, Zenon DEF ExactInv

(* Where clean-up writes do not fail, no block offers a transaction that   *)
(* is already on chain, recovered blocks apart: Ack, the reconciliation    *)
(* with the last block and the dedup on reload keep it out.                *)
THEOREM NothingIncludedTwice ==
    ASSUME ~WritesMayFail
    PROVE  Spec => []NoReinclusion
<1>1. ExactInv /\ [Next]_vars => ExactInv'
  BY ExactNext, Zenon
<1>2. ExactInv => NoReinclusion
  <2> SUFFICES ASSUME ExactInv, phase \in {"decided", "saved"}
               PROVE  verdict.ok \cap committed \subseteq recovered
    BY Zenon DEF NoReinclusion
  <2>1. mode = "up" /\ phase # "committed"
    BY Zenon DEF ExactInv, ProtoInv, InStep
  <2>2. txSeen \cap committed \subseteq recovered
    BY <2>1, Zenon DEF ExactInv, ChainApart
  <2>3. verdict.ok \subseteq txSeen \cup recovered
    BY FlightSeen, Zenon DEF ExactInv, ProtoInv, InStep
  <2> QED BY <2>2, <2>3, Zenon
<1> QED BY <1>1, <1>2, ExactInit, PTL DEF Spec

-----------------------------------------------------------------------------
(* The refinement.  What each step does to the datastore, in terms of what *)
(* it holds.                                                               *)
LEMMA UpStored ==
    ASSUME ExactInv, mode = "up"
    PROVE  Stored = txSeen
BY StoredExact, Zenon DEF StoredIsRead, ExactInv, ProtoInv

LEMMA UpStoredAfter ==
    ASSUME ExactInv', mode' = "up"
    PROVE  Stored' = txSeen'
BY StoredExactAfter, Zenon DEF StoredIsRead, ExactInv, ProtoInv

(* Outside Submit, Commit and Ack the store keeps what is not on chain.    *)
LEMMA StoreKept ==
    ASSUME ExactInv, ExactInv', ~WritesMayFail,
           \/ DrainBatch \/ FilterBatch \/ SkipMempool \/ SavePending \/ UsePending
           \/ AckBatchFails \/ CrashNode \/ StopNode \/ RestartSequencer \/ UNCHANGED vars
    PROVE  committed' = committed /\ Stored' \ committed = Stored \ committed
<1>1. CASE DrainBatch \/ FilterBatch \/ SkipMempool \/ AckBatchFails
  <2>1. mode = "up" /\ mode' = mode /\ txSeen' = txSeen
    BY <1>1, Zenon DEF DrainBatch, FilterBatch, SkipMempool, AckBatchFails, Drain, SetPostponed,
                AckDeleteFails, restartVars
  <2>2. committed' = committed
    BY <1>1, Zenon DEF DrainBatch, FilterBatch, SkipMempool, AckBatchFails, producerVars, chainVars
  <2> QED BY <2>1, <2>2, UpStored, UpStoredAfter, Zenon
<1>2. CASE SavePending \/ UsePending \/ UNCHANGED vars
  <2>1. UNCHANGED queueVars /\ committed' = committed
    BY <1>2, Zenon DEF SavePending, UsePending, vars, producerVars, chainVars
  <2> QED BY <2>1, QueueAside, Zenon
<1>3. CASE CrashNode \/ StopNode
  BY <1>3, Zenon DEF CrashNode, StopNode, Crash, LoseProducer, chainVars, durableVars, Stored
<1>4. CASE RestartSequencer
  <2>1. committed' = committed
    BY <1>4, Zenon DEF RestartSequencer, producerVars, chainVars
  <2>2. IndInv /\ IndInv' /\ WalExact /\ WalExact'
    BY Zenon DEF ExactInv, ProtoInv
  <2>3. CASE Restart \/ ReconcileDone
    BY <2>1, <2>2, <2>3, RestartStored, Zenon
  <2>4. CASE DropIncluded(lastBlock)
    <3>1. Stored' \subseteq Stored /\ Stored \ lastBlock \subseteq Stored'
      BY <2>2, <2>4, DropStored, Zenon
    <3>2. lastBlock \subseteq committed
      BY Zenon DEF ExactInv, ProtoInv, TypeOK
    <3> QED BY <2>1, <3>1, <3>2, Zenon
  <2> QED BY <1>4, <2>3, <2>4, Zenon DEF RestartSequencer
<1> QED BY <1>1, <1>2, <1>3, <1>4, Zenon

LEMMA SubmitStored ==
    ASSUME ExactInv, ExactInv', SubmitBatchTxs
    PROVE  \E batch \in SUBSET Tx :
             /\ batch \cap committed = {} /\ Stored' = Stored \cup batch
             /\ committed' = committed /\ verdict' = verdict /\ phase' = phase
             /\ pending' = pending
<1>1. PICK batch \in Batch : batch \cap committed = {} /\ AddBatch(batch)
  BY Zenon DEF SubmitBatchTxs
<1>2. mode = "up" /\ mode' = mode /\ txSeen' = txSeen \cup batch /\ batch \in SUBSET Tx
  BY <1>1, Zenon DEF AddBatch, restartVars, Batch
<1>3. Stored' = Stored \cup batch
  BY <1>2, UpStored, UpStoredAfter, Zenon
<1> QED BY <1>1, <1>2, <1>3, Zenon DEF SubmitBatchTxs, blockVars

(* Ack removes what the block it acknowledges committed or refused.        *)
LEMMA AckStored ==
    ASSUME RefineInv, RefineInv', AckBatch
    PROVE  /\ Stored' \subseteq Stored
           /\ Stored \ Stored' \subseteq committed \cup verdict.remove
<1>1. Ack /\ phase = "committed"
  BY Zenon DEF AckBatch
<1>2. FlightTxs \ inFlightPostponed \subseteq verdict.ok \cup verdict.remove
  BY <1>1, Zenon DEF RefineInv, LossInv, FlightJudged
<1>3. verdict.ok \subseteq committed
  BY <1>1, Zenon DEF RefineInv, LossInv, ProtoInv, InStep, TypeOK
<1>4. /\ mode = "up" /\ mode' = mode
      /\ txSeen' = txSeen \ (FlightTxs \ inFlightPostponed)
  BY <1>1, AckForgets, Zenon
<1>5. Stored = txSeen /\ Stored' = txSeen'
  BY <1>4, UpStored, UpStoredAfter, Zenon DEF RefineInv
<1> QED BY <1>2, <1>3, <1>4, <1>5, Zenon

(* A block on its way stays stored until it is committed.                  *)
LEMMA BlockNext ==
    ASSUME RefineInv, LossInv', ExactInv', ~WritesMayFail, [Next]_vars
    PROVE  BlockStored'
<1>1. BlockStored /\ ProtoInv /\ ExactInv
  BY Zenon DEF RefineInv, LossInv
<1>2. CASE SubmitBatchTxs
  BY <1>1, <1>2, SubmitStored, Zenon DEF BlockStored
<1>3. CASE DrainBatch \/ SkipMempool
  <2>1. committed' = committed /\ Stored' \ committed = Stored \ committed
    BY <1>1, <1>3, StoreKept, Zenon
  <2>2. pending' = pending /\ verdict'.ok = {}
    BY <1>3 DEF DrainBatch, SkipMempool, blockVars, NoVerdict
  <2> QED BY <1>1, <2>1, <2>2, Zenon DEF BlockStored
<1>4. CASE FilterBatch
  <2>1. committed' = committed /\ Stored' \ committed = Stored \ committed
    BY <1>1, <1>4, StoreKept, Zenon
  <2>2. pending' = pending /\ mode = "up"
    BY <1>4, Zenon DEF FilterBatch, blockVars, SetPostponed
  <2>3. verdict'.ok \subseteq FlightTxs
    BY <1>4 DEF FilterBatch
  <2>4. verdict'.ok \subseteq Stored
    BY <1>1, <2>2, <2>3, UpStored, FlightSeen, Zenon DEF ProtoInv
  <2> QED BY <1>1, <2>1, <2>2, <2>4, Zenon DEF BlockStored
<1>5. CASE SavePending
  <2>1. committed' = committed /\ Stored' \ committed = Stored \ committed
    BY <1>1, <1>5, StoreKept, Zenon
  <2>2. /\ pending' = {[txs |-> verdict.ok, next |-> TRUE]} /\ verdict' = verdict
        /\ phase = "decided"
    BY <1>5, Zenon DEF SavePending
  <2> QED BY <1>1, <2>1, <2>2 DEF BlockStored
<1>6. CASE UsePending
  <2>1. committed' = committed /\ Stored' \ committed = Stored \ committed
    BY <1>1, <1>6, StoreKept, Zenon
  <2>2. PICK b \in Usable : verdict' = [ok |-> b.txs, remove |-> {}]
    BY <1>6, Zenon DEF UsePending
  <2>3. verdict'.ok \subseteq Stored \cup committed /\ pending' = pending
    BY <1>1, <1>6, <2>2, Zenon DEF BlockStored, Usable, UsePending, blockVars
  <2> QED BY <1>1, <2>1, <2>3, Zenon DEF BlockStored
<1>7. CASE CommitBlock
  <2>1. pending' = {Passed} /\ phase' = "committed"
    BY <1>7, Zenon DEF CommitBlock
  <2> QED BY <2>1 DEF BlockStored, Passed
<1>8. CASE AckBatch
  <2>1. pending' = pending /\ phase = "committed" /\ phase' = "idle"
    BY <1>8, Zenon DEF AckBatch, blockVars
  <2>2. \A b \in pending : ~b.next
    BY <1>1, <2>1, Zenon DEF ProtoInv, InStep
  <2> QED BY <2>1, <2>2, Zenon DEF BlockStored
<1>9. CASE AckBatchFails \/ CrashNode \/ StopNode \/ RestartSequencer \/ UNCHANGED vars
  <2>1. committed' = committed /\ Stored' \ committed = Stored \ committed
    BY <1>1, <1>9, StoreKept, Zenon
  <2>2. /\ pending' \subseteq pending
        /\ (phase' = phase /\ verdict' = verdict) \/ phase' = "idle"
    BY <1>9, Zenon DEF AckBatchFails, CrashNode, StopNode, LoseProducer, RestartSequencer, vars,
                producerVars, blockVars
  <2> QED BY <1>1, <2>1, <2>2, Zenon DEF BlockStored
<1> QED BY <1>2, <1>3, <1>4, <1>5, <1>6, <1>7, <1>8, <1>9 DEF Next

-----------------------------------------------------------------------------
(* The steps of the abstract mempool, as steps of the datastore, the chain *)
(* and the verdict.                                                        *)
LEMMA IsAccept ==
    ASSUME NEW txs \in SUBSET Tx, txs \cap committed = {}, Stored' = Stored \cup txs,
           committed' = committed, verdict' = verdict
    PROVE  Abstract!Next
<1>1. Abstract!Accept(txs)
  BY Zenon DEF Abstract!Accept
<1> QED BY <1>1, Zenon DEF Abstract!Next

LEMMA IsJudge ==
    ASSUME committed' = committed, Stored' \ committed = Stored \ committed,
           verdict'.remove \in SUBSET Tx
    PROVE  Abstract!Next
<1>1. Abstract!Judge(verdict'.remove)
  BY Zenon DEF Abstract!Judge
<1> QED BY <1>1, Zenon DEF Abstract!Next

LEMMA IsCommit ==
    ASSUME verdict.ok \in SUBSET Tx, verdict.ok \subseteq Stored \cup committed,
           Stored' = Stored, committed' = committed \cup verdict.ok, verdict' = verdict
    PROVE  Abstract!Next
<1> DEFINE txs == verdict.ok \ committed
<1>1. Abstract!Commit(txs)
  BY Zenon DEF Abstract!Commit
<1>2. txs \in SUBSET Tx
  BY Zenon
<1> HIDE DEF txs
<1> QED BY <1>1, <1>2, Zenon DEF Abstract!Next

LEMMA IsRefuse ==
    ASSUME Stored' \subseteq Stored, Stored \ Stored' \subseteq committed \cup verdict.remove,
           Stored \subseteq Tx, committed' = committed, verdict' = NoVerdict
    PROVE  Abstract!Next
<1> DEFINE txs == (Stored \ Stored') \ committed
<1>1. Abstract!Refuse(txs)
  BY Zenon DEF Abstract!Refuse, NoVerdict
<1>2. txs \in SUBSET Tx
  BY Zenon
<1> HIDE DEF txs
<1> QED BY <1>1, <1>2, Zenon DEF Abstract!Next

(* Every step of the queue and its client is one of them.                  *)
LEMMA MempoolStep ==
    ASSUME RefineInv, RefineInv', ~WritesMayFail, [Next]_vars
    PROVE  [Abstract!Next]_(Abstract!mempoolVars)
<1>1. ExactInv /\ ExactInv' /\ ProtoInv /\ ProtoInv' /\ BlockStored
  BY Zenon DEF RefineInv, LossInv
<1>2. verdict.ok \in SUBSET Tx /\ verdict'.remove \in SUBSET Tx
  BY <1>1, Zenon DEF ProtoInv, TypeOK
<1>3. CASE SubmitBatchTxs
  BY <1>1, <1>3, SubmitStored, IsAccept, Zenon
<1>4. CASE CommitBlock
  <2>1. /\ Stored' = Stored /\ committed' = committed \cup verdict.ok /\ verdict' = verdict
        /\ phase = "saved"
    BY <1>4, QueueAside, Zenon DEF CommitBlock
  <2>2. verdict.ok \subseteq Stored \cup committed
    BY <1>1, <2>1, Zenon DEF BlockStored
  <2> QED BY <1>2, <2>1, <2>2, IsCommit, Zenon
<1>5. CASE AckBatch
  <2>1. committed' = committed /\ verdict' = NoVerdict
    BY <1>5, Zenon DEF AckBatch
  <2>2. Stored \subseteq Tx
    BY <1>1, Zenon DEF Stored, ProtoInv, IndInv, QueueTypeOK, Batch
  <2> QED BY <1>5, <2>1, <2>2, AckStored, IsRefuse, Zenon
<1>6. CASE \/ DrainBatch \/ FilterBatch \/ SkipMempool \/ SavePending \/ UsePending
           \/ AckBatchFails \/ CrashNode \/ StopNode \/ RestartSequencer \/ UNCHANGED vars
  BY <1>1, <1>2, <1>6, StoreKept, IsJudge, Zenon
<1> QED BY <1>3, <1>4, <1>5, <1>6, Zenon DEF Next

(* The queue and its client implement the abstract mempool, where the DA   *)
(* start height is known and clean-up writes do not fail: over crashes and *)
(* reloads an accepted transaction stays pending until it is committed or  *)
(* refused on FilterTxs' verdict.                                          *)
THEOREM QueueImplementsMempool ==
    ASSUME DAStartKnown, ~WritesMayFail
    PROVE  Spec => ImplementsMempool
<1>1. Init => RefineInv /\ Abstract!Init
  <2> SUFFICES ASSUME Init PROVE RefineInv /\ Abstract!Init
    BY Zenon
  <2>1. /\ mode = "down" /\ phase = "idle" /\ inFlight = <<>> /\ owed = Stored
        /\ pending = {} /\ committed = {} /\ verdict = NoVerdict
    BY Zenon DEF Init, QueueInit, EmptyMemory
  <2>2. ProtoInv /\ ExactInv
    BY ProtoInit, ExactInit, Zenon
  <2>3. RefineInv
    BY <2>1, <2>2, Zenon DEF RefineInv, LossInv, FlightJudged, OwedHeld, BlockStored
  <2>4. Stored \subseteq Tx
    BY <2>2, Zenon DEF Stored, ProtoInv, IndInv, QueueTypeOK, Batch
  <2> QED BY <2>1, <2>3, <2>4, Zenon DEF Abstract!Init, NoVerdict
<1>2. RefineInv /\ [Next]_vars => RefineInv'
  <2> SUFFICES ASSUME RefineInv, [Next]_vars PROVE RefineInv'
    BY Zenon
  <2>1. LossInv'
    BY ProtoNext, JudgedNext, OwedNext, Zenon DEF RefineInv, LossInv
  <2>2. ExactInv'
    BY ExactNext, Zenon DEF RefineInv
  <2> QED BY <2>1, <2>2, BlockNext, Zenon DEF RefineInv
<1>3. RefineInv /\ RefineInv' /\ [Next]_vars => [Abstract!Next]_(Abstract!mempoolVars)
  BY MempoolStep, Zenon
<1> QED BY <1>1, <1>2, <1>3, PTL DEF Spec, ImplementsMempool, Abstract!Spec
=============================================================================
