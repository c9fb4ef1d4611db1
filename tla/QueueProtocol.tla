--------------------------- MODULE QueueProtocol ---------------------------
(***************************************************************************)
(* The mempool side of block production: the single sequencer hands the    *)
(* batches of its queue to the block executor, which builds a block, saves *)
(* it as pending, commits it, and only then acknowledges the batches; an   *)
(* acknowledgement that failed is retried before the next drain            *)
(* (executor.go, ackCommittedBatch).  A restart drops what the last        *)
(* committed block already holds (sequencer.go,                            *)
(* reconcileQueueWithLastBlock) and finishes a pending block before it     *)
(* asks for a new batch.                                                   *)
(*                                                                         *)
(* A block is the set of its mempool transactions; forced transactions     *)
(* only appear as the reason for a block without mempool transactions.     *)
(***************************************************************************)
EXTENDS BatchQueue

CONSTANT
    DAStartKnown    \* genesis.DAStartHeight > 0: the first batch already looks at DA

ASSUME ProtocolAssumption == DAStartKnown \in BOOLEAN

VARIABLES
    phase,      \* of the goroutine that produces blocks
    verdict,    \* FilterTxs' answer; verdict.ok is the block being built
    catchUp,    \* catchUpState
    pending,    \* durable: the pending record, a set of at most one
    hasPendingBlock,
    lastBlock,  \* durable: the last committed block
    committed,  \* durable: the transactions of all committed blocks
    owed,       \* history: accepted, not committed or dropped by FilterTxs since
    recovered   \* history: transactions of pending blocks taken up at a restart

chainVars == <<lastBlock, committed, owed, recovered>>
blockVars == <<pending, hasPendingBlock>>
producerVars == <<phase, verdict, catchUp, blockVars, chainVars>>
vars == <<queueVars, producerVars>>

Phases == {"idle", "drained", "decided", "saved", "committed"}
NoVerdict == [ok |-> {}, remove |-> {}]

(* The pending record of a block: next says that its height is the one     *)
(* after the last committed block; the rest of a record whose height has   *)
(* passed does not matter.                                                 *)
PendingBlock == [txs : SUBSET Tx, next : BOOLEAN]
Passed == [txs |-> {}, next |-> FALSE]
Usable == {b \in pending : hasPendingBlock /\ b.next}

Init ==
    /\ QueueInit
    /\ phase = "idle"
    /\ verdict = NoVerdict
    /\ catchUp = "unchecked"
    /\ pending = {}
    /\ hasPendingBlock = FALSE
    /\ lastBlock = {}
    /\ committed = {}
    /\ owed = Stored
    /\ recovered = {}

-----------------------------------------------------------------------------
(* The reaper submits what the execution layer's mempool offers, which     *)
(* does not include what has been executed.                                *)
SubmitBatchTxs ==
    /\ \E batch \in Batch :
         /\ batch \cap committed = {}
         /\ AddBatch(batch)
         /\ owed' = owed \cup batch
    /\ UNCHANGED <<phase, verdict, catchUp, blockVars, lastBlock, committed, recovered>>

(* What GetNextBatch's look at DA (fetchNextDAEpoch, updateCatchUpState)   *)
(* may do to the catch-up state: it is decided at the first look, which    *)
(* takes place as soon as a DA height is known, and ends at the DA head.   *)
CatchUpStates ==
    CASE catchUp = "unchecked"  ->
           {"inProgress", "done"} \cup (IF DAStartKnown THEN {} ELSE {"unchecked"})
      [] catchUp = "inProgress" -> {"inProgress", "done"}
      [] catchUp = "done"       -> {"done"}

(* A new batch may follow one whose block was never committed, but not a   *)
(* committed block that is not acknowledged, and a pending block comes     *)
(* first while hasPendingBlock has the store looked at.                    *)
MayBuild == phase \in {"idle", "decided", "saved"} /\ Usable = {}

(* GetNextBatch outside catch-up: Drain, then FilterTxs and SetPostponed.  *)
DrainBatch ==
    /\ MayBuild
    /\ catchUp' \in CatchUpStates \ {"inProgress"}
    /\ Drain
    /\ phase' = "drained"
    /\ verdict' = NoVerdict
    /\ UNCHANGED <<blockVars, chainVars>>

FilterBatch ==
    /\ phase = "drained"
    /\ \E postpone \in SUBSET FlightTxs :
         /\ SetPostponed(postpone)
         /\ \E ok \in SUBSET (FlightTxs \ postpone) :
              verdict' = [ok |-> ok, remove |-> (FlightTxs \ postpone) \ ok]
    /\ phase' = "decided"
    /\ UNCHANGED <<catchUp, blockVars, chainVars>>

(* GetNextBatch during catch-up: no Drain; a block of forced transactions, *)
(* or no block (ErrNoBatch).                                               *)
SkipMempool ==
    /\ MayBuild
    /\ "inProgress" \in CatchUpStates
    /\ catchUp' = "inProgress"
    /\ SetPostponed({})
    /\ phase' \in {"idle", "decided"}
    /\ verdict' = NoVerdict
    /\ UNCHANGED <<blockVars, chainVars>>

(* savePendingBlock, before the block is executed.                         *)
SavePending ==
    /\ mode = "up"
    /\ phase = "decided"
    /\ phase' = "saved"
    /\ pending' = {[txs |-> verdict.ok, next |-> TRUE]}
    /\ UNCHANGED <<queueVars, verdict, catchUp, hasPendingBlock, chainVars>>

(* ProduceBlock takes up a pending block instead of asking for a batch; a  *)
(* retry after an error then has the same block.                           *)
UsePending ==
    /\ mode = "up"
    /\ phase = "idle"
    /\ \E b \in Usable : /\ verdict' = [ok |-> b.txs, remove |-> {}]
                         /\ recovered' = recovered \cup b.txs
    /\ phase' = "saved"
    /\ UNCHANGED <<queueVars, catchUp, blockVars, lastBlock, committed, owed>>

(* The block becomes durable in one store batch.  The pending record stays *)
(* where it is, with a height that has passed.                             *)
CommitBlock ==
    /\ mode = "up"
    /\ phase = "saved"
    /\ phase' = "committed"
    /\ lastBlock' = verdict.ok
    /\ committed' = committed \cup verdict.ok
    /\ owed' = owed \ verdict.ok
    /\ pending' = {Passed}
    /\ hasPendingBlock' = FALSE
    /\ UNCHANGED <<queueVars, verdict, catchUp, recovered>>

(* ackCommittedBatch, also its retries.                                    *)
AckBatch ==
    /\ phase = "committed"
    /\ Ack
    /\ phase' = "idle"
    /\ verdict' = NoVerdict
    /\ owed' = owed \ verdict.remove
    /\ UNCHANGED <<catchUp, blockVars, lastBlock, committed, recovered>>

AckBatchFails ==
    /\ phase = "committed"
    /\ AckDeleteFails
    /\ UNCHANGED producerVars

(* The process dies, or stops: Stop deletes the pending record unless      *)
(* hasPendingBlock is set.                                                 *)
LoseProducer ==
    /\ phase' = "idle"
    /\ verdict' = NoVerdict
    /\ catchUp' = "unchecked"
    /\ hasPendingBlock' = FALSE
    /\ UNCHANGED chainVars

CrashNode ==
    /\ Crash
    /\ UNCHANGED pending
    /\ LoseProducer

StopNode ==
    /\ mode = "up"
    /\ Crash
    /\ pending' = IF hasPendingBlock THEN pending ELSE {}
    /\ LoseProducer

(* NewSequencer: Load, then reconcileQueueWithLastBlock; the executor then *)
(* looks for a pending block (initializeState).                            *)
RestartSequencer ==
    \/ /\ Restart \/ DropIncluded(lastBlock)
       /\ UNCHANGED producerVars
    \/ /\ ReconcileDone
       /\ hasPendingBlock' = (pending # {})
       /\ UNCHANGED <<phase, verdict, catchUp, pending, chainVars>>

Next ==
    \/ SubmitBatchTxs
    \/ DrainBatch
    \/ FilterBatch
    \/ SkipMempool
    \/ SavePending
    \/ UsePending
    \/ CommitBlock
    \/ AckBatch
    \/ AckBatchFails
    \/ CrashNode
    \/ StopNode
    \/ RestartSequencer

Spec == Init /\ [][Next]_vars

(* The goroutine that produces blocks keeps running and a start-up makes   *)
(* progress.  Catch-up reaches the DA head, building a block does not fail *)
(* for ever, an acknowledgement is retried, and forced transactions do not *)
(* crowd every mempool transaction out of every block: on its own          *)
(* FilterTxs never postpones the first transaction that fits.              *)
FilterSome == FilterBatch /\ inFlightPostponed' # FlightTxs

Fairness ==
    /\ WF_vars(RestartSequencer)
    /\ SF_vars(DrainBatch)
    /\ WF_vars(FilterBatch)
    /\ SF_vars(FilterSome)
    /\ SF_vars(SavePending)
    /\ WF_vars(UsePending)
    /\ SF_vars(CommitBlock)
    /\ WF_vars(AckBatch)

FairSpec == Spec /\ Fairness

-----------------------------------------------------------------------------
(* Type invariant.                                                         *)
TypeOK ==
    /\ QueueTypeOK
    /\ phase \in Phases
    /\ verdict \in [ok : SUBSET Tx, remove : SUBSET Tx]
    /\ catchUp \in {"unchecked", "inProgress", "done"}
    /\ pending \in {{}} \cup {{b} : b \in PendingBlock}
    /\ hasPendingBlock => pending # {}
    /\ lastBlock \subseteq committed
    /\ committed \subseteq Tx
    /\ owed \subseteq Tx
    /\ recovered \subseteq Tx

(* No transaction is lost: one that was accepted stays in the datastore,   *)
(* over failed acknowledgements, failed clean-ups, rollbacks, crashes and  *)
(* recovered blocks, until it is committed or the acknowledgement of a     *)
(* committed block drops it on FilterTxs' verdict.  Postponed transactions *)
(* are the ones at risk, and batches left in flight by a block that never  *)
(* made it.                                                                *)
NeverLost == owed \subseteq Stored

(* A block never holds a transaction that is already on chain, unless it   *)
(* came there with a pending block taken up at a restart: Ack,             *)
(* reconcileQueueWithLastBlock and the dedup on reload keep what a crash   *)
(* left in the WAL out of later blocks.                                    *)
NoReinclusion ==
    phase \in {"decided", "saved"} => (verdict.ok \cap committed) \subseteq recovered

(* The queue and its client implement the abstract mempool: what is stored *)
(* and not on chain is what is pending.                                    *)
Abstract == INSTANCE Mempool WITH
    pending <- Stored \ committed, onChain <- committed, rejected <- verdict.remove

ImplementsMempool == Abstract!Spec

(* If the node eventually stays up (and has numbers left to file postponed *)
(* batches under, a limit of the bounded key space only), every accepted   *)
(* transaction is eventually committed or refused: a postponed or          *)
(* rolled-back entry is offered again and entries behind it are not        *)
(* starved.                                                                *)
EventuallySettled ==
    <>[](mode = "up" /\ nextPrependSeq > 0) =>
        \A t \in Tx : []<>(t \notin owed)
=============================================================================
