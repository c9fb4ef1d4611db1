------------------------------ MODULE BatchTime ------------------------------
(***************************************************************************)
(* The time stamps of the single sequencer's blocks, on top of             *)
(* ForcedInclusion: a batch with forced transactions is stamped from its   *)
(* DA epoch, every other batch from the wall clock, and a block whose time *)
(* is before its predecessor's is refused and halts the node               *)
(* (pkg/sequencers/single/sequencer.go, block/internal/executing/          *)
(* executor.go, types/state.go).  Times are in milliseconds since genesis. *)
(***************************************************************************)
EXTENDS ForcedInclusion

CONSTANTS
    DAInterval,     \* time between two DA blocks
    MaxClock        \* bound: wall clock

ASSUME TimeAssumption == DAInterval \in Nat /\ MaxClock \in Nat

VARIABLES
    clock,
    lastBlockTime,  \* durable: State.LastBlockTime
    pendingTime,    \* durable: time of the pending block
    currentDAEndTime,
    blockTime       \* time of the block in hand

timeVars == <<lastBlockTime, pendingTime, currentDAEndTime, blockTime>>
tvars == <<vars, clock, timeVars>>

GenesisTime == 0
DATime(h) == h * DAInterval

TimedInit ==
    /\ Init
    /\ clock = GenesisTime
    /\ lastBlockTime = GenesisTime
    /\ pendingTime = GenesisTime
    /\ currentDAEndTime = GenesisTime
    /\ blockTime = GenesisTime

Tick ==
    /\ clock < MaxClock
    /\ clock' = clock + 1
    /\ UNCHANGED <<vars, timeVars>>

TimedDAGrows ==
    /\ clock >= DATime(daHead + 1)
    /\ DAGrows
    /\ UNCHANGED <<clock, timeVars>>

TimedStart == Start /\ UNCHANGED <<clock, timeVars>>

(* fetchNextDAEpoch and updateCatchUpState: the end time of the epoch in   *)
(* hand never goes back, and entering catch-up raises it to the time of    *)
(* the last block.                                                         *)
Later(s, t) == IF t > s THEN t ELSE s
EntersCatchUp(e) == catchUp = "unchecked" /\ e.catchUp = "inProgress"
DAEndTime(e) ==
    Later(IF EntersCatchUp(e) THEN Later(currentDAEndTime, lastBlockTime) ELSE currentDAEndTime,
          DATime(e.stamp))

(* The time of a batch: forced transactions are spread over the            *)
(* milliseconds before the end of their epoch.                             *)
\* mutant: the transactions of earlier blocks of the epoch are not counted
Timestamp_Total(e, n) == IF n > 0 THEN DAEndTime(e) - Len(e.txs) + n ELSE clock
Timestamp(e, n) ==
    IF n > 0 THEN DAEndTime(e) - Len(e.txs) + Position.index + n ELSE clock

(* CreateBlock: the first block has the genesis time.                      *)
TimedGetNextBatch(e, n) ==
    /\ GetNextBatch(e, n)
    /\ currentDAEndTime' = DAEndTime(e)
    /\ blockTime' = IF step' = "idle" \/ firstDA = 0 THEN GenesisTime ELSE Timestamp(e, n)
    /\ UNCHANGED <<clock, lastBlockTime, pendingTime>>
TimedNextBatch == \E e \in Fetched : \E n \in ConsumedCounts(e) : TimedGetNextBatch(e, n)

(* GetNextBatch fails on the save of the checkpoint, after the fetch.      *)
TimedNextBatchFails ==
    /\ \E e \in Fetched : \E n \in ConsumedCounts(e) :
         SaveCheckpointFails(e, n) /\ currentDAEndTime' = DAEndTime(e)
    /\ UNCHANGED <<clock, lastBlockTime, pendingTime, blockTime>>

TimedUsePending ==
    /\ UsePending
    /\ blockTime' = pendingTime
    /\ UNCHANGED <<clock, lastBlockTime, pendingTime, currentDAEndTime>>

TimedSavePending ==
    /\ SavePending
    /\ pendingTime' = blockTime
    /\ UNCHANGED <<clock, lastBlockTime, currentDAEndTime, blockTime>>

(* AssertValidSequence: a block is committed only if its time is not       *)
(* before the last one's; otherwise the error is critical and the node     *)
(* halts.                                                                  *)
ValidSequence == firstDA = 0 \/ blockTime >= lastBlockTime

TimedCommitBlock ==
    /\ ValidSequence
    /\ CommitBlock
    /\ lastBlockTime' = blockTime
    /\ blockTime' = GenesisTime
    /\ UNCHANGED <<clock, pendingTime, currentDAEndTime>>

TimedProduceFails ==
    /\ ProduceFails
    /\ blockTime' = GenesisTime
    /\ UNCHANGED <<clock, lastBlockTime, pendingTime, currentDAEndTime>>

TimedGenesisIncluded == GenesisIncluded /\ UNCHANGED <<clock, timeVars>>

TimedDown ==
    /\ currentDAEndTime' = GenesisTime
    /\ blockTime' = GenesisTime
    /\ UNCHANGED <<clock, lastBlockTime, pendingTime>>

TimedHalt ==
    /\ step = "saved"
    /\ ~ValidSequence
    /\ GoDown
    /\ pending' = IF hasPendingBlock THEN pending ELSE {}
    /\ slips' = slips \cup {s \in {"error"} : Unsaved}
    /\ Fault
    /\ TimedDown

TimedCrash == CrashNode /\ TimedDown
TimedStop == Stop /\ TimedDown

TimedNext ==
    \/ Tick
    \/ TimedDAGrows
    \/ TimedStart
    \/ TimedNextBatch
    \/ TimedNextBatchFails
    \/ TimedUsePending
    \/ TimedSavePending
    \/ TimedCommitBlock
    \/ TimedProduceFails
    \/ TimedHalt
    \/ TimedCrash
    \/ TimedStop
    \/ TimedGenesisIncluded

TimedSpec == TimedInit /\ [][TimedNext]_tvars

-----------------------------------------------------------------------------
(* No block is stamped later than the wall clock at which it was made,     *)
(* whatever epochs are being caught up with.                               *)
NoFutureTime == blockTime <= clock /\ lastBlockTime <= clock

(* As long as no block was stamped after an epoch's end, the blocks of its *)
(* forced transactions run up to the DA time at which it ended, the last   *)
(* one exactly on it, also when a restart falls between them.              *)
ForcedTimesMatchEpoch ==
    \A t \in ToSet(batch) :
        LET end == DATime(EpochEnd(t[1], InclusionStart))
        IN  (firstDA > 0 /\ step = "batched" /\ lastBlockTime <= end)
                => /\ blockTime <= end
                   /\ cachedTxs = <<>> => blockTime = end

(* A block is never stamped before the block it follows: no block of the   *)
(* sequencer's is refused for its time.                                    *)
TimesNeverRegress == step = "saved" => ValidSequence
=============================================================================
