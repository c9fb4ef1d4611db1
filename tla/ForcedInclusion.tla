--------------------------- MODULE ForcedInclusion ---------------------------
(***************************************************************************)
(* Forced inclusion: the single sequencer reads the transactions that were *)
(* posted to the DA layer, an epoch of DA blocks at a time, and puts them  *)
(* in its blocks, tracking its place with a checkpoint                     *)
(* (pkg/sequencers/single/sequencer.go, block/internal/da/                 *)
(* forced_inclusion_retriever.go, types/epoch.go), together with the part  *)
(* of block production that decides whether a batch becomes a block.       *)
(*                                                                         *)
(* A forced transaction is its place on DA, <<DA height, index>>; those    *)
(* that FilterTxs removes are left out, so every one should reach the      *)
(* chain.  Mempool transactions are in QueueProtocol, time stamps in       *)
(* BatchTime.                                                              *)
(***************************************************************************)
EXTENDS Integers, Sequences, SequencesExt

CONSTANTS
    StartHeights,   \* values of genesis.DAStartHeight, 0 if it is not set
    EpochSize,      \* genesis.DAEpochForcedInclusion
    MaxDAHeight,    \* bound: DA blocks
    MaxPerHeight,   \* bound: forced transactions in a DA block
    MaxChain,       \* bound: forced transactions on the chain
    MaxFaults       \* bound: crashes, stops, errors and failed requests

ASSUME ForcedAssumption ==
    /\ StartHeights \subseteq Nat
    /\ EpochSize \in Nat \ {0}
    /\ {MaxDAHeight, MaxPerHeight, MaxChain, MaxFaults} \subseteq Nat

VARIABLES
    \* the DA layer
    blobs,          \* number of forced transactions at each height, now or later
    daHead,
    \* durable
    daStartHeight,  \* genesis.DAStartHeight
    savedCheckpoint,
    stateDAHeight,  \* DAHeight of the state committed with the last block
    genesisDA,      \* GenesisDAHeightKey, 0 if unset
    daIncluded,     \* whether the submitter has recorded the first block as included
    pending,        \* the pending block record, a set of at most one
    chain,          \* forced transactions of the committed blocks, in order
    firstDA,        \* least DA height that can hold the first block, 0 if none
                    \* is committed
    \* lost in a crash
    up,
    daHeight,
    checkpoint,
    retrieverStart, \* start height of the forced inclusion retriever
    cachedTxs,         \* cachedForcedInclusionTxs
    catchUp,
    hasPendingBlock,
    step,           \* of ProduceBlock: "idle", "batched", "saved"
    batch,          \* forced transactions of the block in hand
    \* history
    slips,          \* what has gone wrong between a fetch and its block
    faults          \* how often the process went down or something failed

daVars == <<blobs, daHead, daStartHeight>>
storeVars == <<savedCheckpoint, stateDAHeight, genesisDA, daIncluded, pending, chain, firstDA>>
sequencerVars == <<daHeight, checkpoint, retrieverStart, cachedTxs, catchUp>>
produceVars == <<hasPendingBlock, step, batch>>
historyVars == <<slips, faults>>
vars == <<daVars, storeVars, up, sequencerVars, produceVars, historyVars>>

DAHeight == 1..MaxDAHeight
NoCheckpoint == [da |-> 0, index |-> 0]
Passed == [next |-> FALSE, txs |-> <<>>]

(* A batch was consumed and its block not saved, because of a crash or of  *)
(* an error; a DA request failed while an epoch was fetched; an epoch was  *)
(* finished while daHeight was not the checkpoint's; the process went down *)
(* with the genesis DA height reported and no block committed since.       *)
Slips == {"crash", "error", "daError", "displaced", "forgotten"}
Fault == faults < MaxFaults /\ faults' = faults + 1
Unsaved == step = "batched" \/ (step = "saved" /\ ~hasPendingBlock)
Forgets == daIncluded /\ stateDAHeight = 0

-----------------------------------------------------------------------------
(* types/epoch.go.                                                         *)
EpochNumber(h, start) == IF h < start THEN 0 ELSE (h - start) \div EpochSize + 1
EpochStart(h, start) == start + (EpochNumber(h, start) - 1) * EpochSize
EpochEnd(h, start) == start + EpochNumber(h, start) * EpochSize - 1

(* What was posted at a DA height, and the stream of everything posted     *)
(* from one height to another.                                             *)
Posted(h) == [i \in 1..blobs[h] |-> <<h, i>>]
Stream(from, to) == FlattenSeq([k \in 1..(to - from + 1) |-> Posted(from + k - 1)])

(* The DA height at which forced inclusion starts.                         *)
InclusionStart == IF daStartHeight # 0 THEN daStartHeight ELSE genesisDA

Init ==
    /\ blobs \in [DAHeight -> 0..MaxPerHeight]
    /\ daHead = 0
    /\ daStartHeight \in StartHeights
    /\ savedCheckpoint = NoCheckpoint
    /\ stateDAHeight = daStartHeight
    /\ genesisDA = 0
    /\ daIncluded = FALSE
    /\ pending = {}
    /\ chain = <<>>
    /\ firstDA = 0
    /\ up = FALSE
    /\ daHeight = 0
    /\ checkpoint = NoCheckpoint
    /\ retrieverStart = 0
    /\ cachedTxs = <<>>
    /\ catchUp = "unchecked"
    /\ hasPendingBlock = FALSE
    /\ step = "idle"
    /\ batch = <<>>
    /\ slips = {}
    /\ faults = 0

DAGrows ==
    /\ daHead < MaxDAHeight
    /\ daHead' = daHead + 1
    /\ UNCHANGED <<blobs, daStartHeight, storeVars, up, sequencerVars, produceVars, historyVars>>

(* NewSequencer and the executor's initializeState, which sets daHeight    *)
(* from the committed state and looks for a pending record.                *)
\* mutant: the saved checkpoint is not loaded
Start_NoCheckpoint ==
    /\ ~up
    /\ up' = TRUE
    /\ daHeight' = stateDAHeight
    /\ checkpoint' = [da |-> daStartHeight, index |-> 0]
    /\ retrieverStart' = InclusionStart
    /\ cachedTxs' = <<>>
    /\ catchUp' = "unchecked"
    /\ hasPendingBlock' = (pending # {})
    /\ UNCHANGED <<daVars, storeVars, step, batch, historyVars>>
Start ==
    /\ ~up
    /\ up' = TRUE
    /\ daHeight' = stateDAHeight
    /\ checkpoint' = IF savedCheckpoint = NoCheckpoint
                     THEN [da |-> daStartHeight, index |-> 0] ELSE savedCheckpoint
    /\ retrieverStart' = InclusionStart
    /\ cachedTxs' = <<>>
    /\ catchUp' = "unchecked"
    /\ hasPendingBlock' = (pending # {})
    /\ UNCHANGED <<daVars, storeVars, step, batch, historyVars>>

-----------------------------------------------------------------------------
(* GetNextBatch, first part: an epoch is fetched if none is in hand.  The  *)
(* outcome is a record of everything the rest depends on.                  *)
Bootstrap == daHeight > 0 /\ checkpoint.da = 0

\* mutant: every known DA height replaces the checkpoint
Position_Always == IF daHeight > 0 THEN [da |-> daHeight, index |-> 0] ELSE checkpoint
Position == IF Bootstrap THEN [da |-> daHeight, index |-> 0] ELSE checkpoint
FetchStart == IF Bootstrap THEN InclusionStart ELSE retrieverStart
MustFetch == daHeight > 0 /\ (cachedTxs = <<>> \/ Position.index >= Len(cachedTxs))

(* updateCatchUpState, at the first fetch of a process: catch-up begins if *)
(* the DA head is in a later epoch than the checkpoint.  A DA layer that   *)
(* does not answer counts as no catch-up.                                  *)
Behind ==
    /\ daHead > Position.da
    /\ EpochNumber(daHead, daStartHeight) # EpochNumber(Position.da, daStartHeight)
CatchUpChecked ==
    IF catchUp # "unchecked" THEN {catchUp}
    ELSE {IF Behind THEN "inProgress" ELSE "done", "done"}

(* RetrieveForcedIncludedTxs at the checkpoint.  The transactions of an    *)
(* epoch are fetched when its last height is reached; the other heights    *)
(* give an empty event at once.  An event carries the time of DA height    *)
(* "stamp", none if that is 0.                                             *)
AtEpochEnd == Position.da = EpochEnd(Position.da, FetchStart)
Event(txs, end, state, stamps) ==
    [txs : {txs}, end : {end}, catchUp : state, stamp : stamps, failed : {FALSE}]

NotFetched == Event(cachedTxs, daHeight, {catchUp}, {0})
EmptyEvents == Event(<<>>, Position.da, CatchUpChecked, {0})
EpochHeights == EpochStart(Position.da, FetchStart)..Position.da
EpochEvents ==
    Event(Stream(EpochStart(Position.da, FetchStart), Position.da), Position.da,
          CatchUpChecked, {Position.da})

(* ErrHeightFromFuture ends catch-up; no event, and daHeight counts as 0.  *)
\* mutant: an epoch that is not complete counts as an empty one
FutureEvents_Skips == EmptyEvents
FutureEvents ==
    Event(cachedTxs, 0, {IF s = "inProgress" THEN "done" ELSE s : s \in CatchUpChecked}, {0})

(* A failed request: the error is logged ("retrying next iteration") and   *)
(* an empty event returned, with the time of a height that was retrieved.  *)
ErrorEvents ==
    [txs : {<<>>}, end : {Position.da}, catchUp : CatchUpChecked,
     stamp : {0} \cup {h \in EpochHeights : h <= daHead}, failed : {TRUE}]

Fetched ==
    IF ~MustFetch THEN NotFetched
    ELSE IF ~AtEpochEnd THEN EmptyEvents
    ELSE (IF Position.da > daHead THEN FutureEvents ELSE EpochEvents)
           \cup ErrorEvents

(* GetNextBatch, second part: consume forced transactions from the         *)
(* checkpoint position on, at least one and until FilterTxs postpones one, *)
(* then advance the checkpoint and save it.  During catch-up a batch       *)
(* without transactions is no batch (ErrNoBatch).                          *)
Forced(e) == SubSeq(e.txs, Position.index + 1, Len(e.txs))
ConsumedCounts(e) ==
    IF Forced(e) = <<>> THEN {0} ELSE 1..Len(Forced(e))

Usable == {b \in pending : hasPendingBlock /\ b.next}
Idle == up /\ step = "idle"

NextPosition(e, n) ==
    IF Position.index + n >= Len(e.txs) THEN [da |-> e.end + 1, index |-> 0]
    ELSE [da |-> Position.da, index |-> Position.index + n]

Moves(e) == e.end > 0 \/ Forced(e) # <<>>
Exhausted(e, n) == Moves(e) /\ Position.index + n >= Len(e.txs)
FetchSlips(e, n) ==
    {s \in {"daError"} : e.failed}
      \cup {s \in {"displaced"} : Exhausted(e, n) /\ e.end # Position.da}

Advance(e, n) ==
    /\ Idle
    /\ Usable = {}
    /\ MustFetch => Position.da \in FetchStart..MaxDAHeight    \* bound: DA blocks
    /\ checkpoint' = IF Moves(e) THEN NextPosition(e, n) ELSE Position
    /\ cachedTxs' = IF Exhausted(e, n) THEN <<>> ELSE e.txs
    /\ daHeight' = IF Exhausted(e, n) THEN e.end + 1 ELSE daHeight
    /\ retrieverStart' = FetchStart
    /\ catchUp' = e.catchUp

GetNextBatch(e, n) ==
    /\ Advance(e, n)
    /\ savedCheckpoint' = IF Moves(e) THEN checkpoint' ELSE savedCheckpoint
    /\ IF e.catchUp = "inProgress" /\ n = 0
       THEN UNCHANGED <<step, batch>>
       ELSE step' = "batched" /\ batch' = SubSeq(Forced(e), 1, n)
    /\ slips' = slips \cup FetchSlips(e, n)
    /\ IF e.failed THEN Fault ELSE UNCHANGED faults
    /\ UNCHANGED <<daVars, stateDAHeight, genesisDA, daIncluded, pending, chain, firstDA,
                   up, hasPendingBlock>>

(* The checkpoint cannot be saved: GetNextBatch returns an error.          *)
SaveCheckpointFails(e, n) ==
    /\ Moves(e)
    /\ Advance(e, n)
    /\ slips' = slips \cup FetchSlips(e, n) \cup {"error"}
    /\ Fault
    /\ UNCHANGED <<daVars, storeVars, up, produceVars>>

-----------------------------------------------------------------------------
(* The rest of ProduceBlock; Executor has its steps in full.               *)
UsePending ==
    /\ Idle
    /\ \E b \in Usable : batch' = b.txs
    /\ step' = "saved"
    /\ UNCHANGED <<daVars, storeVars, up, sequencerVars, hasPendingBlock, historyVars>>

SavePending ==
    /\ step = "batched"
    /\ pending' = {[next |-> TRUE, txs |-> batch]}
    /\ step' = "saved"
    /\ UNCHANGED <<daVars, savedCheckpoint, stateDAHeight, genesisDA, daIncluded, chain, firstDA,
                   up, sequencerVars, hasPendingBlock, batch, historyVars>>

CommitBlock ==
    /\ step = "saved"
    /\ Len(chain \o batch) <= MaxChain     \* bound
    /\ chain' = chain \o batch
    /\ firstDA' = IF firstDA = 0 THEN daHead + 1 ELSE firstDA
    /\ stateDAHeight' = daHeight
    /\ pending' = {Passed}
    /\ hasPendingBlock' = FALSE
    /\ step' = "idle"
    /\ batch' = <<>>
    /\ UNCHANGED <<daVars, savedCheckpoint, genesisDA, daIncluded, up, sequencerVars, historyVars>>

ProduceFails ==
    /\ step # "idle"
    /\ slips' = slips \cup {s \in {"error"} : Unsaved}
    /\ Fault
    /\ step' = "idle"
    /\ batch' = <<>>
    /\ UNCHANGED <<daVars, storeVars, up, sequencerVars, hasPendingBlock>>

GoDown ==
    /\ up' = FALSE
    /\ daHeight' = 0
    /\ checkpoint' = NoCheckpoint
    /\ retrieverStart' = 0
    /\ cachedTxs' = <<>>
    /\ catchUp' = "unchecked"
    /\ hasPendingBlock' = FALSE
    /\ step' = "idle"
    /\ batch' = <<>>
    /\ UNCHANGED <<daVars, savedCheckpoint, stateDAHeight, genesisDA, daIncluded, chain, firstDA>>

CrashNode ==
    /\ up
    /\ slips' = slips \cup {s \in {"crash"} : step = "batched"}
                    \cup {s \in {"forgotten"} : Forgets}
    /\ Fault
    /\ GoDown
    /\ UNCHANGED pending

(* Executor.Stop deletes the pending record unless the flag is set.        *)
Stop ==
    /\ up
    /\ slips' = slips \cup {s \in {"error"} : Unsaved} \cup {s \in {"forgotten"} : Forgets}
    /\ Fault
    /\ GoDown
    /\ pending' = IF hasPendingBlock THEN pending ELSE {}

(* The submitter finds the first block included on DA and reports its DA   *)
(* height to the sequencer (setNodeHeightToDAHeight), again and again      *)
(* until it has recorded the block as included.                            *)
GenesisIncluded ==
    /\ up
    /\ firstDA > 0
    /\ ~daIncluded
    /\ genesisDA' \in IF genesisDA # 0 THEN {genesisDA}
                      ELSE firstDA..daHead
    /\ daHeight' = genesisDA'
    /\ \/ daIncluded' = TRUE /\ UNCHANGED faults
       \/ daIncluded' = FALSE /\ Fault
    /\ UNCHANGED <<daVars, savedCheckpoint, stateDAHeight, pending, chain, firstDA, up,
                   checkpoint, retrieverStart, cachedTxs, catchUp, produceVars, slips>>

NextBatch == \E e \in Fetched : \E n \in ConsumedCounts(e) : GetNextBatch(e, n)
NextBatchFails == \E e \in Fetched : \E n \in ConsumedCounts(e) : SaveCheckpointFails(e, n)

Next ==
    \/ DAGrows
    \/ Start
    \/ NextBatch
    \/ NextBatchFails
    \/ UsePending
    \/ SavePending
    \/ CommitBlock
    \/ ProduceFails
    \/ CrashNode
    \/ Stop
    \/ GenesisIncluded

Spec == Init /\ [][Next]_vars

(* The production loop runs, the DA layer grows, and a node that went down *)
(* is started again.                                                       *)
FairSpec ==
    /\ Spec
    /\ WF_vars(DAGrows)
    /\ WF_vars(Start \/ NextBatch \/ UsePending \/ SavePending \/ CommitBlock)

-----------------------------------------------------------------------------
(* Type invariant.                                                         *)
ForcedTx == DAHeight \X (1..MaxPerHeight)
TypeOK ==
    /\ daHead \in 0..MaxDAHeight
    /\ savedCheckpoint.da \in 0..(MaxDAHeight + 1) /\ savedCheckpoint.index \in Nat
    /\ checkpoint.da \in 0..(MaxDAHeight + 1)
    /\ checkpoint.index = 0 \/ checkpoint.index \in 1..(EpochSize * MaxPerHeight - 1)
    /\ {stateDAHeight, genesisDA, firstDA, daHeight, retrieverStart} \subseteq 0..(MaxDAHeight + 1)
    /\ cachedTxs \in Seq(ForcedTx) /\ chain \in Seq(ForcedTx) /\ batch \in Seq(ForcedTx)
    /\ \A b \in pending : b.txs \in Seq(ForcedTx) /\ b.next \in BOOLEAN
    /\ catchUp \in {"unchecked", "inProgress", "done"}
    /\ step \in {"idle", "batched", "saved"}
    /\ {up, daIncluded, hasPendingBlock} \subseteq BOOLEAN
    /\ slips \subseteq Slips
    /\ faults \in 0..MaxFaults

(* The chain takes up the DA layer's forced transactions one after the     *)
(* other: none is skipped, repeated or out of place, over epochs that need *)
(* several blocks, catch-up, a start height learnt late, crashes and       *)
(* restarts, as long as no batch was dropped, no DA request failed and no  *)
(* epoch was finished with a daHeight that is not its own.                 *)
InOrder == chain # <<>> => IsPrefix(chain, Stream(InclusionStart, MaxDAHeight))
ForcedInOrder == slips \subseteq {"forgotten"} => InOrder

(* Also if batches are dropped or DA requests fail, a forced transaction   *)
(* is never on the chain twice and never after a later one.                *)
Before(a, b) == a[1] < b[1] \/ (a[1] = b[1] /\ a[2] < b[2])
NeverTwice ==
    "displaced" \notin slips =>
        \A i, j \in 1..Len(chain) : i < j => Before(chain[i], chain[j])

(* Every forced transaction of an epoch that DA has completed reaches the  *)
(* chain and stays, over crashes, restarts and resets that come to an end. *)
AllIncluded ==
    \A h \in DAHeight :
        (/\ InclusionStart > 0 /\ h >= InclusionStart
         /\ EpochEnd(h, InclusionStart) <= daHead)
            => ToSet(Posted(h)) \subseteq ToSet(chain)
ForcedEventually == <>[](slips # {} \/ AllIncluded)

(* A DA request that fails is repeated, and costs no forced transaction.   *)
DAErrorsHarmless == slips \subseteq {"daError"} => InOrder
=============================================================================
