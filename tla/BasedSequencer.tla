--------------------------- MODULE BasedSequencer ---------------------------
(* The based sequencer (pkg/sequencers/based): every block is made of the       *)
(* transactions the DA layer orders, read an epoch at a time; only a checkpoint *)
(* of the place in that stream is kept.  It is composed with the steps of       *)
(* ProduceBlock that make a batch a block, and with restarts.                   *)
(*                                                                              *)
(* A transaction is its place on DA, <<height, index>>, all of one size; those  *)
(* FilterTxs would remove are marked.                                           *)
EXTENDS Integers, Sequences, FiniteSets, SequencesExt, FiniteSetsExt

CONSTANTS
  BasedEpoch,    \* genesis.DAEpochForcedInclusion
  BasedHeights,  \* bound: DA blocks
  BasedPosts,    \* what may be posted at a height: sequences of BOOLEAN, TRUE if valid
  BlockTxs,      \* valid transactions that fit a block
  DABlockTime,   \* time between DA blocks, in units of the time stamp jitter
  BasedFaults    \* bound: crashes and failed requests

ASSUME BasedAssumption ==
  /\ {BasedEpoch, BlockTxs} \subseteq Nat \ {0} /\ {BasedHeights, BasedFaults, DABlockTime} \subseteq Nat
  /\ \A p \in BasedPosts : BasedEpoch * Len(p) < DABlockTime

VARIABLES
  bPosted, bHead,  \* the DA layer
  bSaved,          \* the stored checkpoint, a set of at most one
  bStateDA,        \* state.DAHeight of the last block
  bPending,        \* the pending block, a set of at most one
  bChain,          \* blocks, each with its transactions and time
  bUp, bDaHeight, bCheckpoint, bTxs, bCount, bEndTime,  \* BasedSequencer
  bBatch,          \* the batch in hand, a set of at most one
  bSlips, bFaults  \* history: what went wrong between a fetch and its block

bDAVars == <<bPosted, bHead>>
bSeqVars == <<bDaHeight, bCheckpoint, bTxs, bCount, bEndTime>>
bStored == <<bSaved, bStateDA, bPending, bChain>>
bVars == <<bDAVars, bStored, bUp, bSeqVars, bBatch, bSlips, bFaults>>

DAStartHeight == 1
Fault == bFaults < BasedFaults /\ bFaults' = bFaults + 1
ForcedAt(h) == [i \in DOMAIN bPosted[h] |-> <<h, i>>]
Valid(t) == bPosted[t[1]][t[2]]
EpochEndOf(h) == ((h - DAStartHeight) \div BasedEpoch + 1) * BasedEpoch + DAStartHeight - 1
EpochTxs(end) == FlattenSeq([k \in 1..BasedEpoch |-> ForcedAt(end - BasedEpoch + k)])

BInit ==
  /\ bPosted \in [1..BasedHeights -> BasedPosts] /\ bHead = 0
  /\ bSaved = {} /\ bStateDA = DAStartHeight /\ bPending = {} /\ bChain = <<>>
  /\ bUp = FALSE /\ bDaHeight = 0 /\ bCheckpoint = [da |-> 0, index |-> 0]
  /\ bTxs = <<>> /\ bCount = 0 /\ bEndTime = 0 /\ bBatch = {} /\ bSlips = {} /\ bFaults = 0

DAGrowsBased ==
  /\ bHead < BasedHeights /\ bHead' = bHead + 1
  /\ UNCHANGED <<bPosted, bStored, bUp, bSeqVars, bBatch, bSlips, bFaults>>

Resumed == IF bSaved = {} THEN [da |-> bStateDA, index |-> 0] ELSE CHOOSE c \in bSaved : TRUE

\* NewBasedSequencer, and the executor's SetDAHeight with the height of the state.
NewBasedSequencer ==
  /\ ~bUp /\ bUp' = TRUE /\ bDaHeight' = bStateDA /\ bCheckpoint' = Resumed
  /\ bTxs' = <<>> /\ bCount' = 0 /\ bEndTime' = 0
  /\ UNCHANGED <<bDAVars, bStored, bBatch, bSlips, bFaults>>

OnDA(h) == h <= bHead

\* What fetchNextDAEpoch returns: nothing while the epoch is not complete on DA,
\* an empty event between epoch ends.
EpochFetched ==
  LET h == bCheckpoint.da
  IN IF h # EpochEndOf(h) THEN [end |-> h, txs |-> <<>>, time |-> 0]
     ELSE IF ~OnDA(h) THEN [end |-> 0, txs |-> <<>>, time |-> 0]
     ELSE [end |-> h, txs |-> EpochTxs(h), time |-> h * DABlockTime]

NeedsFetch == bDaHeight > 0 /\ bCheckpoint.index >= Len(bTxs)

Left(txs) == SubSeq(txs, bCheckpoint.index + 1, Len(txs))

\* The filter loop: all up to the first valid transaction that does not fit.
Consumed(txs) ==
  Max({n \in 0..Len(txs) : Len(SelectSeq(SubSeq(txs, 1, n), Valid)) <= BlockTxs})

TimeIndex(index, count) == index

\* mutant: the checkpoint is moved to the next height as soon as some are consumed.
Advanced_Early(index, txs, daHeight) ==
  IF index > 0 \/ txs = <<>> THEN [da |-> daHeight + 1, index |-> 0] ELSE [bCheckpoint EXCEPT !.index = index]

Advanced(index, txs, daHeight) ==
  IF index >= Len(txs) THEN [da |-> daHeight + 1, index |-> 0] ELSE [bCheckpoint EXCEPT !.index = index]

\* The rest of GetNextBatch, with the transactions of the epoch and the DA height
\* the call works on; filtering may fail, and then all of them go in.
BatchWith(txs, count, endTime, daHeight, unfiltered, slip) ==
  LET left == Left(txs)
      n == IF unfiltered THEN Len(left) ELSE Consumed(left)
      taken == SubSeq(left, 1, n)
      batch == IF unfiltered THEN taken ELSE SelectSeq(taken, Valid)
      acts == daHeight > 0 \/ left # <<>>
      index == IF acts THEN bCheckpoint.index + n ELSE 0
      done == acts /\ index >= Len(txs)
      next == IF acts THEN Advanced(index, txs, daHeight) ELSE bCheckpoint
  IN /\ bCheckpoint' = next
     /\ bTxs' = IF done THEN <<>> ELSE txs
     /\ bDaHeight' = IF done THEN next.da ELSE bDaHeight
     /\ bSaved' = IF acts THEN {next} ELSE bSaved
     /\ bCount' = count /\ bEndTime' = endTime
     /\ bBatch' = IF batch = <<>> THEN {}
                  ELSE {[txs |-> batch, time |-> endTime - count + TimeIndex(index, count)]}
     /\ bSlips' = bSlips \cup slip \cup (IF done /\ daHeight # bCheckpoint.da THEN {"displaced"} ELSE {})

Waiting == bUp /\ bBatch = {} /\ bPending = {}

\* GetNextBatch with the event fetched, if it needs one.
BatchOf(e, unfiltered, slip) ==
  IF ~NeedsFetch THEN BatchWith(bTxs, bCount, bEndTime, bDaHeight, unfiltered, slip)
  ELSE IF e.end = 0 THEN BatchWith(bTxs, bCount, bEndTime, 0, unfiltered, slip)
  ELSE BatchWith(e.txs, Len(e.txs), Max({e.time, bEndTime}), e.end, unfiltered, slip)

GetNextBatch ==
  /\ Waiting /\ BatchOf(EpochFetched, FALSE, {})
  /\ UNCHANGED <<bDAVars, bStateDA, bPending, bChain, bUp, bFaults>>

\* FilterTxs fails and the transactions go in unfiltered.
GetNextBatchUnfiltered ==
  /\ Waiting /\ Fault /\ BatchOf(EpochFetched, TRUE, {})
  /\ UNCHANGED <<bDAVars, bStateDA, bPending, bChain, bUp>>

\* A DA request fails: the retriever returns an empty event for the height, with
\* the time of what it could read.
GetNextBatchDAError ==
  /\ Waiting /\ NeedsFetch /\ Fault
  /\ OnDA(bCheckpoint.da) /\ bCheckpoint.da = EpochEndOf(bCheckpoint.da)
  /\ \E t \in {0, bCheckpoint.da * DABlockTime} :
       BatchOf([end |-> bCheckpoint.da, txs |-> <<>>, time |-> t], FALSE, {"daError"})
  /\ UNCHANGED <<bDAVars, bStateDA, bPending, bChain, bUp>>

GoesDown(slip) ==
  /\ bUp' = FALSE
  /\ bDaHeight' = 0 /\ bCheckpoint' = [da |-> 0, index |-> 0] /\ bTxs' = <<>> /\ bCount' = 0 /\ bEndTime' = 0
  /\ bBatch' = {} /\ bSlips' = bSlips \cup slip
  /\ UNCHANGED <<bDAVars, bStored>>

\* ProduceBlock saves the block it makes, the first one with the genesis time, and commits it with the DA height the
\* sequencer is at by then; after a restart it takes the saved one.
SavePendingBased ==
  /\ bUp /\ bBatch' = {}
  /\ \E b \in bBatch : bPending' = {[b EXCEPT !.time = IF bChain = <<>> THEN 0 ELSE @]}
  /\ UNCHANGED <<bDAVars, bSaved, bStateDA, bChain, bUp, bSeqVars, bSlips, bFaults>>

InSequence(b) == IF bChain = <<>> THEN TRUE ELSE b.time >= Last(bChain).time

CommitBased ==
  /\ bUp
  /\ \E b \in bPending : InSequence(b) /\ bChain' = Append(bChain, b)
  /\ bPending' = {} /\ bStateDA' = bDaHeight
  /\ UNCHANGED <<bDAVars, bSaved, bUp, bSeqVars, bBatch, bSlips, bFaults>>

\* AssertValidSequence fails: the node halts, and takes the same block at its next start.
HaltBased ==
  /\ bUp /\ \E b \in bPending : ~InSequence(b)
  /\ GoesDown({"halted"}) /\ UNCHANGED bFaults

\* CreateBlock or savePendingBlock fails: the batch is not asked for again.
CreateFailsBased ==
  /\ bUp /\ bBatch # {} /\ Fault /\ bBatch' = {} /\ bSlips' = bSlips \cup {"error"}
  /\ UNCHANGED <<bDAVars, bStored, bUp, bSeqVars>>

\* The process goes down, or restarts; a batch in hand is not read again.
StopBased == bUp /\ Fault /\ GoesDown(IF bBatch # {} THEN {"crash"} ELSE {})

BNext ==
  \/ DAGrowsBased \/ NewBasedSequencer \/ GetNextBatch \/ GetNextBatchDAError \/ GetNextBatchUnfiltered
  \/ SavePendingBased \/ CommitBased \/ HaltBased \/ CreateFailsBased \/ StopBased

BFairness ==
  WF_bVars(DAGrowsBased) /\ WF_bVars(NewBasedSequencer \/ GetNextBatch \/ SavePendingBased \/ CommitBased)
BSpec == BInit /\ [][BNext]_bVars /\ BFairness

------------------------------------------------------------------------------
Made == bChain \o SetToSeq(bPending) \o SetToSeq(bBatch)
Ordered == SelectSeq(FlattenSeq([i \in DOMAIN Made |-> Made[i].txs]), Valid)
Before(t, u) == t[1] < u[1] \/ (t[1] = u[1] /\ t[2] < u[2])

\* The valid transactions of the whole epochs before a DA height.
WholeEpochs(h) ==
  LET last == ((h - DAStartHeight) \div BasedEpoch) * BasedEpoch
  IN SelectSeq(FlattenSeq([k \in 1..last |-> ForcedAt(k)]), Valid)

\* Unless a batch was lost on its way to a block, a DA request failed or the place
\* was displaced, the blocks hold exactly the valid transactions before the
\* checkpoint, in DA order, whatever batches and restarts cut the stream into
\* (based/sequencer.go: the checkpoint is saved before the block exists).
BasedExact ==
  bSlips = {} /\ bUp =>
    Ordered = WholeEpochs(bCheckpoint.da)
                \o (IF bCheckpoint.index = 0 THEN <<>>
                    ELSE SelectSeq(SubSeq(EpochTxs(bCheckpoint.da), 1, bCheckpoint.index), Valid))

\* Unless the place was displaced, no transaction is in two blocks and none
\* before one that DA orders earlier, even when batches were lost or DA
\* requests failed.
BasedNeverTwice ==
  "displaced" \notin bSlips =>
    \A i, j \in DOMAIN Ordered : i < j => Before(Ordered[i], Ordered[j])

\* Unless the place was displaced, block times increase strictly, within an epoch,
\* across epochs and across restarts, so that no restart halts on AssertValidSequence
\* (based/sequencer.go epochStart, currentDAEndTime).
BasedTimes ==
  "displaced" \notin bSlips =>
    /\ \A i \in 1..(Len(Made) - 1) : Made[i].time < Made[i + 1].time
    /\ "halted" \notin bSlips

\* What whole epochs hold reaches the chain, unless something went wrong on the way.
BasedSettled ==
  bSlips # {} \/ (bHead = BasedHeights /\ bPending = {} /\ bBatch = {} /\ Ordered = WholeEpochs(BasedHeights + 1))
BasedEventually == []<>BasedSettled

\* A transaction is in one block at most (based/README.md: "ensure no transactions
\* are lost or duplicated").
BasedNoDuplicate == \A i, j \in DOMAIN Ordered : i # j => Ordered[i] # Ordered[j]
=============================================================================
