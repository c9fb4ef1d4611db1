--------------------------- MODULE SoloSequencer ---------------------------
(* The solo sequencer of the test application (pkg/sequencers/solo): its       *)
(* in-memory queue with the soft cap, fed by the reaper from the executor's     *)
(* transaction channel and drained by block production, which filters          *)
(* without the lock and puts back what it postpones.                           *)
EXTENDS Integers, Sequences, FiniteSets, SequencesExt, FiniteSetsExt

CONSTANTS
  TxSize,         \* size of each transaction, numbered as they are injected
  ChannelCap,     \* txChannelBufferSize
  MaxQueueBytes,  \* WithMaxQueueBytes, 0 for none
  BlockBytes      \* req.MaxBytes

ASSUME SoloAssumption ==
  /\ \A i \in DOMAIN TxSize : TxSize[i] \in Nat
  /\ {ChannelCap, MaxQueueBytes, BlockBytes} \subseteq Nat

VARIABLES
  sTotal,    \* how many transactions were injected
  sChan,     \* txChan of the executor
  sHand,     \* what the reaper got from it
  sQueue, sBytes,
  sDrained,  \* what GetNextBatch took and has not dealt with; busy while it runs
  sBusy,
  sOut,      \* the batches handed out, in order
  sGone,     \* removed by the filter, dropped at a full channel, refused at a full queue
  sRefilled, \* whether something was admitted while GetNextBatch ran
  sRefills   \* history: GetNextBatch calls during which something was admitted

sVars == <<sTotal, sChan, sHand, sQueue, sBytes, sDrained, sBusy, sOut, sGone, sRefilled, sRefills>>

Size(txs) == FoldSeq(LAMBDA t, sum : TxSize[t] + sum, 0, txs)
Known == UNION {ToSet(sChan), ToSet(sHand), ToSet(sQueue), ToSet(sDrained), ToSet(sOut), sGone}

SInit ==
  /\ sTotal = 0 /\ sChan = <<>> /\ sHand = <<>> /\ sQueue = <<>> /\ sBytes = 0 /\ sDrained = <<>> /\ sBusy = FALSE
  /\ sOut = <<>> /\ sGone = {} /\ sRefilled = FALSE /\ sRefills = 0

\* InjectTx: dropped if the channel is full.
InjectTx ==
  /\ \E t \in DOMAIN TxSize :
       /\ t = sTotal + 1 /\ sTotal' = t
       /\ IF Len(sChan) < ChannelCap THEN sChan' = Append(sChan, t) /\ UNCHANGED sGone
          ELSE sGone' = sGone \cup {t} /\ UNCHANGED sChan
  /\ UNCHANGED <<sHand, sQueue, sBytes, sDrained, sBusy, sOut, sRefilled, sRefills>>

\* The reaper: GetTxs empties the channel,
GetTxs ==
  /\ sHand = <<>> /\ sChan # <<>> /\ sHand' = sChan /\ sChan' = <<>>
  /\ UNCHANGED <<sTotal, sQueue, sBytes, sDrained, sBusy, sOut, sGone, sRefilled, sRefills>>

Fits(txs) == MaxQueueBytes = 0 \/ sBytes + Size(txs) <= MaxQueueBytes

\* and SubmitBatchTxs takes all of it or nothing.  The reaper does not keep what
\* was refused, and the channel no longer has it.
SubmitSolo ==
  /\ sHand # <<>> /\ sHand' = <<>>
  /\ IF Fits(sHand)
       THEN /\ sQueue' = sQueue \o sHand
            /\ sBytes' = IF MaxQueueBytes = 0 THEN sBytes ELSE sBytes + Size(sHand)
            /\ sRefilled' = sBusy
            /\ sRefills' = IF sBusy /\ ~sRefilled THEN sRefills + 1 ELSE sRefills
            /\ UNCHANGED sGone
       ELSE sGone' = sGone \cup ToSet(sHand) /\ UNCHANGED <<sQueue, sBytes, sRefilled, sRefills>>
  /\ UNCHANGED <<sTotal, sChan, sDrained, sBusy, sOut>>

\* GetNextBatch takes the whole queue under the lock.
DrainQueue ==
  /\ ~sBusy /\ sQueue # <<>> /\ sBusy' = TRUE
  /\ sDrained' = sQueue /\ sQueue' = <<>> /\ sBytes' = 0 /\ sRefilled' = FALSE
  /\ UNCHANGED <<sTotal, sChan, sHand, sOut, sGone, sRefills>>

\* FilterTxs of the executor: a transaction over the limit is removed, the first
\* ones that fit together go in, the rest waits.
Fitting == SelectSeq(sDrained, LAMBDA t : TxSize[t] <= BlockBytes)
TakenCount == Max({n \in 0..Len(Fitting) : Size(SubSeq(Fitting, 1, n)) <= BlockBytes})

\* mutant: postponed transactions go to the back.
Requeued_Back(postponed) == sQueue \o postponed

\* Postponed transactions go before what was admitted meanwhile.
Requeued(postponed) == postponed \o sQueue

Recounted(postponed) == sBytes + Size(postponed)

\* The rest of GetNextBatch; if filtering fails the batch goes out unfiltered.
FilterAndRequeue ==
  /\ sBusy /\ sBusy' = FALSE /\ sDrained' = <<>> /\ sRefilled' = FALSE
  /\ \/ /\ sOut' = sOut \o SubSeq(Fitting, 1, TakenCount)
        /\ sQueue' = Requeued(SubSeq(Fitting, TakenCount + 1, Len(Fitting)))
        /\ sBytes' = Recounted(SubSeq(Fitting, TakenCount + 1, Len(Fitting)))
        /\ sGone' = sGone \cup (ToSet(sDrained) \ ToSet(Fitting))
     \/ sOut' = sOut \o sDrained /\ UNCHANGED <<sQueue, sBytes, sGone>>
  /\ UNCHANGED <<sTotal, sChan, sHand, sRefills>>

SNext == InjectTx \/ GetTxs \/ SubmitSolo \/ DrainQueue \/ FilterAndRequeue

SSpec == SInit /\ [][SNext]_sVars

------------------------------------------------------------------------------
\* Transactions leave in the order they were injected and none twice, however
\* submissions fall into the gap between draining and putting back
\* (sequencer.go GetNextBatch, SubmitBatchTxs).
SoloInOrder ==
  LET line == sOut \o sDrained \o sQueue \o sHand \o sChan
  IN \A i, j \in DOMAIN line : i < j => line[i] < line[j]

\* A transaction once injected is on its way, out, or known to be gone: none
\* falls out of the queue between the two locked parts of GetNextBatch.
SoloNoneLost == Known = 1..sTotal

\* The byte count is exact whenever the cap is on, and what is held stays within
\* the cap, plus one cap for each GetNextBatch during which the emptied queue
\* was filled again (sequencer.go WithMaxQueueBytes: a soft cap).
SoloCapped ==
  MaxQueueBytes > 0 =>
    /\ sBytes = Size(sQueue)
    /\ Size(sQueue) + Size(sDrained) <= MaxQueueBytes * (1 + sRefills)
=============================================================================
