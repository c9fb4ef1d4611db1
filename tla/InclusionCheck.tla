--------------------------- MODULE InclusionCheck ---------------------------
(***************************************************************************)
(* A sync node's check on the sequencer (syncer.go,                        *)
(* VerifyForcedInclusionTxs): forced transactions posted on DA in an epoch *)
(* must land in some block before the epoch's grace window ends, or the    *)
(* node halts and accuses the sequencer.  The node only sees what its      *)
(* blocks say; it remembers the transactions and bytes of each DA height   *)
(* until the epoch is checked.                                             *)
(*                                                                         *)
(* A block carries any forced transactions of epochs that are over: the    *)
(* sequencer is not assumed to be honest.  It does not carry one twice.    *)
(***************************************************************************)
EXTENDS Integers, FiniteSets, FiniteSetsExt

CONSTANTS
  EpochSize,             \* DAEpochForcedInclusion
  DAStartHeight,
  MaxDA,                 \* bound: the last DA height
  Posted,                \* DA height -> forced transactions posted there
  Valid,                 \* the transactions FilterTxs accepts
  MaxBlob,               \* DefaultMaxBlobSize
  Sizes,                 \* the block sizes of the instance, none above MaxBlob
  MaxFaults              \* bound: failing requests and restarts

ASSUME InclusionCheckAssumption ==
  /\ EpochSize \in Nat \ {0} /\ DAStartHeight \in Nat \ {0} /\ MaxDA \in Nat
  /\ DAStartHeight <= MaxDA /\ MaxBlob \in Nat \ {0} /\ Sizes \subseteq 0..MaxBlob

VARIABLES
  postingAt,             \* the DA height blocks are posted at now
  stateDA,               \* DAHeight of the committed state
  seenBlockTxs,          \* the transactions the node remembers
  seenByHeight,          \* DA height -> transactions recorded for it
  daBlockBytes,          \* DA height -> bytes recorded for it
  lastCheckedEpochEnd,   \* as named
  accused,               \* errMaliciousProposer was returned: the node halts
  landed,                \* history: transactions in a block the node has
  unrecorded,            \* history: those whose block came by P2P
  skipped,               \* history: epochs whose check an error or a start lost
  vfaults                \* count against MaxFaults

vVars == <<postingAt, stateDA, seenBlockTxs, seenByHeight, daBlockBytes, lastCheckedEpochEnd,
           accused, landed, unrecorded, skipped, vfaults>>

VHeights == DAStartHeight..MaxDA
Txs == UNION {Posted[i] : i \in VHeights}
baseGracePeriodEpochs == 1
maxGracePeriodEpochs == 4

\* An epoch is named by its last DA height.
FirstEpochEnd == DAStartHeight + EpochSize - 1
EpochEnds == {n \in VHeights : (n - FirstEpochEnd) % EpochSize = 0 /\ n >= FirstEpochEnd}
HeightsOf(e) == (e - EpochSize + 1)..e
EpochTxs(e) == UNION {Posted[i] : i \in HeightsOf(e)}

\* The node knows a transaction by its hash: none is posted in two epochs.
ASSUME PostedOnce ==
  \A e, f \in EpochEnds : e # f => EpochTxs(e) \cap EpochTxs(f) = {}

Threshold == (8 * MaxBlob + 5) \div 10       \* math.Round of 0.8 * MaxBlob

\* The bytes recorded for the epoch, counted one by one.
TotalBytes(bytes, e) == Cardinality({x \in HeightsOf(e) \X (1..MaxBlob) : x[2] <= bytes[x[1]]})
AverageBytes(bytes, e) == TotalBytes(bytes, e) \div EpochSize

\* gracePeriodForEpoch.  The extension counts whole bands above the threshold.
gracePeriodForEpoch(bytes, e) ==
  LET avg == AverageBytes(bytes, e)
      extra == IF avg > Threshold THEN (avg - Threshold) \div Threshold ELSE 0
  IN IF baseGracePeriodEpochs + extra < maxGracePeriodEpochs
       THEN baseGracePeriodEpochs + extra ELSE maxGracePeriodEpochs

\* initializeState: the last epoch that ended at or before the committed DA height.
\* With epochs of one height the first start already passes over the first epoch.
ResumeAfter(da) ==
  IF da < FirstEpochEnd THEN 0
  ELSE FirstEpochEnd + ((da - FirstEpochEnd) \div EpochSize) * EpochSize

------------------------------------------------------------------------------
VInit ==
  /\ postingAt = DAStartHeight /\ stateDA = DAStartHeight
  /\ seenBlockTxs = {} /\ seenByHeight = [i \in VHeights |-> {}]
  /\ daBlockBytes = [i \in VHeights |-> 0]
  /\ lastCheckedEpochEnd = ResumeAfter(DAStartHeight)
  /\ accused = FALSE /\ landed = {} /\ unrecorded = {} /\ vfaults = 0
  /\ skipped = {e \in EpochEnds : e <= ResumeAfter(DAStartHeight)}

\* The epochs the loop reaches: from the one after the last checked, up to the
\* first whose grace boundary the block has not passed.
Due(bytes, at) ==
  {e \in EpochEnds :
     /\ e > lastCheckedEpochEnd
     /\ \A f \in EpochEnds : lastCheckedEpochEnd < f /\ f <= e =>
          f + gracePeriodForEpoch(bytes, f) * EpochSize < at}

\* mutant: everything recorded so far is forgotten.
pruneUpTo_All(seen, byHeight, upTo) ==
  [seen |-> {}, byHeight |-> [i \in VHeights |-> {}]]

\* pruneUpTo: the records of the heights of a checked epoch are dropped, and
\* their transactions with them.
pruneUpTo(seen, byHeight, upTo) ==
  LET gone == {i \in VHeights : lastCheckedEpochEnd <= i /\ i <= upTo}
  IN [seen |-> seen \ UNION {byHeight[i] : i \in gone},
      byHeight |-> [i \in VHeights |-> IF i \in gone THEN {} ELSE byHeight[i]]]

\* mutant: the count starts again with every epoch.
Overdue_LastEpoch(seen, byHeight, done) ==
  {t \in Valid : done # {} /\ t \in EpochTxs(Max(done)) \ seen}

\* What one check of the epochs in done finds, each against the records left
\* by the pruning of the ones before it.
Overdue(seen, byHeight, done) ==
  UNION {{t \in EpochTxs(e) \cap Valid :
            t \notin IF e - EpochSize \in done
                       THEN pruneUpTo(seen, byHeight, e - EpochSize).seen ELSE seen} : e \in done}

\* One pass of the loop over the epochs in due, for a block read from DA at
\* height at.  A failed request (execution info, retrieval of an epoch, filter)
\* ends it at epoch failAt: what was found before is lost with it.
VerifyEpochs(txs, size, at, due, failAt) ==
  LET seen == seenBlockTxs \cup txs
      byHeight == [seenByHeight EXCEPT ![at] = txs]
      bytes == [daBlockBytes EXCEPT ![at] = size]
      failed == failAt <= MaxDA
      done == {e \in due : e < failAt}
      last == IF done = {} THEN lastCheckedEpochEnd ELSE Max(done)
      kept == IF done = {} THEN [seen |-> seen, byHeight |-> byHeight]
              ELSE pruneUpTo(seen, byHeight, last)
      guilty == ~failed /\ Overdue(seen, byHeight, done) # {}
  IN /\ seenBlockTxs' = kept.seen /\ seenByHeight' = kept.byHeight
     /\ daBlockBytes' = [i \in VHeights |->
          IF done # {} /\ lastCheckedEpochEnd <= i /\ i <= last THEN 0 ELSE bytes[i]]
     /\ lastCheckedEpochEnd' = last
     /\ accused' = guilty
     /\ skipped' = IF failed THEN skipped \cup done ELSE skipped
     /\ landed' = landed \cup txs
     /\ stateDA' = IF ~guilty /\ at > stateDA THEN at ELSE stateDA
     /\ vfaults' = IF failed THEN vfaults + 1 ELSE vfaults

VerifyBlock(txs, size, at) ==
  \E due \in {IF at < stateDA THEN {} ELSE Due([daBlockBytes EXCEPT ![at] = size], at)} :
  \E failAt \in {MaxDA + 1} \cup (IF vfaults < MaxFaults THEN due ELSE {}) :
    VerifyEpochs(txs, size, at, due, failAt)

\* Transactions a block may carry now: of epochs that are over, not yet landed.
Carriable == (UNION {EpochTxs(e) : e \in {f \in EpochEnds : f < postingAt}}) \ landed

\* The pair of a block may be completed a DA height before its parent's was.
SyncFromDA ==
  /\ ~accused
  /\ \E txs \in SUBSET Carriable, size \in Sizes, at \in {postingAt, postingAt - 1} \cap VHeights :
        VerifyBlock(txs, size, at)
  /\ UNCHANGED <<postingAt, unrecorded>>

\* A block that came by P2P is committed without the check, and its transactions
\* are not recorded.
SyncFromP2P ==
  /\ ~accused
  /\ \E txs \in (SUBSET Carriable) \ {{}} :
        landed' = landed \cup txs /\ unrecorded' = unrecorded \cup txs
  /\ UNCHANGED <<postingAt, stateDA, seenBlockTxs, seenByHeight, daBlockBytes,
                 lastCheckedEpochEnd, accused, skipped, vfaults>>

\* A restart forgets the records and resumes after the committed DA height.
VRestart ==
  /\ ~accused /\ vfaults < MaxFaults
  /\ vfaults' = vfaults + 1
  /\ seenBlockTxs' = {} /\ seenByHeight' = [i \in VHeights |-> {}]
  /\ daBlockBytes' = [i \in VHeights |-> 0]
  /\ lastCheckedEpochEnd' = ResumeAfter(stateDA)
  /\ skipped' = skipped \cup {e \in EpochEnds : lastCheckedEpochEnd < e /\ e <= ResumeAfter(stateDA)}
  /\ UNCHANGED <<postingAt, stateDA, accused, landed, unrecorded>>

\* DA moves on.
DAAdvances ==
  /\ ~accused /\ postingAt < MaxDA
  /\ postingAt' = postingAt + 1
  /\ UNCHANGED <<stateDA, seenBlockTxs, seenByHeight, daBlockBytes, lastCheckedEpochEnd,
                 accused, landed, unrecorded, skipped, vfaults>>

VNext == SyncFromDA \/ SyncFromP2P \/ VRestart \/ DAAdvances
VSpec == VInit /\ [][VNext]_vVars
------------------------------------------------------------------------------
VTypeOK ==
  /\ postingAt \in VHeights /\ stateDA \in VHeights
  /\ seenBlockTxs \subseteq Txs /\ landed \subseteq Txs /\ unrecorded \subseteq landed
  /\ lastCheckedEpochEnd \in EpochEnds \cup {0}
  /\ accused \in BOOLEAN

\* The sequencer is accused only of a transaction that really is in no block of
\* the node, or only in one that came by P2P and was not recorded, and whose base
\* grace window is over; pruning, out-of-order DA
\* heights, restarts and failed requests never make it look guilty.
AccusedRightly ==
  accused => \E e \in EpochEnds :
    /\ (EpochTxs(e) \cap Valid) \ (landed \ unrecorded) # {}
    /\ e + baseGracePeriodEpochs * EpochSize < postingAt

\* An epoch is passed over only when all its valid transactions have landed,
\* except where a failed request or a start lost its check.
CheckedMeansLanded ==
  ~accused => \A e \in EpochEnds :
    e <= lastCheckedEpochEnd /\ e \notin skipped => (EpochTxs(e) \cap Valid) \subseteq landed
=============================================================================
