---------------------------- MODULE DARetrieval ----------------------------
(***************************************************************************)
(* How forced transactions are read from DA (block/internal/da): the       *)
(* client with its cache of block times, its subscription, the background  *)
(* retriever that caches what the subscription brings and prefetches       *)
(* ahead, and the forced inclusion retriever that answers for an epoch out *)
(* of that cache and fetches what is missing.                              *)
(*                                                                         *)
(* A time is an integer: 0 is Go's zero time, 1 what the cache returns for *)
(* a zero time (UnixNano of it does not fit 64 bits; the wrapped value is  *)
(* a date of 1754) and h + 1 the time of DA block h.  Blobs are names; an  *)
(* oversized one is a blob larger than DefaultMaxBlobSize.                 *)
(***************************************************************************)
EXTENDS Integers, Sequences, FiniteSets, SequencesExt

CONSTANTS
  RHeights,       \* bound: number of DA blocks
  Blobs,          \* DA height -> sequence of blobs in the forced namespace
  Oversized,      \* the blobs larger than DefaultMaxBlobSize
  RetrievalEpoch, \* heights in an epoch
  TimeWindow,     \* blockTimestampCacheWindow
  MaxRFaults      \* bound: failing calls

ASSUME DARetrievalAssumption ==
  RetrievalEpoch \in Nat \ {0} /\ TimeWindow \in Nat \ {0} /\ MaxRFaults \in Nat

Window == 2 * RetrievalEpoch
ZeroTime == 0
TimeAt(h) == h + 1

VARIABLES
  head,           \* DA's height
  stamped,        \* events of this celestia node carry the block's time
  times,          \* blockTimestampCache: [at: height -> time, highest]
  blocks,         \* asyncBlockRetriever.cache: height -> [time, blobs]
  consumed,       \* consumedHeight
  ahead,          \* catch-up: [at, next], the height in hand and the next to fetch
  cursor,         \* the DA height the caller asks for next
  answer,         \* the last answer: [height, time, txs], and as history: stale
  untimed,        \* history: heights cached with a zero time
  rFaults

rVars == <<head, stamped, times, blocks, consumed, ahead, cursor, answer, untimed, rFaults>>

EmptyFcn == [x \in {} |-> 0]
With(f, e, v) == [x \in DOMAIN f \cup {e} |-> IF x = e THEN v ELSE f[x]]

NoAnswer == [height |-> 0, time |-> ZeroTime, txs |-> <<>>, stale |-> FALSE]

RInit ==
  /\ head = 0 /\ stamped \in BOOLEAN
  /\ times = [at |-> EmptyFcn, highest |-> 0]
  /\ blocks = EmptyFcn /\ consumed = 0
  /\ ahead = [at |-> 1, next |-> 1] /\ cursor = 1
  /\ answer = NoAnswer
  /\ untimed = {} /\ rFaults = 0

MayFailR == rFaults < MaxRFaults /\ rFaults' = rFaults + 1

DABlock ==
  /\ head < RHeights /\ head' = head + 1
  /\ UNCHANGED <<stamped, times, blocks, consumed, ahead, cursor, answer, untimed, rFaults>>

------------------------------------------------------------------------------
\* minRetainedHeightLocked
MinRetained(highest) == IF highest < TimeWindow - 1 THEN 0 ELSE highest - TimeWindow + 1

\* blockTimestampCache.put
PutTime(c, h) ==
  LET top == IF h > c.highest THEN h ELSE c.highest
      all == With(c.at, h, TimeAt(h))
  IN IF h < MinRetained(c.highest) THEN c
     ELSE [at |-> [x \in {y \in DOMAIN all : y >= MinRetained(top)} |-> all[x]], highest |-> top]

\* extractBlobData: a subscription passes on what is not oversized.
extractBlobData(bs) == SelectSeq(bs, LAMBDA b : b \notin Oversized)

\* What a cached time reads as: UnixNano and back.
CachedTime(h, t) == IF t = ZeroTime THEN 1 ELSE t

cacheBlock(h, t, bs) ==
  /\ blocks' = With(blocks, h, [time |-> CachedTime(h, t), blobs |-> bs])
  /\ untimed' = IF t = ZeroTime THEN untimed \cup {h} ELSE untimed \ {h}

\* An event of the subscription and the retriever's HandleEvent.  The time is
\* the event's, or is fetched; when that fails the event goes on without it.
SubscriptionEvent(h) ==
  /\ h <= head
  /\ \/ /\ stamped /\ cacheBlock(h, TimeAt(h), extractBlobData(Blobs[h]))
        /\ times' = PutTime(times, h) /\ UNCHANGED rFaults
     \/ /\ ~stamped /\ cacheBlock(h, TimeAt(h), extractBlobData(Blobs[h]))
        /\ times' = PutTime(times, h) /\ UNCHANGED rFaults
     \/ /\ ~stamped /\ MayFailR /\ cacheBlock(h, ZeroTime, extractBlobData(Blobs[h]))
        /\ UNCHANGED times
  /\ UNCHANGED <<head, stamped, consumed, ahead, cursor, answer>>

\* HandleCatchup for ahead.at, one height at a time: cached heights are passed
\* over, an error or a height from the future gives the claim back.
Prefetch ==
  LET h == ahead.next
      done == h >= ahead.at + Window
      on == IF done THEN [at |-> ahead.at + 1, next |-> ahead.at + 1]
            ELSE [ahead EXCEPT !.next = h + 1]
  IN /\ ahead.at <= head
     /\ \/ /\ h \in DOMAIN blocks
           /\ ahead' = on /\ UNCHANGED <<blocks, times, untimed, rFaults>>
        \/ /\ h \notin DOMAIN blocks /\ h <= head
           /\ cacheBlock(h, TimeAt(h), Blobs[h])
           /\ times' = PutTime(times, h)
           /\ ahead' = on /\ UNCHANGED rFaults
        \/ /\ h \notin DOMAIN blocks /\ h <= head /\ MayFailR
           /\ ahead' = [ahead EXCEPT !.next = ahead.at]
           /\ UNCHANGED <<blocks, times, untimed>>
        \/ /\ h \notin DOMAIN blocks /\ h > head /\ ahead.next # ahead.at
           /\ ahead' = [ahead EXCEPT !.next = ahead.at]
           /\ UNCHANGED <<blocks, times, untimed, rFaults>>
     /\ UNCHANGED <<head, stamped, consumed, cursor, answer>>

\* cleanupOldBlocks, from UpdateCurrentHeight.
CleanedUp(height) ==
  IF height <= consumed \/ height < Window THEN blocks
  ELSE [x \in {y \in DOMAIN blocks : y >= height - Window} |-> blocks[x]]

EpochEnd(h) == ((h - 1) \div RetrievalEpoch + 1) * RetrievalEpoch
EpochHeights(h) == (EpochEnd(h) - RetrievalEpoch + 1)..EpochEnd(h)

\* mutant: an epoch's missing heights are left out.
Assembled_CacheOnly(hs, cached) ==
  FlattenSeq([i \in 1..RetrievalEpoch |->
    LET h == i - 1 + (CHOOSE x \in hs : \A y \in hs : x <= y)
    IN IF h \in DOMAIN cached THEN cached[h].blobs ELSE <<>>])

\* The blobs of the epoch in height order, from the cache or else from DA.
Assembled(hs, cached) ==
  FlattenSeq([i \in 1..RetrievalEpoch |->
    LET h == i - 1 + (CHOOSE x \in hs : \A y \in hs : x <= y)
    IN IF h \in DOMAIN cached THEN cached[h].blobs ELSE Blobs[h]])

\* The newest time of the epoch's blocks.
NewestTime(hs, cached) ==
  LET ts == {IF h \in DOMAIN cached THEN cached[h].time ELSE TimeAt(h) : h \in hs}
  IN CHOOSE t \in ts : \A u \in ts : u <= t

\* RetrieveForcedIncludedTxs at the cursor.  Before an epoch's end it returns
\* nothing; a height from the future is an error and the caller asks again; any
\* other failure is an empty answer, after which the caller moves on.
RetrieveForcedIncludedTxs ==
  LET hs == EpochHeights(cursor)
      cached == CleanedUp(cursor)
      missing == hs \ DOMAIN cached
  IN /\ cursor <= RHeights
     /\ consumed' = IF cursor > consumed THEN cursor ELSE consumed
     /\ blocks' = cached
     /\ \/ /\ cursor # EpochEnd(cursor)
           /\ cursor' = cursor + 1 /\ UNCHANGED <<answer, times, rFaults>>
        \/ /\ cursor = EpochEnd(cursor) /\ \A h \in missing : h <= head
           /\ answer' = [height |-> cursor, time |-> NewestTime(hs, cached),
                         txs |-> Assembled(hs, cached), stale |-> cursor \in untimed \ missing]
           /\ times' = FoldLeft(PutTime, times, SetToSortSeq(missing, <))
           /\ cursor' = cursor + 1 /\ UNCHANGED rFaults
        \/ /\ cursor = EpochEnd(cursor) /\ missing # {} /\ MayFailR
           /\ answer' = NoAnswer
           /\ cursor' = cursor + 1 /\ UNCHANGED times
     /\ UNCHANGED <<head, stamped, ahead, untimed>>

\* RetrieveBlobs does not wait for a time: the cached one, or the zero time.
RetrieveBlobs(h) == [time |-> IF h \in DOMAIN times.at THEN times.at[h] ELSE ZeroTime,
                     blobs |-> Blobs[h]]

RNext ==
  \/ DABlock \/ Prefetch \/ RetrieveForcedIncludedTxs
  \/ \E h \in 1..RHeights : SubscriptionEvent(h)

RSpec == RInit /\ [][RNext]_rVars
------------------------------------------------------------------------------
Direct(h) == FlattenSeq([i \in 1..RetrievalEpoch |-> Blobs[EpochEnd(h) - RetrievalEpoch + i]])

\* Types; the cache of times holds at most its window below its highest height.
RTypeOK ==
  /\ head \in 0..RHeights /\ cursor \in 1..(RHeights + 1) /\ consumed \in 0..RHeights
  /\ DOMAIN blocks \subseteq 1..RHeights
  /\ \A h \in DOMAIN times.at : h <= times.highest /\ h + TimeWindow > times.highest

\* The answer for an epoch is what DA holds for it, in height order, whatever
\* mixture of subscription, prefetching, clean-up and fetching produced it; an
\* oversized blob apart, which a subscription drops and a retrieval does not.
EpochTxsExact ==
  answer.height # 0 => extractBlobData(answer.txs) = extractBlobData(Direct(answer.height))

\* Its time is the time of the epoch's last DA block, on every path, unless the
\* time of a subscription event could not be fetched; and a non-strict read
\* never returns another block's time.
TimesTruthful ==
  /\ answer.height # 0 /\ ~answer.stale => answer.time = TimeAt(answer.height)
  /\ \A h \in 1..head : RetrieveBlobs(h).time \in {ZeroTime, TimeAt(h)}
=============================================================================
