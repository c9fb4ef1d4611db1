--------------------------- MODULE StorageProofs ---------------------------
(***************************************************************************)
(* Proofs about what is kept by height.                                    *)
(*                                                                         *)
(* The block store and the pruner (BlockStore), for any length of the      *)
(* chain, pruning budget and chunk and any number of crashes and           *)
(* rollbacks: what is retained can be replayed, nothing is pruned before   *)
(* it is included, the cache and the index follow the database.            *)
(*                                                                         *)
(* The local DA layer (LocalDA), for any submissions, namespaces and       *)
(* channel size: a subscriber's stream is exact.                           *)
(***************************************************************************)
EXTENDS BlockStore, LocalDA, SequenceTheorems, TLAPS

(* The database is a record with these fields.                             *)
DbRecord ==
  db = [height |-> db.height, blocks |-> db.blocks, index |-> db.index, states |-> db.states,
        da |-> db.da, prunedB |-> db.prunedB, prunedS |-> db.prunedS]

Control ==
  /\ conf \in Confs /\ proc \in {"run", "closing", "down"} /\ late \in BOOLEAN
  /\ pruner \in [pc : {"idle", "blocks", "states"}, from : Nat, to : Nat]
  /\ reader \in [pc : {"idle", "add"}, h : Nat, v : Int]

Markers ==
  /\ db.height \in Nat /\ db.height <= MaxStoreHeight
  /\ db.prunedB \in Nat /\ db.prunedB <= db.height /\ db.prunedS \in Nat /\ db.prunedS <= MaxStoreHeight
  /\ lastSet \in Nat /\ lastSet <= db.height /\ db.da \in Nat /\ db.da <= lastSet
  /\ rollbacks \in Nat /\ rollbacks <= MaxRollbacks

Contents ==
  /\ db.blocks \in [SHeights -> -1..MaxRollbacks] /\ db.states \subseteq 0..db.height
  /\ cached \in [SHeights -> Int]

Queued ==
  writes \in Seq(Nat) /\ Len(writes) <= MaxWrites /\ \A i \in 1..Len(writes) : writes[i] <= lastSet

(* A process that is not running reads, caches and prunes nothing.         *)
Quiet ==
  proc # "run" => cached = [h \in SHeights |-> NoVer] /\ reader = IdleReader /\ pruner = IdlePruner

(* The blocks held are those from the marker to the tip.                   *)
BlocksExact == \A h \in SHeights : db.blocks[h] # NoVer <=> db.prunedB < h /\ h <= db.height

(* The states held: in mode "all" from that of the last pruned block on.   *)
StatesKept ==
  \A h \in 0..db.height :
    (conf.mode = "all" /\ h >= db.prunedB) \/ h > db.prunedS => h \in db.states

(* A tick under way continues at the marker, and its states end below the  *)
(* last pruned block.                                                      *)
Ticking ==
  /\ pruner.pc = "idle" => pruner = IdlePruner
  /\ pruner.pc = "blocks" =>
       /\ conf.mode = "all" /\ pruner.from = db.prunedB
       /\ pruner.from <= pruner.to /\ 1 <= pruner.to /\ pruner.to <= db.height
  /\ pruner.pc = "states" =>
       /\ pruner.from = db.prunedS /\ pruner.to <= MaxStoreHeight
       /\ conf.mode = "all" => pruner.to < db.prunedB

(* The queued writes ascend from what is on disk to the value set last,    *)
(* until a write passes them while the store is closing.                   *)
QueueOrder ==
  /\ \A i, j \in 1..Len(writes) : i < j => writes[i] <= writes[j]
  /\ ~late => \A i \in 1..Len(writes) : db.da <= writes[i]
  /\ ~late /\ writes # <<>> => writes[Len(writes)] = lastSet
  /\ late => proc # "run"
  /\ proc = "down" => writes = <<>>

(* What is pruned, or about to be, is included by the value on disk and by *)
(* every value that a queued write, however late, may put there.           *)
Claimed == IF pruner.pc = "blocks" THEN pruner.to ELSE db.prunedB
ClaimedIncluded ==
  conf.daEnabled => Claimed <= db.da /\ \A i \in 1..Len(writes) : Claimed <= writes[i]

(* A read under way has the store's block, or one pruned since.            *)
Reading ==
  /\ \A h \in SHeights : h > db.height => cached[h] = NoVer
  /\ reader.pc = "add" => /\ reader.h \in SHeights /\ reader.h <= db.height
                          /\ reader.v = db.blocks[reader.h] \/ reader.h <= db.prunedB

BShape == DbRecord /\ Control /\ Markers /\ Contents /\ Queued
BInv ==
  /\ BShape /\ Quiet /\ BlocksExact /\ StatesKept /\ Ticking /\ QueueOrder /\ ClaimedIncluded
  /\ Reading /\ CacheCurrent /\ IndexExact /\ MetadataLatest

-----------------------------------------------------------------------------
LEMMA BlockConstants ==
  /\ MaxStoreHeight \in Nat \ {0} /\ KeepRecent \in Nat \ {0} /\ pruneBudget \in Nat \ {0}
  /\ maxPruneChunk \in Nat \ {0} /\ MaxWrites \in Nat \ {0} /\ MaxRollbacks \in Nat
BY BlockStoreAssumption, Zenon

LEMMA ClaimedType == ASSUME Control, Markers PROVE Claimed \in Nat
BY Zenon DEF Control, Markers, Claimed

LEMMA BInitInv == BInit => BInv
<1> SUFFICES ASSUME BInit PROVE BInv
  BY Zenon
<1> USE BlockConstants DEF BInit
<1>1. DbRecord /\ Control
  <2>1. DbRecord
    BY Zenon DEF DbRecord
  <2>2. IdlePruner \in [pc : {"idle", "blocks", "states"}, from : Nat, to : Nat]
    BY Zenon DEF IdlePruner
  <2>3. IdleReader \in [pc : {"idle", "add"}, h : Nat, v : Int]
    BY DEF IdleReader, NoVer
  <2> QED BY <2>1, <2>2, <2>3, Zenon DEF Control
<1>2. Markers /\ Queued
  BY DEF Markers, Queued
<1>3. Contents
  BY DEF Contents, NoVer
<1>4. Quiet /\ BlocksExact /\ StatesKept
  BY DEF Quiet, BlocksExact, StatesKept, SHeights
<1>5. Ticking /\ QueueOrder /\ ClaimedIncluded
  BY DEF Ticking, QueueOrder, ClaimedIncluded, Claimed, IdlePruner
<1>6. Reading /\ CacheCurrent /\ IndexExact /\ MetadataLatest
  BY Zenon DEF Reading, CacheCurrent, IndexExact, MetadataLatest, Present, IdleReader
<1> QED BY <1>1, <1>2, <1>3, <1>4, <1>5, <1>6, Zenon DEF BInv, BShape

LEMMA CommitInv == ASSUME BInv, CommitBatch PROVE BInv'
<1> USE BlockConstants DEF BInv, BShape
<1> DEFINE h == db.height + 1
<1>1. /\ db' = [db EXCEPT !.blocks[h] = rollbacks, !.index = @ \cup {IndexKey(h, rollbacks)},
                          !.height = h, !.states = @ \cup {h}]
      /\ proc = "run" /\ db.height < MaxStoreHeight
      /\ conf' = conf /\ cached' = cached /\ reader' = reader /\ putBack' = putBack /\ writes' = writes
      /\ lastSet' = lastSet /\ late' = late /\ pruner' = pruner /\ proc' = proc /\ rollbacks' = rollbacks
  BY Zenon DEF CommitBatch
<1>2. /\ db'.height = h /\ db'.blocks = [db.blocks EXCEPT ![h] = rollbacks]
      /\ db'.index = db.index \cup {IndexKey(h, rollbacks)} /\ db'.states = db.states \cup {h}
      /\ db'.da = db.da /\ db'.prunedB = db.prunedB /\ db'.prunedS = db.prunedS
      /\ DbRecord'
  BY <1>1, Zenon DEF DbRecord
<1>3. h \in SHeights /\ h \in Nat /\ db.height \in Nat /\ db.height < h /\ h <= MaxStoreHeight
      /\ rollbacks # NoVer
  BY <1>1 DEF Markers, SHeights, NoVer
<1>4. db'.blocks[h] = rollbacks /\ \A x \in SHeights : x # h => db'.blocks[x] = db.blocks[x]
  BY <1>2, <1>3, Zenon DEF Contents
<1>5. Control' /\ Quiet' /\ Queued'
  BY <1>1, Zenon DEF Control, Quiet, Queued
<1>6. Markers'
  BY <1>1, <1>2, <1>3 DEF Markers
<1>7. Contents'
  BY <1>1, <1>2, <1>3 DEF Contents, Markers
<1>8. QueueOrder' /\ ClaimedIncluded' /\ MetadataLatest'
  BY <1>1, <1>2, Zenon DEF QueueOrder, ClaimedIncluded, Claimed, MetadataLatest
<1>9. BlocksExact'
  BY <1>2, <1>3, <1>4 DEF BlocksExact, Markers, SHeights
<1>10. StatesKept'
  BY <1>1, <1>2, <1>3 DEF StatesKept, Markers
<1>11. Ticking'
  BY <1>1, <1>2, <1>3 DEF Ticking, Control
<1>12. cached[h] = NoVer /\ db.blocks[h] = NoVer
  BY <1>3 DEF Reading, BlocksExact
<1>13. Reading'
  BY <1>1, <1>2, <1>3, <1>4 DEF Reading, SHeights
<1>14. CacheCurrent'
  BY <1>1, <1>4, <1>12, Zenon DEF CacheCurrent
<1>15. IndexExact'
  <2> HIDE DEF h
  <2>1. {x \in SHeights : db'.blocks[x] # NoVer} = {x \in SHeights : db.blocks[x] # NoVer} \cup {h}
    BY <1>3, <1>4, Zenon
  <2>2. \A x \in SHeights : db.blocks[x] # NoVer => db'.blocks[x] = db.blocks[x]
    BY <1>4, <1>12, Zenon
  <2> QED BY <1>2, <1>4, <2>1, <2>2 DEF IndexExact, Present
<1> QED BY <1>2, <1>5, <1>6, <1>7, <1>8, <1>9, <1>10, <1>11, <1>13, <1>14, <1>15, Zenon

LEMMA ReadInv == ASSUME BInv, ReadBlock \/ CacheBlock PROVE BInv'
<1> USE BlockConstants DEF BInv, BShape
<1>1. /\ conf' = conf /\ db' = db /\ writes' = writes /\ lastSet' = lastSet /\ late' = late
      /\ pruner' = pruner /\ proc' = proc /\ rollbacks' = rollbacks /\ proc = "run"
  BY Zenon DEF ReadBlock, CacheBlock
<1>2. /\ DbRecord' /\ Markers' /\ Queued' /\ BlocksExact' /\ StatesKept' /\ Ticking' /\ QueueOrder'
      /\ ClaimedIncluded' /\ IndexExact' /\ MetadataLatest' /\ Quiet'
  <2>1. DbRecord' /\ Markers' /\ Queued' /\ BlocksExact' /\ StatesKept'
    BY <1>1, Zenon DEF DbRecord, Markers, Queued, BlocksExact, Present, StatesKept
  <2>2. Ticking' /\ QueueOrder' /\ ClaimedIncluded'
    BY <1>1, Zenon DEF Ticking, QueueOrder, ClaimedIncluded, Claimed
  <2>3. IndexExact' /\ MetadataLatest' /\ Quiet'
    BY <1>1, Zenon DEF IndexExact, Present, MetadataLatest, Quiet
  <2> QED BY <2>1, <2>2, <2>3, Zenon
<1>3. CASE ReadBlock
  <2>1. PICK h \in SHeights : Present(db, h) /\ reader' = [pc |-> "add", h |-> h, v |-> db.blocks[h]]
    BY <1>3, Zenon DEF ReadBlock
  <2>2. cached' = cached /\ putBack' = putBack
    BY <1>3, Zenon DEF ReadBlock
  <2>3. h \in Nat /\ db.blocks[h] \in Int /\ h <= db.height
    BY <2>1 DEF Contents, SHeights, BlocksExact, Present
  <2>4. Control' /\ Contents'
    BY <1>1, <2>1, <2>2, <2>3, Zenon DEF Control, Contents
  <2>5. Reading' /\ CacheCurrent'
    BY <1>1, <2>1, <2>2, <2>3, Zenon DEF Reading, CacheCurrent
  <2> QED BY <1>2, <2>4, <2>5, Zenon
<1>4. CASE CacheBlock
  <2>1. /\ reader.pc = "add" /\ reader' = IdleReader
        /\ cached' = [cached EXCEPT ![reader.h] = reader.v]
        /\ putBack' = IF reader.h <= db.prunedB THEN putBack \cup {reader.h} ELSE putBack
    BY <1>4, Zenon DEF CacheBlock
  <2>2. reader.h \in SHeights /\ reader.h <= db.height /\ reader.v \in Int
        /\ (reader.v = db.blocks[reader.h] \/ reader.h <= db.prunedB)
    BY <2>1, Zenon DEF Reading, Control
  <2>3. Control' /\ Contents'
    BY <1>1, <2>1, <2>2 DEF Control, Contents, IdleReader, NoVer
  <2>4. /\ cached'[reader.h] = reader.v
        /\ \A h \in SHeights : h # reader.h => cached'[h] = cached[h]
    BY <2>1, <2>2, Zenon DEF Contents
  <2>5. Reading'
    BY <1>1, <2>1, <2>2, <2>4 DEF Reading, IdleReader, Markers, SHeights
  <2>6. CacheCurrent'
    BY <1>1, <2>1, <2>2, <2>4, Zenon DEF CacheCurrent
  <2> QED BY <1>2, <2>3, <2>5, <2>6, Zenon
<1> QED BY <1>3, <1>4, Zenon

LEMMA MetadataInv == ASSUME BInv, SetMetadata PROVE BInv'
<1> USE BlockConstants DEF BInv, BShape
<1>1. /\ conf' = conf /\ cached' = cached /\ reader' = reader /\ putBack' = putBack
      /\ pruner' = pruner /\ proc' = proc /\ rollbacks' = rollbacks
      /\ lastSet' = lastSet + 1 /\ lastSet < db.height
  BY Zenon DEF SetMetadata
<1>2. Control /\ Markers /\ Claimed \in Nat
  BY ClaimedType, Zenon
<1>3. CASE proc = "run"
  <2>1. /\ writes' = Append(writes, lastSet + 1) /\ db' = db /\ late' = late /\ Len(writes) < MaxWrites
    BY <1>3, Zenon DEF SetMetadata
  <2>2. /\ writes' \in Seq(Nat) /\ Len(writes') = Len(writes) + 1 /\ Len(writes) \in Nat
        /\ writes'[Len(writes) + 1] = lastSet + 1
        /\ \A i \in 1..Len(writes) : writes'[i] = writes[i]
    BY <2>1 DEF Queued, Markers
  <2>3. writes' # <<>>
    BY <2>2
  <2>4. DbRecord' /\ Control' /\ Markers' /\ Contents'
    <3>1. DbRecord' /\ Control'
      BY <1>1, <2>1, Zenon DEF DbRecord, Control
    <3>2. Markers'
      BY <1>1, <2>1 DEF Markers
    <3> QED BY <1>1, <2>1, <3>1, <3>2, Zenon DEF Contents
  <2>5. Queued'
    <3>1. \A i \in 1..Len(writes') : i = Len(writes) + 1 \/ i \in 1..Len(writes)
      BY <2>2
    <3>2. \A i \in 1..Len(writes) : writes[i] \in Nat /\ writes[i] <= lastSet
      BY DEF Queued
    <3>3. lastSet \in Nat
      BY <1>2, Zenon DEF Markers
    <3>4. ASSUME NEW i \in 1..Len(writes') PROVE writes'[i] <= lastSet + 1
      <4>1. CASE i = Len(writes) + 1
        BY <2>2, <3>3, <4>1
      <4>2. CASE i \in 1..Len(writes)
        <5>1. writes'[i] = writes[i] /\ writes[i] \in Nat /\ writes[i] <= lastSet
          BY <2>2, <3>2, <4>2, Zenon
        <5> QED BY <3>3, <5>1
      <4> QED BY <3>1, <4>1, <4>2, Zenon
    <3>5. Len(writes') <= MaxWrites
      BY <2>1, <2>2
    <3> QED BY <1>1, <2>2, <3>4, <3>5, Zenon DEF Queued
  <2>6. Quiet' /\ BlocksExact' /\ StatesKept' /\ Ticking' /\ Reading' /\ CacheCurrent' /\ IndexExact'
    BY <1>1, <2>1 DEF Quiet, BlocksExact, Present, StatesKept, Ticking, Reading, CacheCurrent, IndexExact
  <2>7. QueueOrder' /\ MetadataLatest'
    <3>1. \A i \in 1..Len(writes') : i = Len(writes) + 1 \/ i \in 1..Len(writes)
      BY <2>2
    <3>2. ~late
      BY <1>3, Zenon DEF QueueOrder, Control
    <3>3. \A i, j \in 1..Len(writes') : i < j => writes'[i] <= writes'[j]
      <4>1. \A i \in 1..Len(writes) : writes[i] \in Nat /\ writes[i] <= lastSet
        BY DEF Queued
      <4>2. \A i, j \in 1..Len(writes) : i < j => writes[i] <= writes[j]
        BY Zenon DEF QueueOrder
      <4>3. lastSet \in Nat
        BY Zenon DEF Markers
      <4>4. \A i \in 1..Len(writes') : i \in Int
        OBVIOUS
      <4> SUFFICES ASSUME NEW i \in 1..Len(writes'), NEW j \in 1..Len(writes'), i < j
                   PROVE  writes'[i] <= writes'[j]
        BY Zenon
      <4>5. i \in 1..Len(writes)
        BY <2>2, <3>1, <4>4
      <4>6. writes'[i] = writes[i] /\ writes[i] \in Nat /\ writes[i] <= lastSet
        BY <2>2, <4>1, <4>5, Zenon
      <4>7. CASE j = Len(writes) + 1
        BY <2>2, <4>3, <4>6, <4>7
      <4>8. CASE j \in 1..Len(writes)
        BY <2>2, <4>2, <4>5, <4>8, Zenon
      <4> QED BY <3>1, <4>7, <4>8, Zenon
    <3>4. \A i \in 1..Len(writes') : db.da <= writes'[i]
      <4>1. \A i \in 1..Len(writes) : db.da <= writes[i]
        BY <3>2, Zenon DEF QueueOrder
      <4>2. db.da <= lastSet + 1
        BY <1>2 DEF Markers
      <4> QED BY <2>2, <3>1, <4>1, <4>2, Zenon
    <3> QED BY <1>1, <1>3, <2>1, <2>2, <2>3, <3>2, <3>3, <3>4, Zenon DEF QueueOrder, MetadataLatest
  <2>8. ClaimedIncluded'
    <3>1. Claimed' = Claimed
      BY <1>1, <2>1, Zenon DEF Claimed
    <3>2. \A i \in 1..Len(writes') : i = Len(writes) + 1 \/ i \in 1..Len(writes)
      BY <2>2
    <3> QED BY <1>1, <1>2, <2>1, <2>2, <3>1, <3>2 DEF ClaimedIncluded, Markers
  <2> QED BY <2>4, <2>5, <2>6, <2>7, <2>8, Zenon
<1>4. CASE proc # "run"
  <2>1. /\ proc = "closing" /\ writes' = writes /\ db' = [db EXCEPT !.da = lastSet + 1] /\ late' = TRUE
    BY <1>4, Zenon DEF SetMetadata
  <2>2. /\ db'.height = db.height /\ db'.blocks = db.blocks /\ db'.index = db.index
        /\ db'.states = db.states /\ db'.prunedB = db.prunedB /\ db'.prunedS = db.prunedS
        /\ db'.da = lastSet + 1 /\ DbRecord'
    BY <2>1, Zenon DEF DbRecord
  <2>3. Control' /\ Markers' /\ Contents'
    BY <1>1, <2>1, <2>2 DEF Control, Markers, Contents
  <2>4. Queued'
    <3>1. \A i \in 1..Len(writes) : writes[i] \in Nat /\ writes[i] <= lastSet
      BY DEF Queued
    <3>2. \A i \in 1..Len(writes) : writes[i] <= lastSet + 1
      BY <3>1 DEF Markers
    <3> QED BY <1>1, <2>1, <3>2, Zenon DEF Queued
  <2>5. Quiet' /\ BlocksExact' /\ StatesKept' /\ Ticking' /\ Reading' /\ CacheCurrent' /\ IndexExact'
    BY <1>1, <2>1, <2>2 DEF Quiet, BlocksExact, Present, StatesKept, Ticking, Reading, CacheCurrent, IndexExact
  <2>6. QueueOrder' /\ MetadataLatest'
    BY <1>1, <1>4, <2>1, <2>2, Zenon DEF QueueOrder, MetadataLatest
  <2>7. ClaimedIncluded'
    <3>1. Claimed' = Claimed
      BY <1>1, <2>2, Zenon DEF Claimed
    <3> QED BY <1>1, <1>2, <2>1, <2>2, <3>1 DEF ClaimedIncluded, Markers
  <2> QED BY <2>2, <2>3, <2>4, <2>5, <2>6, <2>7, Zenon
<1> QED BY <1>3, <1>4, Zenon

LEMMA WriteLoopInv == ASSUME BInv, WriteLoop PROVE BInv'
<1> USE BlockConstants DEF BInv, BShape
<1>1. /\ conf' = conf /\ cached' = cached /\ reader' = reader /\ putBack' = putBack /\ late' = late
      /\ pruner' = pruner /\ proc' = proc /\ rollbacks' = rollbacks /\ lastSet' = lastSet /\ proc # "down"
  BY Zenon DEF WriteLoop
<1>2. PICK n \in 1..Len(writes) :
        /\ db' = [db EXCEPT !.da = Coalesced(SubSeq(writes, 1, n))]
        /\ writes' = SubSeq(writes, n + 1, Len(writes))
  BY Zenon DEF WriteLoop
<1>3. /\ Len(writes) \in Nat /\ n \in Nat /\ 1 <= n /\ n <= Len(writes)
      /\ \A i \in 1..Len(writes) : writes[i] \in Nat
  <2>1. Len(writes) \in Nat /\ \A i \in 1..Len(writes) : writes[i] \in Nat
    BY LenProperties, ElementOfSeq, Zenon DEF Queued
  <2> QED BY <1>2, <2>1
<1>4. Coalesced(SubSeq(writes, 1, n)) = writes[n]
  <2>1. Len(SubSeq(writes, 1, n)) = n /\ SubSeq(writes, 1, n)[n] = writes[n]
    BY <1>3, SubSeqProperties
  <2> QED BY <2>1, Zenon DEF Coalesced
<1>5. /\ writes' \in Seq(Nat) /\ Len(writes') = Len(writes) - n
      /\ \A i \in 1..(Len(writes) - n) : writes'[i] = writes[i + n]
  <2>1. \A i \in (n + 1)..Len(writes) : writes[i] \in Nat
    BY <1>3
  <2>2. /\ SubSeq(writes, n + 1, Len(writes)) \in Seq(Nat)
        /\ Len(SubSeq(writes, n + 1, Len(writes))) = Len(writes) - n
        /\ \A i \in 1..(Len(writes) - (n + 1) + 1) : SubSeq(writes, n + 1, Len(writes))[i] = writes[(n + 1) + i - 1]
    BY <1>3, <2>1, SubSeqProperties
  <2>3. \A i \in 1..(Len(writes) - n) : (n + 1) + i - 1 = i + n
    BY <1>3
  <2>4. Len(writes) - (n + 1) + 1 = Len(writes) - n
    BY <1>3
  <2> QED BY <1>2, <2>2, <2>3, <2>4, Zenon
<1>6. /\ db'.height = db.height /\ db'.blocks = db.blocks /\ db'.index = db.index
      /\ db'.states = db.states /\ db'.prunedB = db.prunedB /\ db'.prunedS = db.prunedS
      /\ db'.da = writes[n] /\ DbRecord'
  BY <1>2, <1>4, Zenon DEF DbRecord
<1>7. Control' /\ Markers' /\ Contents'
  BY <1>1, <1>2, <1>3, <1>6, Zenon DEF Control, Markers, Contents, Queued
<1>8. \A i \in 1..Len(writes') : i \in Nat /\ i + n \in 1..Len(writes) /\ writes'[i] = writes[i + n]
  BY <1>3, <1>5
<1>9. Queued'
  <2>1. Len(writes') <= MaxWrites
    BY <1>3, <1>5 DEF Queued
  <2>2. \A i \in 1..Len(writes) : writes[i] <= lastSet
    BY Zenon DEF Queued
  <2>3. \A i \in 1..Len(writes') : writes'[i] <= lastSet
    BY <1>8, <2>2, Zenon
  <2> QED BY <1>1, <1>5, <2>1, <2>3, Zenon DEF Queued
<1>10. Quiet' /\ BlocksExact' /\ StatesKept' /\ Ticking' /\ Reading' /\ CacheCurrent' /\ IndexExact'
  BY <1>1, <1>6 DEF Quiet, BlocksExact, Present, StatesKept, Ticking, Reading, CacheCurrent, IndexExact
<1>11. writes' = <<>> => n = Len(writes)
  BY <1>3, <1>5
<1>12. QueueOrder'
  <2>1. \A i, j \in 1..Len(writes') : i < j => writes'[i] <= writes'[j]
    BY <1>3, <1>8 DEF QueueOrder
  <2>2. \A i \in 1..Len(writes') : writes[n] <= writes'[i]
    <3>1. \A i \in 1..Len(writes') : n < i + n
      BY <1>3, <1>5
    <3> QED BY <1>2, <1>8, <3>1, Zenon DEF QueueOrder
  <2>3. ~late /\ writes' # <<>> => writes'[Len(writes')] = lastSet
    <3>1. writes' # <<>> => Len(writes') \in 1..Len(writes') /\ Len(writes') + n = Len(writes)
      BY <1>3, <1>5
    <3>2. writes # <<>>
      BY <1>3
    <3> QED BY <1>8, <3>1, <3>2, Zenon DEF QueueOrder
  <2> QED BY <1>1, <1>6, <2>1, <2>2, <2>3, Zenon DEF QueueOrder
<1>13. MetadataLatest'
  <2>1. writes # <<>>
    BY <1>3
  <2> QED BY <1>1, <1>6, <1>11, <2>1, Zenon DEF MetadataLatest, QueueOrder
<1>14. ClaimedIncluded'
  <2>1. Claimed' = Claimed
    BY <1>1, <1>6, Zenon DEF Claimed
  <2> QED BY <1>1, <1>2, <1>6, <1>8, <2>1, Zenon DEF ClaimedIncluded
<1> QED BY <1>6, <1>7, <1>9, <1>10, <1>12, <1>13, <1>14, Zenon

LEMMA TickInv == ASSUME BInv, PruneTick PROVE BInv'
<1> USE BlockConstants DEF BInv, BShape
<1>1. /\ conf' = conf /\ db' = db /\ cached' = cached /\ reader' = reader /\ putBack' = putBack
      /\ writes' = writes /\ lastSet' = lastSet /\ late' = late /\ proc' = proc /\ rollbacks' = rollbacks
      /\ proc = "run" /\ pruner.pc = "idle"
  BY Zenon DEF PruneTick
<1>2. /\ DbRecord' /\ Markers' /\ Contents' /\ Queued' /\ Quiet' /\ BlocksExact' /\ StatesKept'
      /\ QueueOrder' /\ Reading' /\ CacheCurrent' /\ IndexExact' /\ MetadataLatest'
  BY <1>1, Zenon DEF DbRecord, Markers, Contents, Queued, Quiet, BlocksExact, Present, StatesKept, QueueOrder,
              Reading, CacheCurrent, IndexExact, MetadataLatest
<1>3. ~late
  BY <1>1, Zenon DEF QueueOrder, Control
<1>4. /\ db.height \in Nat /\ db.height <= MaxStoreHeight /\ db.prunedB \in Nat /\ db.prunedB <= db.height
      /\ db.prunedS \in Nat /\ db.da \in Nat
  BY Zenon DEF Markers
<1>5. /\ upperBound \in Nat /\ upperBound <= db.height
      /\ conf.daEnabled => upperBound <= db.da
  BY <1>4 DEF upperBound, Least
<1>6. CASE conf.mode = "all"
  <2>1. PICK to : /\ to = Greatest(Least(db.prunedB + pruneBudget, upperBound - KeepRecent), db.prunedB)
                  /\ to > 0 /\ upperBound > KeepRecent
                  /\ pruner' = [pc |-> "blocks", from |-> db.prunedB, to |-> to]
    BY <1>6, Zenon DEF PruneTick
  <2>2. /\ to \in Nat /\ db.prunedB <= to /\ to <= db.height
        /\ to <= upperBound \/ to = db.prunedB
    BY <1>4, <1>5, <2>1 DEF Greatest, Least
  <2>3. Control'
    BY <1>1, <1>4, <2>1, <2>2, Zenon DEF Control
  <2>4. Ticking'
    BY <1>1, <1>4, <1>6, <2>1, <2>2 DEF Ticking
  <2>5. ClaimedIncluded'
    <3>1. Claimed' = to /\ Claimed = db.prunedB
      BY <1>1, <2>1, Zenon DEF Claimed
    <3>2. conf.daEnabled => to <= db.da
      BY <1>4, <1>5, <2>2, <3>1 DEF ClaimedIncluded
    <3>3. \A i \in 1..Len(writes) : writes[i] \in Nat /\ db.da <= writes[i]
      BY <1>3 DEF Queued, QueueOrder
    <3> QED BY <1>1, <1>4, <2>2, <3>1, <3>2, <3>3 DEF ClaimedIncluded
  <2> QED BY <1>2, <2>3, <2>4, <2>5, Zenon
<1>7. CASE conf.mode # "all"
  <2>1. /\ conf.mode = "metadata" /\ db.height > KeepRecent + 1
        /\ pruner' = [pc |-> "states", from |-> db.prunedS,
                      to |-> Least(db.prunedS + pruneBudget, db.height - KeepRecent - 1)]
    BY <1>7, Zenon DEF PruneTick
  <2> DEFINE to == Least(db.prunedS + pruneBudget, db.height - KeepRecent - 1)
  <2>2. to \in Nat /\ to <= MaxStoreHeight
    BY <1>4, <2>1 DEF Least
  <2>3. Control'
    BY <1>1, <1>4, <2>1, <2>2, Zenon DEF Control
  <2>4. Ticking'
    BY <1>1, <1>4, <1>7, <2>1, <2>2, Zenon DEF Ticking
  <2>5. ClaimedIncluded'
    BY <1>1, <2>1, Zenon DEF ClaimedIncluded, Claimed
  <2> QED BY <1>2, <2>3, <2>4, <2>5, Zenon
<1> QED BY <1>6, <1>7, Zenon

LEMMA PruneBlocksInv == ASSUME BInv, PruneBlocks PROVE BInv'
<1> USE BlockConstants DEF BInv, BShape
<1>1. /\ conf' = conf /\ reader' = reader /\ putBack' = putBack /\ writes' = writes
      /\ lastSet' = lastSet /\ late' = late /\ proc' = proc /\ rollbacks' = rollbacks
      /\ proc = "run" /\ pruner.pc = "blocks"
  BY Zenon DEF PruneBlocks
<1>2. /\ db.height \in Nat /\ db.height <= MaxStoreHeight /\ db.prunedB \in Nat /\ db.prunedB <= db.height
      /\ db.prunedS \in Nat /\ db.da \in Nat
  BY Zenon DEF Markers
<1>3. /\ conf.mode = "all" /\ pruner.from = db.prunedB /\ pruner.from <= pruner.to /\ 1 <= pruner.to
      /\ pruner.to <= db.height /\ pruner.to \in Nat /\ Claimed = pruner.to
  BY <1>1, Zenon DEF Ticking, Claimed, Control
<1>4. CASE pruner.from < pruner.to
  <2>1. PICK end : /\ end = Least(pruner.from + maxPruneChunk, pruner.to)
                   /\ db' = [db EXCEPT !.blocks = [h \in SHeights |-> IF h \in (db.prunedB + 1)..end THEN NoVer ELSE @[h]],
                                       !.index = {i \in @ : i[2] \notin (db.prunedB + 1)..end},
                                       !.prunedB = end]
                   /\ cached' = InvalidateRange(cached, 1, end)
                   /\ pruner' = [pruner EXCEPT !.from = end]
    BY <1>4, Zenon DEF PruneBlocks
  <2>2. end \in Nat /\ db.prunedB < end /\ end <= pruner.to /\ end <= db.height
    BY <1>2, <1>3, <1>4, <2>1 DEF Least
  <2>3. /\ db'.height = db.height /\ db'.states = db.states /\ db'.da = db.da /\ db'.prunedS = db.prunedS
        /\ db'.blocks = [h \in SHeights |-> IF h \in (db.prunedB + 1)..end THEN NoVer ELSE db.blocks[h]]
        /\ db'.index = {i \in db.index : i[2] \notin (db.prunedB + 1)..end} /\ db'.prunedB = end /\ DbRecord'
    BY <2>1, Zenon DEF DbRecord
  <2>4. pruner' = [pc |-> "blocks", from |-> end, to |-> pruner.to]
    BY <1>1, <2>1, Zenon DEF Control
  <2>5. Control' /\ Queued'
    BY <1>1, <1>3, <2>2, <2>4, Zenon DEF Control, Queued
  <2>6. Markers'
    BY <1>1, <2>2, <2>3, Zenon DEF Markers
  <2>7. \A h \in SHeights :
          /\ h \in Nat
          /\ h <= end => cached'[h] = NoVer
          /\ h > end => cached'[h] = cached[h]
          /\ h <= db.prunedB \/ h > end => db'.blocks[h] = db.blocks[h]
          /\ db.prunedB < h /\ h <= end => db'.blocks[h] = NoVer
    BY <1>2, <2>1, <2>2, <2>3 DEF InvalidateRange, SHeights
  <2>8. Contents'
    <3>1. db'.blocks \in [SHeights -> -1..MaxRollbacks]
      BY <2>3 DEF Contents, NoVer
    <3>2. cached' \in [SHeights -> Int]
      BY <2>1 DEF Contents, InvalidateRange, NoVer
    <3> QED BY <2>3, <3>1, <3>2, Zenon DEF Contents
  <2>9. Quiet' /\ QueueOrder' /\ MetadataLatest'
    BY <1>1, <2>3, Zenon DEF Quiet, QueueOrder, MetadataLatest
  <2>10. BlocksExact'
    BY <1>2, <2>2, <2>3, <2>7 DEF BlocksExact
  <2>11. StatesKept'
    BY <1>1, <1>2, <2>2, <2>3 DEF StatesKept
  <2>12. Ticking'
    BY <1>1, <1>3, <2>2, <2>3, <2>4, Zenon DEF Ticking
  <2>13. ClaimedIncluded'
    <3>1. Claimed' = Claimed
      BY <1>3, <2>4, Zenon DEF Claimed
    <3> QED BY <1>1, <2>3, <3>1, Zenon DEF ClaimedIncluded
  <2>14. Reading'
    BY <1>1, <1>2, <2>2, <2>3, <2>7 DEF Reading, Control
  <2>15. CacheCurrent'
    BY <1>1, <1>2, <2>2, <2>7 DEF CacheCurrent
  <2>16. IndexExact'
    <3>1. \A h \in SHeights : IndexKey(h, db.blocks[h])[2] = h
      BY Zenon DEF IndexKey
    <3>2. \A h \in SHeights : Present(db', h) <=> Present(db, h) /\ h \notin (db.prunedB + 1)..end
      BY <1>2, <2>2, <2>3, <2>7, <2>10, Zenon DEF Present, BlocksExact
    <3>3. \A h \in SHeights : Present(db', h) => db'.blocks[h] = db.blocks[h]
      BY <2>3, Zenon DEF Present
    <3>4. ASSUME NEW i PROVE i \in db'.index <=> i \in {IndexKey(h, db'.blocks[h]) : h \in {x \in SHeights : Present(db', x)}}
      BY <2>3, <3>1, <3>2, <3>3 DEF IndexExact
    <3> QED BY <3>4, Zenon DEF IndexExact
  <2> QED BY <2>3, <2>5, <2>6, <2>8, <2>9, <2>10, <2>11, <2>12, <2>13, <2>14, <2>15, <2>16, Zenon
<1>5. CASE ~(pruner.from < pruner.to)
  <2>1. /\ pruner' = [pc |-> "states", from |-> db.prunedS,
                      to |-> Least(db.prunedS + pruneBudget, StatesEnd(pruner.to))]
        /\ db' = db /\ cached' = cached
    BY <1>5, Zenon DEF PruneBlocks
  <2>2. pruner.to = db.prunedB
    BY <1>2, <1>3, <1>5
  <2> DEFINE to == Least(db.prunedS + pruneBudget, StatesEnd(pruner.to))
  <2>3. to \in Nat /\ to < db.prunedB /\ to <= MaxStoreHeight
    BY <1>2, <1>3, <2>2 DEF Least, StatesEnd
  <2>4. /\ DbRecord' /\ Markers' /\ Contents' /\ Queued' /\ Quiet' /\ BlocksExact' /\ StatesKept'
        /\ QueueOrder' /\ Reading' /\ CacheCurrent' /\ IndexExact' /\ MetadataLatest'
    BY <1>1, <2>1, Zenon DEF DbRecord, Markers, Contents, Queued, Quiet, BlocksExact, Present, StatesKept, QueueOrder,
                      Reading, CacheCurrent, IndexExact, MetadataLatest
  <2>5. Control'
    BY <1>1, <1>2, <2>1, <2>3, Zenon DEF Control
  <2>6. Ticking'
    BY <1>1, <1>2, <2>1, <2>3, Zenon DEF Ticking
  <2>7. ClaimedIncluded'
    <3>1. Claimed' = Claimed
      BY <1>3, <2>1, <2>2, Zenon DEF Claimed
    <3> QED BY <1>1, <2>1, <3>1, Zenon DEF ClaimedIncluded
  <2> QED BY <2>4, <2>5, <2>6, <2>7, Zenon
<1> QED BY <1>4, <1>5, Zenon

LEMMA PruneStatesInv == ASSUME BInv, PruneStates PROVE BInv'
<1> USE BlockConstants DEF BInv, BShape
<1>1. /\ conf' = conf /\ reader' = reader /\ putBack' = putBack /\ writes' = writes /\ cached' = cached
      /\ lastSet' = lastSet /\ late' = late /\ proc' = proc /\ rollbacks' = rollbacks
      /\ proc = "run" /\ pruner.pc = "states"
  BY Zenon DEF PruneStates
<1>2. /\ db.height \in Nat /\ db.height <= MaxStoreHeight /\ db.prunedB \in Nat /\ db.prunedB <= db.height
      /\ db.prunedS \in Nat /\ db.da \in Nat
  BY Zenon DEF Markers
<1>3. /\ pruner.from = db.prunedS /\ pruner.to <= MaxStoreHeight /\ pruner.to \in Nat
      /\ conf.mode = "all" => pruner.to < db.prunedB
  BY <1>1, Zenon DEF Ticking, Control
<1>4. Claimed = db.prunedB
  BY <1>1, Zenon DEF Claimed
<1>5. CASE pruner.from < pruner.to
  <2>1. PICK end : /\ end = Least(pruner.from + maxPruneChunk, pruner.to)
                   /\ db' = [db EXCEPT !.states = @ \ ((db.prunedS + 1)..end), !.prunedS = end]
                   /\ pruner' = [pruner EXCEPT !.from = end]
    BY <1>5, Zenon DEF PruneStates
  <2>2. end \in Nat /\ db.prunedS < end /\ end <= pruner.to /\ end <= MaxStoreHeight
    BY <1>2, <1>3, <1>5, <2>1 DEF Least
  <2>3. /\ db'.height = db.height /\ db'.blocks = db.blocks /\ db'.index = db.index /\ db'.da = db.da
        /\ db'.prunedB = db.prunedB /\ db'.prunedS = end
        /\ db'.states = db.states \ ((db.prunedS + 1)..end) /\ DbRecord'
    BY <2>1, Zenon DEF DbRecord
  <2>4. pruner' = [pc |-> "states", from |-> end, to |-> pruner.to]
    BY <1>1, <2>1, Zenon DEF Control
  <2>5. Control' /\ Markers' /\ Contents' /\ Queued'
    <3>1. Control' /\ Queued'
      BY <1>1, <1>3, <2>2, <2>4, Zenon DEF Control, Queued
    <3>2. Markers'
      BY <1>1, <2>2, <2>3, Zenon DEF Markers
    <3> QED BY <1>1, <2>3, <3>1, <3>2, Zenon DEF Contents
  <2>6. /\ Quiet' /\ BlocksExact' /\ QueueOrder' /\ Reading' /\ CacheCurrent' /\ IndexExact' /\ MetadataLatest'
    BY <1>1, <2>3 DEF Quiet, BlocksExact, Present, QueueOrder, Reading, CacheCurrent, IndexExact, MetadataLatest
  <2>7. StatesKept'
    BY <1>1, <1>2, <1>3, <2>2, <2>3 DEF StatesKept
  <2>8. Ticking'
    BY <1>1, <1>3, <2>2, <2>3, <2>4, Zenon DEF Ticking
  <2>9. ClaimedIncluded'
    <3>1. Claimed' = Claimed
      BY <1>4, <2>3, <2>4, Zenon DEF Claimed
    <3> QED BY <1>1, <2>3, <3>1, Zenon DEF ClaimedIncluded
  <2> QED BY <2>3, <2>5, <2>6, <2>7, <2>8, <2>9, Zenon
<1>6. CASE ~(pruner.from < pruner.to)
  <2>1. pruner' = IdlePruner /\ db' = db
    BY <1>6, Zenon DEF PruneStates
  <2>2. /\ DbRecord' /\ Markers' /\ Contents' /\ Queued' /\ Quiet' /\ BlocksExact' /\ StatesKept'
        /\ QueueOrder' /\ Reading' /\ CacheCurrent' /\ IndexExact' /\ MetadataLatest'
    BY <1>1, <2>1, Zenon DEF DbRecord, Markers, Contents, Queued, Quiet, BlocksExact, Present, StatesKept, QueueOrder,
                      Reading, CacheCurrent, IndexExact, MetadataLatest
  <2>3. Control' /\ Ticking'
    BY <1>1, <2>1, Zenon DEF Control, Ticking, IdlePruner
  <2>4. ClaimedIncluded'
    <3>1. Claimed' = Claimed
      BY <1>4, <2>1, Zenon DEF Claimed, IdlePruner
    <3> QED BY <1>1, <2>1, <3>1, Zenon DEF ClaimedIncluded
  <2> QED BY <2>2, <2>3, <2>4, Zenon
<1> QED BY <1>5, <1>6, Zenon

LEMMA StopInv == ASSUME BInv, CrashStore \/ CloseBegin PROVE BInv'
<1> USE BlockConstants DEF BInv, BShape
<1>1. /\ conf' = conf /\ db' = db /\ rollbacks' = rollbacks
      /\ cached' = [h \in SHeights |-> NoVer] /\ putBack' = {}
      /\ reader' = IdleReader /\ pruner' = IdlePruner /\ proc' \in {"closing", "down"}
  BY Zenon DEF CrashStore, CloseBegin, Forget
<1>2. \/ proc' = "down" /\ writes' = <<>> /\ lastSet' = db.da /\ late' = FALSE
      \/ proc' = "closing" /\ proc = "run" /\ writes' = writes /\ lastSet' = lastSet /\ late' = late
  BY Zenon DEF CrashStore, CloseBegin
<1>3. /\ IdlePruner \in [pc : {"idle", "blocks", "states"}, from : Nat, to : Nat]
      /\ IdleReader \in [pc : {"idle", "add"}, h : Nat, v : Int]
      /\ IdlePruner.pc = "idle" /\ IdleReader.pc = "idle"
  BY DEF IdlePruner, IdleReader, NoVer
<1>4. DbRecord' /\ Quiet' /\ BlocksExact' /\ StatesKept' /\ IndexExact'
  BY <1>1, Zenon DEF DbRecord, Quiet, BlocksExact, Present, StatesKept, IndexExact
<1>5. Control'
  BY <1>1, <1>2, <1>3, Zenon DEF Control
<1>6. Contents'
  BY <1>1 DEF Contents, NoVer
<1>7. Ticking' /\ Reading' /\ CacheCurrent'
  BY <1>1, <1>3, Zenon DEF Ticking, Reading, CacheCurrent
<1>8. Markers'
  BY <1>1, <1>2 DEF Markers
<1>9. Queued' /\ QueueOrder' /\ MetadataLatest'
  <2>1. CASE proc' = "down" /\ writes' = <<>> /\ lastSet' = db.da /\ late' = FALSE
    <3>1. Len(writes') = 0 /\ writes' \in Seq(Nat)
      BY <2>1
    <3> QED BY <1>1, <2>1, <3>1 DEF Queued, QueueOrder, MetadataLatest
  <2>2. CASE proc' = "closing" /\ proc = "run" /\ writes' = writes /\ lastSet' = lastSet /\ late' = late
    BY <1>1, <2>2, Zenon DEF Queued, QueueOrder, MetadataLatest
  <2> QED BY <1>2, <2>1, <2>2, Zenon
<1>10. ClaimedIncluded'
  <2>1. Claimed' = db.prunedB /\ Claimed \in Nat /\ db.prunedB <= Claimed
    BY <1>1, <1>3, ClaimedType DEF Claimed, Ticking, Markers
  <2>2. db.prunedB \in Nat /\ db.da \in Nat /\ \A i \in 1..Len(writes) : writes[i] \in Nat
    BY ElementOfSeq, Zenon DEF Markers, Queued
  <2>3. conf.daEnabled => db.prunedB <= db.da
    BY <2>1, <2>2 DEF ClaimedIncluded
  <2>4. conf.daEnabled => \A i \in 1..Len(writes) : db.prunedB <= writes[i]
    BY <2>1, <2>2 DEF ClaimedIncluded
  <2>5. conf.daEnabled => \A i \in 1..Len(writes') : db.prunedB <= writes'[i]
    BY <1>2, <2>4
  <2> QED BY <1>1, <2>1, <2>3, <2>5, Zenon DEF ClaimedIncluded
<1> QED BY <1>4, <1>5, <1>6, <1>7, <1>8, <1>9, <1>10, Zenon

LEMMA StartInv == ASSUME BInv, CloseEnd \/ OpenStore PROVE BInv'
<1> USE BlockConstants DEF BInv, BShape
<1>1. /\ conf' = conf /\ db' = db /\ rollbacks' = rollbacks /\ cached' = cached /\ putBack' = putBack
      /\ reader' = reader /\ pruner' = pruner /\ writes' = writes /\ writes = <<>> /\ proc # "run"
  BY Zenon DEF CloseEnd, OpenStore, QueueOrder
<1>2. \/ proc' = "down" /\ lastSet' = lastSet /\ late' = late
      \/ proc' = "run" /\ lastSet' = db.da /\ late' = FALSE
  BY Zenon DEF CloseEnd, OpenStore
<1>3. /\ DbRecord' /\ Contents' /\ BlocksExact' /\ StatesKept' /\ Ticking' /\ ClaimedIncluded'
      /\ Reading' /\ CacheCurrent' /\ IndexExact' /\ Quiet'
  BY <1>1 DEF DbRecord, Contents, Quiet, BlocksExact, Present, StatesKept, Ticking, ClaimedIncluded, Claimed,
              Reading, CacheCurrent, IndexExact
<1>4. Control' /\ Markers' /\ Queued'
  <2>1. Control'
    BY <1>1, <1>2, Zenon DEF Control
  <2>2. Markers'
    BY <1>1, <1>2 DEF Markers
  <2> QED BY <1>1, <2>1, <2>2 DEF Queued
<1>5. QueueOrder' /\ MetadataLatest'
  BY <1>1, <1>2 DEF QueueOrder, MetadataLatest
<1> QED BY <1>3, <1>4, <1>5, Zenon

LEMMA RollbackInv == ASSUME BInv, Rollback PROVE BInv'
<1> USE BlockConstants DEF BInv, BShape
<1>1. /\ conf' = conf /\ cached' = cached /\ putBack' = putBack /\ reader' = reader /\ pruner' = pruner
      /\ writes' = writes /\ late' = late /\ proc' = proc /\ proc = "down"
      /\ rollbacks' = rollbacks + 1 /\ rollbacks < MaxRollbacks
  BY Zenon DEF Rollback
<1>2. PICK to \in 0..(db.height - 1) :
        /\ \A h \in (to + 1)..db.height : Present(db, h)
        /\ db' = [db EXCEPT !.blocks = [h \in SHeights |-> IF h > to THEN NoVer ELSE @[h]],
                            !.index = RolledIndex(@, to),
                            !.states = {h \in @ : h <= to},
                            !.da = RolledDA(@, to), !.height = to]
        /\ lastSet' = Least(lastSet, to)
  BY Zenon DEF Rollback
<1>3. /\ db.height \in Nat /\ db.height <= MaxStoreHeight /\ db.prunedB \in Nat /\ db.prunedB <= db.height
      /\ db.prunedS \in Nat /\ db.da \in Nat /\ lastSet \in Nat /\ db.da <= lastSet
  BY Zenon DEF Markers
<1>4. to \in Nat /\ to < db.height
  BY <1>2, <1>3
<1>5. /\ db'.height = to /\ db'.blocks = [h \in SHeights |-> IF h > to THEN NoVer ELSE db.blocks[h]]
      /\ db'.index = RolledIndex(db.index, to) /\ db'.states = {h \in db.states : h <= to}
      /\ db'.da = RolledDA(db.da, to) /\ db'.prunedB = db.prunedB /\ db'.prunedS = db.prunedS /\ DbRecord'
  BY <1>2, Zenon DEF DbRecord
<1>6. db.prunedB <= to
  <2> SUFFICES ASSUME db.prunedB > to PROVE FALSE
    BY <1>3, <1>4
  <2>1. db.prunedB \in (to + 1)..db.height /\ db.prunedB \in SHeights
    BY <1>3, <1>4 DEF SHeights
  <2> QED BY <1>2, <1>3, <2>1 DEF Present, BlocksExact
<1>7. \A h \in SHeights :
        /\ h \in Nat
        /\ h <= to => db'.blocks[h] = db.blocks[h]
        /\ h > to => db'.blocks[h] = NoVer
  BY <1>4, <1>5 DEF SHeights
<1>8. /\ cached = [h \in SHeights |-> NoVer] /\ reader.pc = "idle" /\ pruner.pc = "idle" /\ writes = <<>>
  BY <1>1 DEF Quiet, QueueOrder, IdleReader, IdlePruner
<1>9. db'.da \in Nat /\ db'.da <= lastSet' /\ lastSet' <= to /\ lastSet' \in Nat
      /\ (db.prunedB <= db.da => db.prunedB <= db'.da) /\ (db.da = lastSet => db'.da = lastSet')
  BY <1>2, <1>3, <1>4, <1>5, <1>6 DEF Least, RolledDA
<1>10. Control' /\ Markers'
  <2>1. Control'
    BY <1>1, Zenon DEF Control
  <2>2. rollbacks' \in Nat /\ rollbacks' <= MaxRollbacks
    BY <1>1 DEF Markers
  <2> QED BY <1>3, <1>4, <1>5, <1>6, <1>9, <2>1, <2>2 DEF Markers
<1>11. Contents' /\ Queued'
  <2>1. db'.blocks \in [SHeights -> -1..MaxRollbacks]
    BY <1>5 DEF Contents, NoVer
  <2>2. db'.states \subseteq 0..db'.height
    BY <1>3, <1>4, <1>5 DEF Contents
  <2> QED BY <1>1, <1>8, <2>1, <2>2 DEF Contents, Queued
<1>12. Quiet' /\ QueueOrder' /\ MetadataLatest'
  BY <1>1, <1>8, <1>9 DEF Quiet, QueueOrder, MetadataLatest
<1>13. BlocksExact'
  BY <1>3, <1>4, <1>5, <1>6, <1>7 DEF BlocksExact
<1>14. StatesKept'
  BY <1>1, <1>3, <1>4, <1>5 DEF StatesKept
<1>15. Ticking' /\ Reading' /\ CacheCurrent'
  BY <1>1, <1>8, Zenon DEF Ticking, Reading, CacheCurrent
<1>16. ClaimedIncluded'
  BY <1>1, <1>5, <1>8, <1>9, Zenon DEF ClaimedIncluded, Claimed
<1>17. IndexExact'
  <2>1. \A h \in SHeights : IndexKey(h, db.blocks[h])[2] = h
    BY Zenon DEF IndexKey
  <2>2. \A h \in SHeights : Present(db', h) <=> Present(db, h) /\ h <= to
    BY <1>4, <1>7 DEF Present
  <2>3. \A h \in SHeights : Present(db', h) => db'.blocks[h] = db.blocks[h]
    BY <1>5, Zenon DEF Present
  <2>4. ASSUME NEW i PROVE i \in db'.index <=> i \in {IndexKey(h, db'.blocks[h]) : h \in {x \in SHeights : Present(db', x)}}
    BY <1>5, <2>1, <2>2, <2>3 DEF IndexExact, RolledIndex
  <2> QED BY <2>4, Zenon DEF IndexExact
<1> QED BY <1>5, <1>10, <1>11, <1>12, <1>13, <1>14, <1>15, <1>16, <1>17, Zenon

LEMMA BNextInv == BInv /\ [BNext]_bVars => BInv'
<1> SUFFICES ASSUME BInv, [BNext]_bVars PROVE BInv'
  BY Zenon
<1>1. CASE UNCHANGED bVars
  <2>1. /\ db' = db /\ conf' = conf /\ cached' = cached /\ reader' = reader /\ putBack' = putBack
        /\ writes' = writes /\ lastSet' = lastSet /\ late' = late /\ pruner' = pruner
        /\ proc' = proc /\ rollbacks' = rollbacks
    BY <1>1, Zenon DEF bVars
  <2>2. DbRecord' /\ Control' /\ Markers' /\ Contents' /\ Queued'
    BY <2>1, Zenon DEF BInv, BShape, DbRecord, Control, Markers, Contents, Queued
  <2>3. BlocksExact' /\ StatesKept' /\ Ticking' /\ QueueOrder' /\ ClaimedIncluded'
    BY <2>1, Zenon DEF BInv, BlocksExact, StatesKept, Ticking, QueueOrder, ClaimedIncluded, Claimed
  <2>4. Quiet' /\ Reading' /\ CacheCurrent' /\ IndexExact' /\ MetadataLatest'
    BY <2>1, Zenon DEF BInv, Quiet, Reading, CacheCurrent, IndexExact, Present, MetadataLatest
  <2> QED BY <2>2, <2>3, <2>4, Zenon DEF BInv, BShape
<1>2. CASE BNext
  BY <1>2, CommitInv, ReadInv, MetadataInv, WriteLoopInv, TickInv, PruneBlocksInv, PruneStatesInv, StopInv, StartInv,
     RollbackInv, Zenon DEF BNext
<1> QED BY <1>1, <1>2, Zenon

LEMMA BInvHolds == BSpec => []BInv
BY BInitInv, BNextInv, PTL DEF BSpec

LEMMA BInvTypes == BInv => BTypeOK
<1> SUFFICES ASSUME BInv PROVE BTypeOK
  BY Zenon
<1> USE BlockConstants DEF BInv, BShape
<1>1. pruner.from <= MaxStoreHeight
  BY DEF Control, Markers, Ticking, IdlePruner
<1>2. /\ db.height \in 0..MaxStoreHeight /\ db.da \in 0..db.height /\ db.prunedB \in 0..db.height
      /\ db.prunedS \in 0..MaxStoreHeight /\ lastSet \in 0..db.height
  BY DEF Markers
<1> QED BY <1>1, <1>2, Zenon DEF BTypeOK, Control, Contents, Queued

LEMMA BInvReplayable == BInv => RetainedReplayable
<1> SUFFICES ASSUME BInv, NEW h \in (db.prunedB + 1)..db.height
             PROVE  /\ Present(db, h)
                    /\ conf.mode = "all" => {h - 1, h} \subseteq db.states
                    /\ h - 1 > db.prunedS => h - 1 \in db.states
  BY Zenon DEF RetainedReplayable
<1> USE BlockConstants DEF BInv, BShape
<1>1. /\ h \in SHeights /\ h \in 0..db.height /\ h - 1 \in 0..db.height
      /\ db.prunedB < h /\ h >= db.prunedB /\ h - 1 >= db.prunedB
  BY DEF Markers, SHeights
<1>2. Present(db, h)
  BY <1>1 DEF BlocksExact, Present
<1> QED BY <1>1, <1>2, Zenon DEF StatesKept

LEMMA BInvIncluded == BInv => PrunedIsIncluded
<1> SUFFICES ASSUME BInv, conf.daEnabled PROVE db.prunedB <= db.da
  BY Zenon DEF PrunedIsIncluded
<1>1. Claimed \in Nat /\ db.prunedB <= Claimed /\ db.prunedB \in Nat /\ db.da \in Nat
  BY ClaimedType DEF Claimed, BInv, BShape, Ticking, Markers
<1> QED BY <1>1 DEF BInv, ClaimedIncluded

(* The store's types: the pruning markers, the DA-included height and the  *)
(* states held stay within the chain through rollbacks, crashes and late   *)
(* writes (store.go, cached_store.go, pruner.go).                          *)
THEOREM BlockStoreTypes == BSpec => []BTypeOK
BY BInvHolds, BInvTypes, PTL

(* However commits, chunks of a pruning tick, crashes and rollbacks        *)
(* interleave, every block above the marker is there and, where whole      *)
(* blocks are pruned, so is the state before it (pruner.go pruneBlocks,    *)
(* keys.go, store.go Rollback).                                            *)
THEOREM RetainedCanBeReplayed == BSpec => []RetainedReplayable
BY BInvHolds, BInvReplayable, PTL

(* With DA enabled nothing is pruned that the store does not record as     *)
(* included, although metadata is written late and a rollback lowers it    *)
(* (pruner.go pruneBlocks, store.go Rollback).                             *)
THEOREM OnlyIncludedIsPruned == BSpec => []PrunedIsIncluded
BY BInvHolds, BInvIncluded, PTL

(* A cached block is the store's, or a pruned one that a read under way    *)
(* put back (cached_store.go PruneBlocks, Rollback).                       *)
THEOREM CacheFollowsStore == BSpec => []CacheCurrent
<1>1. BInv => CacheCurrent
  BY Zenon DEF BInv
<1> QED BY <1>1, BInvHolds, PTL

(* The index by hash names the blocks held and no other (store.go          *)
(* SaveBlockData, PruneBlocks, Rollback).                                  *)
THEOREM IndexFollowsStore == BSpec => []IndexExact
<1>1. BInv => IndexExact
  BY Zenon DEF BInv
<1> QED BY <1>1, BInvHolds, PTL

(* With nothing queued the metadata on disk is the value set last, unless  *)
(* one was set while the store was closing (cached_store.go).              *)
THEOREM QueueLosesNothing == BSpec => []MetadataLatest
<1>1. BInv => MetadataLatest
  BY Zenon DEF BInv
<1> QED BY <1>1, BInvHolds, PTL

-----------------------------------------------------------------------------
(* The local DA layer.  The blobs a height may hold, and the events made   *)
(* of them.                                                                *)
LBlocks == Submissions \cup {<<>>} \cup UNION {{SubSeq(s, 1, i - 1) : i \in DOMAIN s} : s \in Submissions}
LEvents == [height : Nat, blobs : {Matching(x, ns) : x \in LBlocks, ns \in Namespaces}]

(* D is the stream of a subscriber of ns that came at height from, over    *)
(* the blocks of data, with the heights of gaps missing.                   *)
StreamOf(D, data, from, ns, gaps) ==
  /\ \A i, j \in DOMAIN D : i < j => D[i].height < D[j].height
  /\ {D[i].height : i \in DOMAIN D} = (from..Len(data)) \ gaps
  /\ \A i \in DOMAIN D : D[i].blobs = Matching(data[D[i].height], ns)

LShape ==
  /\ lData \in Seq(LBlocks)
  /\ \A s \in lSub : s.ns \in Namespaces /\ s.from \in 1..(Len(lData) + 1) /\ lSub = {s}
  /\ lDropped \subseteq 1..Len(lData) /\ lFailed \subseteq 1..Len(lData)
  /\ lEvents \in Seq(LEvents) /\ lTaken \in Seq(LEvents)
  /\ lOut \in Seq(LEvents) /\ lSeen \in Seq(LEvents)

StreamInv == LShape /\ LocalStreamExact
-----------------------------------------------------------------------------
(* Moving the first of what follows to the end of what comes before.       *)
LEMMA MoveHead ==
  ASSUME NEW s \in Seq(LEvents), NEW t \in Seq(LEvents), t # <<>>
  PROVE  /\ <<Head(t)>> \in Seq(LEvents) /\ Head(t) \in LEvents /\ Tail(t) \in Seq(LEvents)
         /\ s \o t = s \o <<Head(t)>> \o Tail(t)
<1>1. Head(t) \in LEvents /\ Tail(t) \in Seq(LEvents)
  BY HeadTailProperties
<1>2. <<Head(t)>> \in Seq(LEvents)
  BY <1>1
<1>3. t = <<Head(t)>> \o Tail(t)
  BY <1>1, HeadTailProperties
<1>4. s \o t = (s \o <<Head(t)>>) \o Tail(t)
  BY <1>1, <1>2, <1>3, ConcatAssociative
<1> QED BY <1>1, <1>2, <1>4, Zenon

LEMMA DeliveredSeq ==
  ASSUME LShape
  PROVE  /\ lSeen \o lOut \in Seq(LEvents) /\ lSeen \o lOut \o lTaken \in Seq(LEvents)
         /\ Delivered \in Seq(LEvents)
  BY ConcatProperties, Zenon DEF LShape, Delivered

(* A new block's event is behind all that was delivered.                   *)
LEMMA StreamGrows ==
  ASSUME NEW D \in Seq(LEvents), NEW data \in Seq(LBlocks), NEW block \in LBlocks,
         NEW ns \in Namespaces, NEW from \in 1..(Len(data) + 1), NEW gaps \in SUBSET (1..Len(data)),
         StreamOf(D, data, from, ns, gaps)
  PROVE  StreamOf(Append(D, EventOf(Len(data) + 1, block, ns)), Append(data, block), from, ns, gaps)
<1> DEFINE n == Len(data) + 1
           x == EventOf(n, block, ns)
           E == Append(D, x)
           more == Append(data, block)
<1>1. /\ n \in Nat /\ Len(data) \in Nat /\ Len(more) = n
      /\ more[n] = block /\ \A h \in 1..Len(data) : more[h] = data[h]
  BY AppendProperties
<1>2. x \in LEvents /\ x.height = n /\ x.blobs = Matching(block, ns)
  BY <1>1 DEF EventOf, LEvents
<1>3. /\ DOMAIN D = 1..Len(D) /\ DOMAIN E = 1..(Len(D) + 1) /\ Len(D) \in Nat
      /\ E[Len(D) + 1] = x /\ \A i \in 1..Len(D) : E[i] = D[i]
  BY <1>2, AppendProperties, LenProperties
<1> HIDE DEF x, E, more, n
<1>4. \A i \in 1..Len(D) : D[i].height \in from..Len(data) /\ D[i].height \notin gaps
  BY <1>3 DEF StreamOf
<1>5. \A i \in 1..Len(D) : D[i].height \in 1..Len(data) /\ D[i].height < n
  BY <1>1, <1>4 DEF n
<1>6. \A i, j \in DOMAIN E : i < j => E[i].height < E[j].height
  <2>1. SUFFICES ASSUME NEW i \in DOMAIN E, NEW j \in DOMAIN E, i < j PROVE E[i].height < E[j].height
    BY Zenon
  <2>2. i \in 1..Len(D) /\ (j \in 1..Len(D) \/ j = Len(D) + 1)
    BY <1>3, <2>1
  <2>3. CASE j \in 1..Len(D)
    BY <1>3, <2>1, <2>2, <2>3, Zenon DEF StreamOf
  <2>4. CASE j = Len(D) + 1
    BY <1>2, <1>3, <1>5, <2>2, <2>4, Zenon
  <2> QED BY <2>2, <2>3, <2>4, Zenon
<1>7. {E[i].height : i \in DOMAIN E} = (from..Len(more)) \ gaps
  <2>1. ASSUME NEW i \in DOMAIN E PROVE E[i].height \in (from..n) \ gaps
    <3>1. CASE i \in 1..Len(D)
      BY <1>1, <1>3, <1>4, <1>5, <3>1 DEF n
    <3>2. CASE i = Len(D) + 1
      <4>1. n \in from..n /\ n \notin gaps
        BY <1>1 DEF n
      <4> QED BY <1>2, <1>3, <3>2, <4>1, Zenon
    <3> QED BY <1>3, <2>1, <3>1, <3>2
  <2>2. ASSUME NEW h \in (from..n) \ gaps PROVE \E i \in DOMAIN E : E[i].height = h
    <3>1. CASE h = n
      <4>1. Len(D) + 1 \in DOMAIN E
        BY <1>3
      <4> QED BY <1>2, <1>3, <3>1, <4>1, Zenon
    <3>2. CASE h # n
      <4>1. h \in (from..Len(data)) \ gaps
        BY <1>1, <3>2 DEF n
      <4>2. PICK i \in DOMAIN D : D[i].height = h
        BY <4>1, Zenon DEF StreamOf
      <4>3. i \in DOMAIN E
        BY <1>3
      <4> QED BY <1>3, <4>2, <4>3, Zenon
    <3> QED BY <3>1, <3>2, Zenon
  <2> QED BY <1>1, <2>1, <2>2, Zenon
<1>8. \A i \in DOMAIN E : E[i].blobs = Matching(more[E[i].height], ns)
  <2>1. SUFFICES ASSUME NEW i \in DOMAIN E PROVE E[i].blobs = Matching(more[E[i].height], ns)
    BY Zenon
  <2>2. i \in 1..Len(D) \/ i = Len(D) + 1
    BY <1>3
  <2>3. CASE i \in 1..Len(D)
    BY <1>1, <1>3, <1>5, <2>3, Zenon DEF StreamOf
  <2>4. CASE i = Len(D) + 1
    BY <1>1, <1>2, <1>3, <2>4, Zenon
  <2> QED BY <2>2, <2>3, <2>4, Zenon
<1> QED BY <1>6, <1>7, <1>8, Zenon DEF StreamOf, x, E, more, n

(* A block that is not delivered is a gap.                                 *)
LEMMA StreamMisses ==
  ASSUME NEW D \in Seq(LEvents), NEW data \in Seq(LBlocks), NEW block \in LBlocks,
         NEW ns, NEW from \in 1..(Len(data) + 1), NEW gaps \in SUBSET (1..Len(data)),
         StreamOf(D, data, from, ns, gaps)
  PROVE  StreamOf(D, Append(data, block), from, ns, gaps \cup {Len(data) + 1})
<1> DEFINE n == Len(data) + 1
           more == Append(data, block)
<1>1. /\ n \in Nat /\ Len(data) \in Nat /\ Len(more) = n
      /\ \A h \in 1..Len(data) : more[h] = data[h]
  BY AppendProperties
<1> HIDE DEF more, n
<1>2. (from..Len(more)) \ (gaps \cup {n}) = (from..Len(data)) \ gaps
  BY <1>1 DEF n
<1>3. \A i \in DOMAIN D : D[i].height \in from..Len(data)
  BY Zenon DEF StreamOf
<1>4. \A i \in DOMAIN D : D[i].height \in 1..Len(data)
  BY <1>1, <1>3
<1>5. \A i \in DOMAIN D : D[i].blobs = Matching(more[D[i].height], ns)
  BY <1>1, <1>4, Zenon DEF StreamOf
<1> QED BY <1>2, <1>5, Zenon DEF StreamOf, more, n

LEMMA StreamExact ==
  LocalStreamExact <=> \A s \in lSub : StreamOf(Delivered, lData, s.from, s.ns, lDropped \cup lFailed)
  BY Zenon DEF LocalStreamExact, StreamOf, DAHeight

(* A block changes nothing in the shape but the heights there are.         *)
LEMMA ShapeGrows ==
  ASSUME LShape, NEW block \in LBlocks, lData' = Append(lData, block)
  PROVE  /\ lData' \in Seq(LBlocks) /\ Len(lData') = Len(lData) + 1 /\ Len(lData) \in Nat
         /\ \A f \in 1..(Len(lData) + 1) : f \in 1..(Len(lData') + 1)
         /\ \A h \in 1..Len(lData) : h \in 1..Len(lData')
         /\ Len(lData) + 1 \in 1..Len(lData')
<1>1. lData \in Seq(LBlocks)
  BY Zenon DEF LShape
<1> QED BY <1>1, AppendProperties, LenProperties

LEMMA NotifiedKeeps ==
  ASSUME StreamInv, NEW block \in LBlocks, lData' = Append(lData, block),
         notifySubscribers(DAHeight + 1, block), UNCHANGED <<lSub, lTaken, lOut, lSeen, lFailed>>
  PROVE  StreamInv'
<1>1. /\ LShape /\ lSub' = lSub /\ lTaken' = lTaken /\ lOut' = lOut /\ lSeen' = lSeen /\ lFailed' = lFailed
      /\ DAHeight = Len(lData)
  BY Zenon DEF StreamInv, DAHeight
<1>2. /\ lData' \in Seq(LBlocks) /\ Len(lData') = Len(lData) + 1 /\ Len(lData) \in Nat
      /\ \A f \in 1..(Len(lData) + 1) : f \in 1..(Len(lData') + 1)
      /\ \A h \in 1..Len(lData) : h \in 1..Len(lData')
      /\ Len(lData) + 1 \in 1..Len(lData')
  BY <1>1, ShapeGrows, Zenon
<1>3. \A s \in lSub : s.ns \in Namespaces /\ s.from \in 1..(Len(lData') + 1) /\ lSub = {s}
  BY <1>1, <1>2, Zenon DEF LShape
<1>4. lFailed \subseteq 1..Len(lData') /\ lDropped \subseteq 1..Len(lData')
  BY <1>1, <1>2, Zenon DEF LShape
<1>5. CASE lSub = {} /\ UNCHANGED <<lEvents, lDropped>>
  <2>1. lEvents' = lEvents /\ lDropped' = lDropped
    BY <1>5, Zenon
  <2>2. LShape'
    BY <1>1, <1>2, <1>4, <1>5, <2>1, Zenon DEF LShape
  <2>3. LocalStreamExact'
    BY <1>1, <1>5, Zenon DEF LocalStreamExact
  <2> QED BY <2>2, <2>3, Zenon DEF StreamInv
<1>6. ASSUME NEW s \in lSub, Len(lEvents) < ChannelSize,
             lEvents' = Append(lEvents, EventOf(DAHeight + 1, block, s.ns)), UNCHANGED lDropped
      PROVE  StreamInv'
  <2> DEFINE x == EventOf(Len(lData) + 1, block, s.ns)
             before == lSeen \o lOut \o lTaken
  <2>1. s.ns \in Namespaces /\ s.from \in 1..(Len(lData) + 1) /\ lSub = {s}
    BY <1>1, Zenon DEF LShape
  <2>2. x \in LEvents
    BY <1>2, <2>1 DEF EventOf, LEvents
  <2>3. lEvents \in Seq(LEvents) /\ lEvents' = Append(lEvents, x) /\ lDropped' = lDropped
    BY <1>1, <1>6, Zenon DEF LShape
  <2>4. before \in Seq(LEvents) /\ Delivered = before \o lEvents /\ Delivered \in Seq(LEvents)
    BY <1>1, DeliveredSeq, Zenon DEF Delivered
  <2>5. Delivered' = before \o lEvents'
    BY <1>1, Zenon DEF Delivered
  <2> HIDE DEF x, before
  <2>6. lEvents' \in Seq(LEvents)
    BY <2>2, <2>3, AppendProperties, Zenon
  <2>7. Delivered' = Append(Delivered, x)
    <3>1. <<x>> \in Seq(LEvents)
      BY <2>2
    <3>2. lEvents' = lEvents \o <<x>> /\ Append(Delivered, x) = Delivered \o <<x>>
      BY <2>2, <2>3, <2>4, AppendIsConcat, Zenon
    <3>3. (before \o lEvents) \o <<x>> = before \o (lEvents \o <<x>>)
      BY <2>3, <2>4, <3>1, ConcatAssociative
    <3> QED BY <2>4, <2>5, <3>2, <3>3, Zenon
  <2>8. LShape'
    BY <1>1, <1>2, <1>3, <1>4, <2>3, <2>6, Zenon DEF LShape
  <2>9. StreamOf(Delivered, lData, s.from, s.ns, lDropped \cup lFailed)
    BY StreamExact, Zenon DEF StreamInv
  <2>10. lDropped \cup lFailed \in SUBSET (1..Len(lData))
    BY <1>1, Zenon DEF LShape
  <2>11. StreamOf(Append(Delivered, x), Append(lData, block), s.from, s.ns, lDropped \cup lFailed)
    <3>1. lData \in Seq(LBlocks)
      BY <1>1, Zenon DEF LShape
    <3> QED BY <2>1, <2>4, <2>9, <2>10, <3>1, StreamGrows, Zenon DEF x
  <2>12. \A r \in lSub' : StreamOf(Delivered', lData', r.from, r.ns, lDropped' \cup lFailed')
    BY <1>1, <2>1, <2>3, <2>7, <2>11, Zenon
  <2>13. LocalStreamExact'
    BY <2>12, Zenon DEF LocalStreamExact, StreamOf, DAHeight
  <2> QED BY <2>8, <2>13, Zenon DEF StreamInv
<1>7. ASSUME NEW s \in lSub, lDropped' = lDropped \cup {DAHeight + 1}, UNCHANGED lEvents
      PROVE  StreamInv'
  <2>1. s.ns \in Namespaces /\ s.from \in 1..(Len(lData) + 1) /\ lSub = {s}
    BY <1>1, Zenon DEF LShape
  <2>2. Delivered' = Delivered /\ Delivered \in Seq(LEvents)
    BY <1>1, <1>7, DeliveredSeq, Zenon DEF Delivered
  <2>3. lDropped' \subseteq 1..Len(lData')
    BY <1>1, <1>2, <1>4, <1>7, Zenon
  <2>4. LShape'
    BY <1>1, <1>2, <1>3, <1>4, <1>7, <2>3, Zenon DEF LShape
  <2>5. StreamOf(Delivered, lData, s.from, s.ns, lDropped \cup lFailed)
    BY StreamExact, Zenon DEF StreamInv
  <2>6. lDropped \cup lFailed \in SUBSET (1..Len(lData)) /\ lData \in Seq(LBlocks)
    BY <1>1, Zenon DEF LShape
  <2>7. StreamOf(Delivered, Append(lData, block), s.from, s.ns, (lDropped \cup lFailed) \cup {Len(lData) + 1})
    BY <2>1, <2>2, <2>5, <2>6, StreamMisses, Zenon
  <2>8. (lDropped \cup lFailed) \cup {Len(lData) + 1} = lDropped' \cup lFailed'
    BY <1>1, <1>7, Zenon
  <2>9. \A r \in lSub' : StreamOf(Delivered', lData', r.from, r.ns, lDropped' \cup lFailed')
    BY <1>1, <2>1, <2>2, <2>7, <2>8, Zenon
  <2>10. LocalStreamExact'
    BY <2>9, Zenon DEF LocalStreamExact, StreamOf, DAHeight
  <2> QED BY <2>4, <2>10, Zenon DEF StreamInv
<1> QED BY <1>5, <1>6, <1>7, Zenon DEF notifySubscribers

(* A refused submission: nobody is told of its height.                     *)
LEMMA SubmitTooBigKeeps ==
  ASSUME StreamInv, SubmitTooBig
  PROVE  StreamInv'
<1>1. PICK sub \in Submissions : \E i \in DOMAIN sub : lData' = Append(lData, SubSeq(sub, 1, i - 1))
  BY Zenon DEF SubmitTooBig
<1>2. PICK i \in DOMAIN sub : lData' = Append(lData, SubSeq(sub, 1, i - 1))
  BY <1>1, Zenon
<1> DEFINE block == SubSeq(sub, 1, i - 1)
<1>3. block \in LBlocks
  <2>1. block \in {SubSeq(sub, 1, k - 1) : k \in DOMAIN sub}
    BY Zenon
  <2>2. block \in UNION {{SubSeq(s, 1, k - 1) : k \in DOMAIN s} : s \in Submissions}
    BY <2>1, Zenon
  <2> QED BY <2>2, Zenon DEF LBlocks
<1> HIDE DEF block
<1>4. /\ LShape /\ lSub' = lSub /\ lTaken' = lTaken /\ lOut' = lOut /\ lSeen' = lSeen /\ lEvents' = lEvents
      /\ lDropped' = lDropped /\ lFailed' = lFailed \cup {Len(lData) + 1}
  BY Zenon DEF StreamInv, SubmitTooBig, DAHeight, lSubVars
<1>5. /\ lData' = Append(lData, block)
      /\ lData' \in Seq(LBlocks) /\ Len(lData') = Len(lData) + 1 /\ Len(lData) \in Nat
      /\ \A f \in 1..(Len(lData) + 1) : f \in 1..(Len(lData') + 1)
      /\ \A h \in 1..Len(lData) : h \in 1..Len(lData')
      /\ Len(lData) + 1 \in 1..Len(lData')
  <2>1. lData' = Append(lData, block)
    BY <1>2, Zenon DEF block
  <2> QED BY <1>3, <1>4, <2>1, ShapeGrows, Zenon
<1>6. LShape'
  <2>1. \A s \in lSub : s.ns \in Namespaces /\ s.from \in 1..(Len(lData') + 1) /\ lSub = {s}
    BY <1>4, <1>5, Zenon DEF LShape
  <2>2. lFailed' \subseteq 1..Len(lData') /\ lDropped \subseteq 1..Len(lData')
    BY <1>4, <1>5, Zenon DEF LShape
  <2> QED BY <1>4, <1>5, <2>1, <2>2, Zenon DEF LShape
<1>7. ASSUME NEW s \in lSub'
      PROVE  StreamOf(Delivered', lData', s.from, s.ns, lDropped' \cup lFailed')
  <2>1. s \in lSub /\ s.from \in 1..(Len(lData) + 1)
    BY <1>4, Zenon DEF LShape
  <2>2. Delivered' = Delivered /\ Delivered \in Seq(LEvents)
    BY <1>4, DeliveredSeq, Zenon DEF Delivered
  <2>3. StreamOf(Delivered, lData, s.from, s.ns, lDropped \cup lFailed)
    BY <2>1, StreamExact, Zenon DEF StreamInv
  <2>4. lDropped \cup lFailed \in SUBSET (1..Len(lData)) /\ lData \in Seq(LBlocks)
    BY <1>4, Zenon DEF LShape
  <2>5. StreamOf(Delivered, Append(lData, block), s.from, s.ns, (lDropped \cup lFailed) \cup {Len(lData) + 1})
    BY <1>3, <2>1, <2>2, <2>3, <2>4, StreamMisses, Zenon
  <2>6. (lDropped \cup lFailed) \cup {Len(lData) + 1} = lDropped' \cup lFailed'
    BY <1>4, Zenon
  <2> QED BY <1>5, <2>2, <2>5, <2>6, Zenon
<1>8. LocalStreamExact'
  BY <1>7, Zenon DEF LocalStreamExact, StreamOf, DAHeight
<1> QED BY <1>6, <1>8, Zenon DEF StreamInv

(* An event that moves from one channel to the next is not delivered anew. *)
LEMMA MovedKeeps ==
  ASSUME StreamInv, lData' = lData, lSub' = lSub, lDropped' = lDropped, lFailed' = lFailed,
         lEvents' \in Seq(LEvents), lTaken' \in Seq(LEvents),
         lOut' \in Seq(LEvents), lSeen' \in Seq(LEvents), Delivered' = Delivered
  PROVE  StreamInv'
<1>1. LShape'
  BY Zenon DEF StreamInv, LShape
<1>2. LocalStreamExact'
  <2>1. \A s \in lSub' : StreamOf(Delivered', lData', s.from, s.ns, lDropped' \cup lFailed')
    BY StreamExact, Zenon DEF StreamInv
  <2> QED BY <2>1, Zenon DEF LocalStreamExact, StreamOf, DAHeight
<1> QED BY <1>1, <1>2, Zenon DEF StreamInv

LEMMA TakeSubEventKeeps ==
  ASSUME StreamInv, TakeSubEvent
  PROVE  StreamInv'
<1> DEFINE before == lSeen \o lOut
<1>1. /\ lTaken = <<>> /\ lEvents # <<>> /\ lTaken' = <<Head(lEvents)>> /\ lEvents' = Tail(lEvents)
      /\ lData' = lData /\ lSub' = lSub /\ lDropped' = lDropped /\ lFailed' = lFailed
      /\ lOut' = lOut /\ lSeen' = lSeen
  BY Zenon DEF TakeSubEvent
<1>2. /\ before \in Seq(LEvents) /\ lEvents \in Seq(LEvents)
      /\ lOut \in Seq(LEvents) /\ lSeen \in Seq(LEvents)
  BY DeliveredSeq, Zenon DEF StreamInv, LShape
<1>3. Delivered = before \o <<>> \o lEvents /\ Delivered' = before \o <<Head(lEvents)>> \o Tail(lEvents)
  BY <1>1, Zenon DEF Delivered
<1> HIDE DEF before
<1>4. before \o <<>> = before
  BY <1>2, ConcatEmptySeq, Zenon
<1>5. lEvents # <<>>
  BY <1>1, Zenon
<1>6. /\ <<Head(lEvents)>> \in Seq(LEvents) /\ Tail(lEvents) \in Seq(LEvents)
      /\ before \o lEvents = before \o <<Head(lEvents)>> \o Tail(lEvents)
  BY <1>2, <1>5, MoveHead, Zenon
<1>7. Delivered' = Delivered
  BY <1>3, <1>4, <1>6, Zenon
<1> QED BY <1>1, <1>2, <1>6, <1>7, MovedKeeps, Zenon

LEMMA PassOnKeeps ==
  ASSUME StreamInv, PassOn
  PROVE  StreamInv'
<1>1. /\ lOut' = lOut \o lTaken /\ lTaken' = <<>> /\ lEvents' = lEvents /\ lSeen' = lSeen
      /\ lData' = lData /\ lSub' = lSub /\ lDropped' = lDropped /\ lFailed' = lFailed
  BY Zenon DEF PassOn
<1>2. /\ lEvents \in Seq(LEvents) /\ lTaken \in Seq(LEvents)
      /\ lOut \in Seq(LEvents) /\ lSeen \in Seq(LEvents)
  BY Zenon DEF StreamInv, LShape
<1>3. lOut' \in Seq(LEvents) /\ lSeen \o lOut' \in Seq(LEvents)
  BY <1>1, <1>2, ConcatProperties, Zenon
<1>4. Delivered' = lSeen \o lOut' \o <<>> \o lEvents
  BY <1>1, Zenon DEF Delivered
<1>5. (lSeen \o lOut') \o <<>> = lSeen \o lOut'
  <2> DEFINE both == lSeen \o lOut'
  <2>1. both \in Seq(LEvents)
    BY <1>3, Zenon
  <2> HIDE DEF both
  <2>2. both \o <<>> = both
    BY <2>1, ConcatEmptySeq, Zenon
  <2> QED BY <2>2, Zenon DEF both
<1>6. lSeen \o lOut \o lTaken = lSeen \o (lOut \o lTaken)
  BY <1>2, ConcatAssociative
<1>7. Delivered' = Delivered
  BY <1>1, <1>4, <1>5, <1>6, Zenon DEF Delivered
<1>8. lTaken' \in Seq(LEvents)
  <2>1. <<>> \in Seq(LEvents)
    OBVIOUS
  <2> QED BY <1>1, <2>1, Zenon
<1> QED BY <1>1, <1>2, <1>3, <1>7, <1>8, MovedKeeps, Zenon

LEMMA ClientReadsKeeps ==
  ASSUME StreamInv, ClientReads
  PROVE  StreamInv'
<1>1. /\ lOut # <<>> /\ lSeen' = Append(lSeen, Head(lOut)) /\ lOut' = Tail(lOut)
      /\ lTaken' = lTaken /\ lEvents' = lEvents
      /\ lData' = lData /\ lSub' = lSub /\ lDropped' = lDropped /\ lFailed' = lFailed
  BY Zenon DEF ClientReads
<1>2. /\ lEvents \in Seq(LEvents) /\ lTaken \in Seq(LEvents)
      /\ lOut \in Seq(LEvents) /\ lSeen \in Seq(LEvents)
  BY Zenon DEF StreamInv, LShape
<1>3. lOut # <<>>
  BY <1>1, Zenon
<1>4. /\ Head(lOut) \in LEvents /\ Tail(lOut) \in Seq(LEvents)
      /\ lSeen \o lOut = lSeen \o <<Head(lOut)>> \o Tail(lOut)
  BY <1>2, <1>3, MoveHead, Zenon
<1>5. lSeen' = lSeen \o <<Head(lOut)>> /\ lSeen' \in Seq(LEvents)
  BY <1>1, <1>2, <1>4, AppendIsConcat, AppendProperties, Zenon
<1>6. Delivered' = Delivered
  BY <1>1, <1>4, <1>5, Zenon DEF Delivered
<1> QED BY <1>1, <1>2, <1>4, <1>5, <1>6, MovedKeeps, Zenon

(* A subscriber starts with the next block, and what was left is closed.   *)
LEMMA SubscribeKeeps ==
  ASSUME StreamInv, Subscribe \/ Unsubscribe
  PROVE  StreamInv'
<1>1. /\ lEvents' = <<>> /\ lTaken' = <<>> /\ lOut' = <<>> /\ lSeen' = <<>> /\ lDropped' = {}
      /\ lData' = lData /\ lFailed' = lFailed
      /\ lSub' = {} \/ \E ns \in Namespaces : lSub' = {[ns |-> ns, from |-> Len(lData) + 1]}
  BY Zenon DEF Subscribe, Unsubscribe, DAHeight
<1>2. LShape /\ lData \in Seq(LBlocks) /\ Len(lData) \in Nat /\ <<>> \in Seq(LEvents) /\ lFailed \subseteq 1..Len(lData)
  <2>1. LShape /\ lData \in Seq(LBlocks) /\ lFailed \subseteq 1..Len(lData)
    BY Zenon DEF StreamInv, LShape
  <2>2. Len(lData) \in Nat /\ <<>> \in Seq(LEvents)
    BY <2>1, LenProperties
  <2> QED BY <2>1, <2>2, Zenon
<1>3. Delivered' = <<>>
  <2>1. Delivered' = <<>> \o <<>> \o <<>> \o <<>>
    BY <1>1, Zenon DEF Delivered
  <2> QED BY <1>2, <2>1, ConcatEmptySeq, Zenon
<1>4. \A s \in lSub' : s.ns \in Namespaces /\ s.from = Len(lData) + 1 /\ lSub' = {s}
  BY <1>1
<1>5. LShape'
  <2>1. Len(lData) + 1 \in 1..(Len(lData) + 1)
    BY <1>2
  <2> QED BY <1>1, <1>2, <1>4, <2>1, Zenon DEF LShape
<1>6. ASSUME NEW s \in lSub' PROVE StreamOf(<<>>, lData, s.from, s.ns, lDropped' \cup lFailed')
  <2>1. (Len(lData) + 1)..Len(lData) = {} /\ DOMAIN <<>> = {}
    BY <1>2
  <2> QED BY <1>4, <2>1, Zenon DEF StreamOf
<1>7. LocalStreamExact'
  BY <1>1, <1>3, <1>6, Zenon DEF LocalStreamExact, StreamOf, DAHeight
<1> QED BY <1>5, <1>7, Zenon DEF StreamInv

LEMMA StreamInvInductive ==
  ASSUME StreamInv, [LNext]_lVars
  PROVE  StreamInv'
<1>1. CASE ClockTicks \/ UNCHANGED lVars
  <2>1. /\ lData' = lData /\ lSub' = lSub /\ lEvents' = lEvents /\ lTaken' = lTaken /\ lOut' = lOut
        /\ lSeen' = lSeen /\ lDropped' = lDropped /\ lFailed' = lFailed
    BY <1>1, Zenon DEF ClockTicks, lVars, lSubVars
  <2>2. Delivered' = Delivered
    BY <2>1, Zenon DEF Delivered
  <2> QED BY <2>1, <2>2, MovedKeeps, Zenon DEF StreamInv, LShape
<1>2. CASE produceEmptyBlock
  <2>1. <<>> \in LBlocks
    BY Zenon DEF LBlocks
  <2> QED BY <1>2, <2>1, NotifiedKeeps, Zenon DEF produceEmptyBlock
<1>3. CASE SubmitBlobs
  <2>1. PICK s \in Submissions : lData' = Append(lData, s) /\ notifySubscribers(DAHeight + 1, s)
    BY <1>3, Zenon DEF SubmitBlobs
  <2>2. s \in LBlocks
    BY Zenon DEF LBlocks
  <2>3. UNCHANGED <<lSub, lTaken, lOut, lSeen, lFailed>>
    BY <1>3, Zenon DEF SubmitBlobs
  <2> QED BY <2>1, <2>2, <2>3, NotifiedKeeps, Zenon
<1>4. CASE SubmitTooBig
  BY <1>4, SubmitTooBigKeeps, Zenon
<1>5. CASE Subscribe \/ Unsubscribe
  BY <1>5, SubscribeKeeps, Zenon
<1>6. CASE TakeSubEvent
  BY <1>6, TakeSubEventKeeps, Zenon
<1>7. CASE PassOn
  BY <1>7, PassOnKeeps, Zenon
<1>8. CASE ClientReads
  BY <1>8, ClientReadsKeeps, Zenon
<1> QED BY <1>1, <1>2, <1>3, <1>4, <1>5, <1>6, <1>7, <1>8, Zenon DEF LNext

(* A subscriber of the local DA layer gets the blocks since it came in     *)
(* order, each once and with exactly its namespace's blobs, except those   *)
(* dropped at a full channel and those of refused submissions, through     *)
(* both channels and the goroutine between them.                           *)
THEOREM StreamsAreExact == LSpec => []LocalStreamExact
<1>1. LInit => StreamInv
  <2>1. SUFFICES ASSUME LInit PROVE LShape /\ LocalStreamExact
    BY Zenon DEF StreamInv
  <2>2. /\ lData = <<>> /\ lSub = {} /\ lEvents = <<>> /\ lTaken = <<>> /\ lOut = <<>> /\ lSeen = <<>>
        /\ lDropped = {} /\ lFailed = {}
    BY <2>1, Zenon DEF LInit
  <2>3. <<>> \in Seq(LBlocks) /\ <<>> \in Seq(LEvents)
    OBVIOUS
  <2> QED BY <2>2, <2>3, Zenon DEF LShape, LocalStreamExact
<1>2. StreamInv /\ [LNext]_lVars => StreamInv'
  BY StreamInvInductive
<1>3. StreamInv => LocalStreamExact
  BY Zenon DEF StreamInv
<1> QED BY <1>1, <1>2, <1>3, PTL DEF LSpec
=============================================================================
