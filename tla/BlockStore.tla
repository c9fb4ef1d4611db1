----------------------------- MODULE BlockStore -----------------------------
(* The node's block store (pkg/store) and the pruner that empties it: the      *)
(* batch that commits a block, the read cache and the queue of metadata        *)
(* writes of CachedStore, the pruner's chunks (block/internal/pruner), and     *)
(* the offline rollback.  A block is its height and the number of rollbacks    *)
(* before it was made; the DA-included height stands for the metadata keys,    *)
(* all of which go through the same queue.                                     *)
EXTENDS Integers, Sequences

CONSTANTS
  MaxStoreHeight, \* bound on the heights
  KeepRecent,     \* pruning configuration
  pruneBudget,    \* heights pruned per tick
  maxPruneChunk,  \* heights per write batch
  MaxRollbacks, MaxStops, MaxWrites  \* bounds on rollbacks, ends of the process, queued writes

ASSUME BlockStoreAssumption ==
  /\ {MaxStoreHeight, KeepRecent, pruneBudget, maxPruneChunk, MaxWrites} \subseteq Nat \ {0}
  /\ {MaxRollbacks, MaxStops} \subseteq Nat

VARIABLES
  conf,      \* pruning mode, role, whether DA is enabled
  db,        \* the database: height, blocks, index by hash, states, metadata
  cached,    \* CachedStore: the block cached for a height
  reader,    \* a GetBlockData between its read and its cache insertion
  putBack,   \* heights a read that began before their pruning inserted after it
  writes,    \* queued metadata writes
  lastSet,   \* the DA-included height last given to SetMetadata
  late,      \* SetMetadata was called while the store was closing
  pruner,    \* the pruning tick under way
  proc,      \* the process: "run", "closing" or "down"
  rollbacks, stops

bVars == <<conf, db, cached, reader, putBack, writes, lastSet, late, pruner, proc, rollbacks, stops>>

SHeights == 1..MaxStoreHeight
NoVer == -1
IdleReader == [pc |-> "idle", h |-> 0, v |-> NoVer]
IdlePruner == [pc |-> "idle", from |-> 0, to |-> 0]
Confs == [mode : {"all", "metadata"}, aggregator : BOOLEAN, daEnabled : BOOLEAN]
Least(a, b) == IF a < b THEN a ELSE b
Greatest(a, b) == IF a > b THEN a ELSE b

\* The store of a chain whose genesis state is saved.
BInit ==
  /\ conf \in Confs
  /\ db = [height |-> 0, blocks |-> [h \in SHeights |-> NoVer], index |-> {}, states |-> {0},
           da |-> 0, prunedB |-> 0, prunedS |-> 0]
  /\ cached = [h \in SHeights |-> NoVer] /\ reader = IdleReader /\ putBack = {}
  /\ writes = <<>> /\ lastSet = 0 /\ late = FALSE
  /\ pruner = IdlePruner /\ proc = "run"
  /\ rollbacks = 0 /\ stops = 0

Present(d, h) == d.blocks[h] # NoVer

\* The index key of a block, the digest of the stored bytes: those of the signed
\* header.  The hash of a header is the digest of the bytes of the header alone.
IndexKey(h, v) == <<"signed header", h, v>>

------------------------------------------------------------------------------
\* One batch: SaveBlockData, SetHeight, UpdateState.
CommitBatch ==
  /\ proc = "run" /\ db.height < MaxStoreHeight
  /\ \E h \in {db.height + 1} :
       db' = [db EXCEPT !.blocks[h] = rollbacks, !.index = @ \cup {IndexKey(h, rollbacks)},
                        !.height = h, !.states = @ \cup {h}]
  /\ UNCHANGED <<conf, cached, reader, putBack, writes, lastSet, late, pruner, proc, rollbacks, stops>>

\* GetHeader and GetBlockData: a block that is not cached is read, then cached.
ReadBlock ==
  /\ proc = "run" /\ reader.pc = "idle"
  /\ \E h \in SHeights :
       /\ cached[h] = NoVer /\ Present(db, h)
       /\ reader' = [pc |-> "add", h |-> h, v |-> db.blocks[h]]
  /\ UNCHANGED <<conf, db, cached, putBack, writes, lastSet, late, pruner, proc, rollbacks, stops>>

CacheBlock ==
  /\ proc = "run" /\ reader.pc = "add"
  /\ cached' = [cached EXCEPT ![reader.h] = reader.v]
  /\ putBack' = IF reader.h <= db.prunedB THEN putBack \cup {reader.h} ELSE putBack
  /\ reader' = IdleReader
  /\ UNCHANGED <<conf, db, writes, lastSet, late, pruner, proc, rollbacks, stops>>

\* mutant: the last height of the range stays cached.
InvalidateRange_Short(c, from, to) == [h \in SHeights |-> IF from <= h /\ h < to THEN NoVer ELSE c[h]]

InvalidateRange(c, from, to) == [h \in SHeights |-> IF from <= h /\ h <= to THEN NoVer ELSE c[h]]

------------------------------------------------------------------------------
\* SetMetadata of the next DA-included height: queued, or written at once when
\* the store is closing, whatever the queue still holds.
SetMetadata ==
  /\ lastSet < db.height
  /\ lastSet' = lastSet + 1
  /\ \/ /\ proc = "run" /\ Len(writes) < MaxWrites
        /\ writes' = Append(writes, lastSet + 1) /\ UNCHANGED <<db, late>>
     \/ /\ proc = "closing"
        /\ db' = [db EXCEPT !.da = lastSet + 1] /\ late' = TRUE /\ UNCHANGED writes
  /\ UNCHANGED <<conf, cached, reader, putBack, pruner, proc, rollbacks, stops>>

\* The last write of a key is kept.
Coalesced(ops) == ops[Len(ops)]

\* startWriteLoop: what arrived within the window is one batch.
WriteLoop ==
  /\ proc \in {"run", "closing"} /\ writes # <<>>
  /\ \E n \in 1..Len(writes) :
       /\ db' = [db EXCEPT !.da = Coalesced(SubSeq(writes, 1, n))]
       /\ writes' = SubSeq(writes, n + 1, Len(writes))
  /\ UNCHANGED <<conf, cached, reader, putBack, lastSet, late, pruner, proc, rollbacks, stops>>

------------------------------------------------------------------------------
\* mutant: the in-memory height bounds the pruning.
upperBound_Store == db.height

\* pruneBlocks: only blocks that are included, where DA is enabled.
upperBound == IF conf.daEnabled THEN Least(db.height, db.da) ELSE db.height

\* One tick of pruneLoop picks the heights to prune, at most a budget of them.
PruneTick ==
  /\ proc = "run" /\ pruner.pc = "idle"
  /\ \/ /\ conf.mode = "all" /\ upperBound > KeepRecent
        /\ \E to \in {Greatest(Least(db.prunedB + pruneBudget, upperBound - KeepRecent), db.prunedB)} :
             to > 0 /\ pruner' = [pc |-> "blocks", from |-> db.prunedB, to |-> to]
     \/ /\ conf.mode = "metadata" /\ db.height > KeepRecent + 1
        /\ pruner' = [pc |-> "states", from |-> db.prunedS,
                      to |-> Least(db.prunedS + pruneBudget, db.height - KeepRecent - 1)]
  /\ UNCHANGED <<conf, db, cached, reader, putBack, writes, lastSet, late, proc, rollbacks, stops>>

\* mutant: the state under the first retained block goes too.
StatesEnd_All(to) == to

\* The state at the last pruned block is kept for the block after it.
StatesEnd(to) == to - 1

\* PruneBlocks: block, signature, index and marker in one batch, then the cache.
PruneBlocks ==
  /\ proc = "run" /\ pruner.pc = "blocks"
  /\ IF pruner.from < pruner.to
       THEN \E end \in {Least(pruner.from + maxPruneChunk, pruner.to)} :
              /\ db' = [db EXCEPT !.blocks = [h \in SHeights |-> IF h \in (db.prunedB + 1)..end THEN NoVer ELSE @[h]],
                                  !.index = {i \in @ : i[2] \notin (db.prunedB + 1)..end},
                                  !.prunedB = end]
              /\ cached' = InvalidateRange(cached, 1, end)
              /\ pruner' = [pruner EXCEPT !.from = end]
       ELSE /\ pruner' = [pc |-> "states", from |-> db.prunedS,
                          to |-> Least(db.prunedS + pruneBudget, StatesEnd(pruner.to))]
            /\ UNCHANGED <<db, cached>>
  /\ UNCHANGED <<conf, reader, putBack, writes, lastSet, late, proc, rollbacks, stops>>

\* PruneStates: the states of a chunk and the marker in one batch.
PruneStates ==
  /\ proc = "run" /\ pruner.pc = "states"
  /\ IF pruner.from < pruner.to
       THEN \E end \in {Least(pruner.from + maxPruneChunk, pruner.to)} :
              /\ db' = [db EXCEPT !.states = @ \ ((db.prunedS + 1)..end), !.prunedS = end]
              /\ pruner' = [pruner EXCEPT !.from = end]
       ELSE pruner' = IdlePruner /\ UNCHANGED db
  /\ UNCHANGED <<conf, cached, reader, putBack, writes, lastSet, late, proc, rollbacks, stops>>

------------------------------------------------------------------------------
\* What the process held in memory.
Forget ==
  /\ cached' = [h \in SHeights |-> NoVer] /\ putBack' = {}
  /\ reader' = IdleReader /\ pruner' = IdlePruner

\* A crash loses the queue.
CrashStore ==
  /\ proc # "down" /\ stops < MaxStops /\ stops' = stops + 1
  /\ proc' = "down" /\ writes' = <<>> /\ Forget
  /\ lastSet' = db.da /\ late' = FALSE
  /\ UNCHANGED <<conf, db, rollbacks>>

\* Close: no more is queued; the queue is drained before the database closes.
CloseBegin ==
  /\ proc = "run" /\ stops < MaxStops /\ stops' = stops + 1
  /\ proc' = "closing" /\ Forget
  /\ UNCHANGED <<conf, db, writes, lastSet, late, rollbacks>>

CloseEnd ==
  /\ proc = "closing" /\ writes = <<>>
  /\ proc' = "down"
  /\ UNCHANGED <<conf, db, cached, reader, putBack, writes, lastSet, late, pruner, rollbacks, stops>>

OpenStore ==
  /\ proc = "down" /\ proc' = "run"
  /\ lastSet' = db.da /\ late' = FALSE
  /\ UNCHANGED <<conf, db, cached, reader, putBack, writes, pruner, rollbacks, stops>>

RolledIndex(idx, to) == {i \in idx : i[2] <= to}

RolledDA(da, to) == Least(da, to)

\* Rollback, offline: refused under the included height to an aggregator, and
\* where a header is missing; the included height follows on a sync node.
Rollback ==
  /\ proc = "down" /\ rollbacks < MaxRollbacks
  /\ \E to \in 0..(db.height - 1) :
       /\ db.da > to => ~conf.aggregator
       /\ \A h \in (to + 1)..db.height : Present(db, h)
       /\ db' = [db EXCEPT !.blocks = [h \in SHeights |-> IF h > to THEN NoVer ELSE @[h]],
                           !.index = RolledIndex(@, to),
                           !.states = {h \in @ : h <= to},
                           !.da = RolledDA(@, to), !.height = to]
       /\ lastSet' = Least(lastSet, to)
  /\ rollbacks' = rollbacks + 1
  /\ UNCHANGED <<conf, cached, reader, putBack, writes, late, pruner, proc, stops>>

BNext ==
  \/ CommitBatch \/ ReadBlock \/ CacheBlock \/ SetMetadata \/ WriteLoop
  \/ PruneTick \/ PruneBlocks \/ PruneStates
  \/ CrashStore \/ CloseBegin \/ CloseEnd \/ OpenStore \/ Rollback

BSpec == BInit /\ [][BNext]_bVars

------------------------------------------------------------------------------
\* Types; the markers stay within the chain, through rollbacks too.
BTypeOK ==
  /\ conf \in Confs /\ proc \in {"run", "closing", "down"}
  /\ db.height \in 0..MaxStoreHeight /\ db.blocks \in [SHeights -> -1..MaxRollbacks]
  /\ db.states \subseteq 0..db.height /\ db.da \in 0..db.height
  /\ db.prunedB \in 0..db.height /\ db.prunedS \in 0..MaxStoreHeight
  /\ Len(writes) <= MaxWrites /\ lastSet \in 0..db.height
  /\ pruner.from <= MaxStoreHeight /\ reader.pc \in {"idle", "add"}

\* Every block that was not pruned is there, and where whole blocks are pruned so
\* is the state before it: the first retained block can be replayed, the tip has
\* its state, after any prune, crash and rollback (pruner.go pruneBlocks).
RetainedReplayable ==
  \A h \in (db.prunedB + 1)..db.height :
    /\ Present(db, h)
    /\ conf.mode = "all" => {h - 1, h} \subseteq db.states
    /\ h - 1 > db.prunedS => h - 1 \in db.states

\* Where DA is enabled nothing is pruned that is not recorded as included, not
\* even after a rollback lowered the included height (pruner.go pruneBlocks).
PrunedIsIncluded == conf.daEnabled => db.prunedB <= db.da

\* The index by hash names exactly the blocks the store holds, of the present
\* chain (store.go Rollback, PruneBlocks).
IndexExact == db.index = {IndexKey(h, db.blocks[h]) : h \in {x \in SHeights : Present(db, x)}}

\* A cached block is the store's block of the height, or a pruned one that a
\* read under way during the pruning put back (cached_store.go PruneBlocks).
CacheCurrent ==
  \A h \in SHeights : cached[h] # NoVer => cached[h] = db.blocks[h] \/ h \in putBack

\* Metadata on disk is the value set last whenever nothing is queued, and a
\* closed store has lost nothing, unless a write came while it was closing
\* (cached_store.go startWriteLoop, Close).
MetadataLatest == writes = <<>> /\ ~late => db.da = lastSet
=============================================================================
