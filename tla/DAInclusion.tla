---------------------------- MODULE DAInclusion ----------------------------
(***************************************************************************)
(* The DA inclusion loop that aggregators and sync nodes both run          *)
(* (submitter.go, processDAInclusionLoop) over the caches of               *)
(* block/internal/cache: it walks the chain one height at a time, records  *)
(* where on the DA layer each block was found, finalizes the block in the  *)
(* execution layer and only then forgets its cache entries.  The loop is   *)
(* one goroutine of four steps; the caches are written by other goroutines *)
(* between any two of them.                                                *)
(***************************************************************************)
EXTENDS Cache

CONSTANT MaxHeight      \* bound: the last block height of the instance

ASSUME DAInclusionAssumption == MaxHeight \in Nat

VARIABLES
  hc, dc,               \* the header and the data cache
  snap,                 \* snapshots on disk, written by a graceful stop
  incl, inclDisk,       \* daIncludedHeight, in memory and persisted
  toDA,                 \* persisted HeightToDAHeight: height -> <<header, data>>
  genesisDA,            \* persisted GenesisDAHeight, 0 before the first block
  ipc,                  \* where the inclusion loop is
  final                 \* the height the execution layer holds final

inclVars == <<hc, dc, snap, incl, inclDisk, toDA, genesisDA, ipc, final>>
inclDiskVars == <<snap, inclDisk, toDA, genesisDA, final>>

Lesser(a, b) == IF a < b THEN a ELSE b

InclusionInit ==
  /\ hc = NewCache /\ dc = NewCache
  /\ snap = [h |-> {}, d |-> {}]
  /\ incl = 0 /\ inclDisk = 0 /\ final = 0 /\ genesisDA = 0
  /\ toDA = [n \in 1..MaxHeight |-> <<0, 0>>]
  /\ ipc = "idle"

\* The highest DA height either cache has seen (Manager.DaHeight).
DaHeight == IF hc.maxDAHeight > dc.maxDAHeight THEN hc.maxDAHeight ELSE dc.maxDAHeight

IsHeightDAIncluded(n, stored, empty) ==
  \/ n <= incl
  \/ /\ n <= stored
     /\ getDAIncludedByHeight(hc, n) # 0
     /\ empty \/ getDAIncludedByHeight(dc, n) # 0

\* One tick: the block after the watermark is stored and marked included; empty
\* says whether it has no transactions.
InclCheck(stored, empty) ==
  /\ ipc = "idle"
  /\ incl + 1 <= stored
  /\ IsHeightDAIncluded(incl + 1, stored, empty)
  /\ ipc' = "map"
  /\ UNCHANGED <<hc, dc, snap, incl, inclDisk, toDA, genesisDA, final>>

\* mutant: the data's DA height is recorded as the header's.
InclMap_HeaderHeight(empty) ==
  LET n == incl + 1
      onH == getDAIncludedByHeight(hc, n)
  IN /\ ipc = "map"
     /\ toDA' = [toDA EXCEPT ![n] = <<onH, onH>>]
     /\ genesisDA' = IF incl = 0 THEN onH ELSE genesisDA
     /\ ipc' = "final"
     /\ UNCHANGED <<hc, dc, snap, incl, inclDisk, final>>

\* setNodeHeightToDAHeight reads the caches again: a mark removed since the
\* check ends the tick.  An empty block counts as found with its header.
InclMap(empty) ==
  LET n == incl + 1
      onH == getDAIncludedByHeight(hc, n)
      onD == IF empty THEN onH ELSE getDAIncludedByHeight(dc, n)
  IN /\ ipc = "map"
     /\ \/ /\ onH = 0 \/ onD = 0
           /\ toDA' = IF onH = 0 THEN toDA ELSE [toDA EXCEPT ![n][1] = onH]
           /\ ipc' = "idle"
           /\ UNCHANGED genesisDA
        \/ /\ onH # 0 /\ onD # 0
           /\ toDA' = [toDA EXCEPT ![n] = <<onH, onD>>]
           /\ genesisDA' = IF incl = 0 THEN Lesser(onH, onD) ELSE genesisDA
           /\ ipc' = "final"
     /\ UNCHANGED <<hc, dc, snap, incl, inclDisk, final>>

\* mutant: exhausted retries end the loop.
InclFinal_GivesUp(ok) ==
  /\ ipc = "final"
  /\ final' = IF ok THEN incl + 1 ELSE final
  /\ ipc' = IF ok THEN "persist" ELSE "ended"
  /\ UNCHANGED <<hc, dc, snap, incl, inclDisk, toDA, genesisDA>>

\* setFinalWithRetry: exhausted retries leave the watermark for the next tick.
InclFinal(ok) ==
  /\ ipc = "final"
  /\ final' = IF ok THEN incl + 1 ELSE final
  /\ ipc' = IF ok THEN "persist" ELSE "idle"
  /\ UNCHANGED <<hc, dc, snap, incl, inclDisk, toDA, genesisDA>>

\* The watermark is persisted, then raised in memory, then the caches of the
\* height are deleted; memory does not outlive a crash between the three.
InclPersist ==
  /\ ipc = "persist"
  /\ inclDisk' = incl + 1
  /\ incl' = incl + 1
  /\ hc' = deleteAllForHeight(hc, incl + 1)
  /\ dc' = deleteAllForHeight(dc, incl + 1)
  /\ ipc' = "idle"
  /\ UNCHANGED <<snap, toDA, genesisDA, final>>

------------------------------------------------------------------------------
\* Manager.SaveToStore, at the end of a graceful stop only.
SaveToStore == snap' = [h |-> persistSnapshot(hc), d |-> persistSnapshot(dc)]

\* newManager on a restart: the snapshot above the watermark, then the DA
\* heights recorded for the watermark itself.
RestoredCaches ==
  LET h == RestoreFromStore(NewCache, snap.h, inclDisk)
      d == RestoreFromStore(NewCache, snap.d, inclDisk)
  IN IF inclDisk = 0 THEN <<h, d>>
     ELSE <<setMaxDAHeight(h, toDA[inclDisk][1]), setMaxDAHeight(d, toDA[inclDisk][2])>>

\* ClearFromStore: the snapshot is deleted and only the DA heights are seeded.
ClearedCaches ==
  IF inclDisk = 0 THEN <<NewCache, NewCache>>
  ELSE <<setMaxDAHeight(NewCache, toDA[inclDisk][1]),
         setMaxDAHeight(NewCache, toDA[inclDisk][2])>>

\* The process starts again: caches as given, watermark from disk.
InclRestart(caches, snapshot) ==
  /\ hc' = caches[1] /\ dc' = caches[2]
  /\ snap' = snapshot
  /\ incl' = inclDisk
  /\ ipc' = "idle"
  /\ UNCHANGED <<inclDisk, toDA, genesisDA, final>>
=============================================================================
