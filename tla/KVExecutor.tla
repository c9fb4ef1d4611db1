----------------------------- MODULE KVExecutor -----------------------------
(* The key-value executor of the test application (apps/testapp/kv) and what    *)
(* the node does with it: genesis, execution of the pending block and again      *)
(* after a crash, finalization by the submitter at the same time, and the        *)
(* rollback command, which reverts the node's store and then the executor.       *)
EXTENDS Integers, Sequences, FiniteSets, SequencesExt, FiniteSetsExt

CONSTANTS
  KVBlocks,    \* transactions of a block: sequences of records [k, v], k = "" if malformed
  Aggregator,  \* whether the rollback command runs without --sync-node
  KVMaxHeight, KVFaults  \* bounds

ASSUME KVAssumption ==
  /\ Aggregator \subseteq BOOLEAN /\ {KVMaxHeight, KVFaults} \subseteq Nat

VARIABLES
  kvDB,        \* the height-prefixed entries: records [h, k, v]
  kvGenesis,   \* stored genesis root, a set of at most one
  kvFinal,     \* finalizedHeight, 0 if not set
  kvChain,     \* the node's blocks, each with the root it was committed with
  kvPending,   \* the node's pending block, a set of at most one
  kvIncluded,  \* DAIncludedHeight of the node
  kvStep,      \* "down", "idle", "exec" (batch committed), "root"; "rolled" in the command
  kvRoot,      \* root ExecuteTxs is about to return, a set of at most one
  kvTarget,    \* target of the running rollback
  kvSplit,     \* history: the command ended between the two stores
  kvFaults

kvVars == <<kvDB, kvGenesis, kvFinal, kvChain, kvPending, kvIncluded, kvStep, kvRoot, kvTarget, kvSplit, kvFaults>>

Height == Len(kvChain)
Mishap == kvFaults < KVFaults /\ kvFaults' = kvFaults + 1

\* mutant: keys of the executor's own bookkeeping are in the root as well.
computeStateRoot_All(db) == db \cup {[h |-> 0, k |-> "finalizedHeight", v |-> kvFinal]}

\* All entries but the reserved keys, sorted: the set stands for the string.
computeStateRoot(db) == db

\* What ExecuteTxs stages: malformed transactions are skipped, the last write to
\* a key stays.
Staged(h, txs) ==
  {[h |-> h, k |-> txs[i].k, v |-> txs[i].v] :
     i \in {i \in DOMAIN txs : txs[i].k # "" /\ \A j \in (i + 1)..Len(txs) : txs[j].k # txs[i].k}}

Put(db, entries) == {e \in db : \A n \in entries : e.h # n.h \/ e.k # n.k} \cup entries

\* GetStoreValue: the value at the greatest height, a set of at most one.
GetStoreValue(key) ==
  {e.v : e \in {e \in kvDB : e.k = key /\ \A o \in kvDB : o.k = key => o.h <= e.h}}

KVInit ==
  /\ kvDB = {} /\ kvGenesis = {} /\ kvFinal = 0 /\ kvChain = <<>> /\ kvPending = {} /\ kvIncluded = 0
  /\ kvStep = "down" /\ kvRoot = {} /\ kvTarget = 0 /\ kvSplit = FALSE /\ kvFaults = 0

\* The node starts: InitChain is called while there is no state, and returns the
\* stored root if it ran before.
InitChain ==
  /\ kvStep = "down" /\ kvStep' = "idle"
  /\ kvGenesis' = IF kvChain = <<>> /\ kvGenesis = {} THEN {computeStateRoot(kvDB)} ELSE kvGenesis
  /\ UNCHANGED <<kvDB, kvFinal, kvChain, kvPending, kvIncluded, kvRoot, kvTarget, kvSplit, kvFaults>>

\* A new block is stored as pending, unless there is one for this height.
HasPending == \E p \in kvPending : p.h = Height + 1
NewBlock ==
  /\ kvStep = "idle" /\ ~HasPending /\ Height < KVMaxHeight
  /\ \E txs \in KVBlocks : kvPending' = {[h |-> Height + 1, txs |-> txs]}
  /\ UNCHANGED <<kvDB, kvGenesis, kvFinal, kvChain, kvIncluded, kvStep, kvRoot, kvTarget, kvSplit, kvFaults>>

\* ExecuteTxs commits the writes of the block in one batch,
ExecuteTxs ==
  /\ kvStep = "idle" /\ HasPending /\ kvStep' = "exec"
  /\ \E p \in kvPending : kvDB' = Put(kvDB, Staged(p.h, p.txs))
  /\ UNCHANGED <<kvGenesis, kvFinal, kvChain, kvPending, kvIncluded, kvRoot, kvTarget, kvSplit, kvFaults>>

\* then reads everything back for the root,
ReturnRoot ==
  /\ kvStep = "exec" /\ kvStep' = "root" /\ kvRoot' = {computeStateRoot(kvDB)}
  /\ UNCHANGED <<kvDB, kvGenesis, kvFinal, kvChain, kvPending, kvIncluded, kvTarget, kvSplit, kvFaults>>

\* and the node commits the block with it.
CommitStaged ==
  /\ kvStep = "root" /\ kvStep' = "idle" /\ kvRoot' = {} /\ kvPending' = {}
  /\ \E p \in kvPending, r \in kvRoot : kvChain' = Append(kvChain, [txs |-> p.txs, root |-> r])
  /\ UNCHANGED <<kvDB, kvGenesis, kvFinal, kvIncluded, kvTarget, kvSplit, kvFaults>>

Running == kvStep \in {"idle", "exec", "root"}

\* The submitter finalizes the next included block, then records it.
SetFinal ==
  /\ Running /\ kvIncluded < Height /\ kvFinal # kvIncluded + 1 /\ kvFinal' = kvIncluded + 1
  /\ UNCHANGED <<kvDB, kvGenesis, kvChain, kvPending, kvIncluded, kvStep, kvRoot, kvTarget, kvSplit, kvFaults>>
PersistIncluded ==
  /\ Running /\ kvIncluded < Height /\ kvFinal = kvIncluded + 1 /\ kvIncluded' = kvFinal
  /\ UNCHANGED <<kvDB, kvGenesis, kvFinal, kvChain, kvPending, kvStep, kvRoot, kvTarget, kvSplit, kvFaults>>

StopNode ==
  /\ Running /\ Mishap /\ kvStep' = "down" /\ kvRoot' = {}
  /\ UNCHANGED <<kvDB, kvGenesis, kvFinal, kvChain, kvPending, kvIncluded, kvTarget, kvSplit>>

\* The rollback command: the node's store first,
RollbackStore ==
  /\ kvStep = "down" /\ kvStep' = "rolled" /\ Mishap
  /\ \E target \in 0..(Height - 1), aggregator \in Aggregator :
       /\ aggregator => kvIncluded <= target
       /\ kvChain' = SubSeq(kvChain, 1, target) /\ kvIncluded' = Min({kvIncluded, target})
       /\ kvTarget' = target
  /\ UNCHANGED <<kvDB, kvGenesis, kvFinal, kvPending, kvRoot, kvSplit>>

Reverted(height) == {e \in kvDB : e.h <= height}

FinalAfter(height) == Min({kvFinal, height})

\* then the executor, which refuses height 0.
Rollback ==
  /\ kvStep = "rolled" /\ kvStep' = "down" /\ kvTarget > 0 /\ kvTarget' = 0
  /\ kvDB' = Reverted(kvTarget) /\ kvFinal' = FinalAfter(kvTarget)
  /\ UNCHANGED <<kvGenesis, kvChain, kvPending, kvIncluded, kvRoot, kvSplit, kvFaults>>
RollbackCut ==
  /\ kvStep = "rolled" /\ (kvTarget = 0 \/ kvFaults < KVFaults) /\ kvStep' = "down" /\ kvTarget' = 0
  /\ kvSplit' = TRUE /\ kvFaults' = IF kvTarget = 0 THEN kvFaults ELSE kvFaults + 1
  /\ UNCHANGED <<kvDB, kvGenesis, kvFinal, kvChain, kvPending, kvIncluded, kvRoot>>

KVNext ==
  \/ InitChain \/ NewBlock \/ ExecuteTxs \/ ReturnRoot \/ CommitStaged \/ SetFinal \/ PersistIncluded
  \/ StopNode \/ RollbackStore \/ Rollback \/ RollbackCut

KVSpec == KVInit /\ [][KVNext]_kvVars

------------------------------------------------------------------------------
\* The transactions of a chain of blocks applied one by one, each tagged with its height.
EntriesOf(blocks) ==
  FoldLeft(LAMBDA acc, b : [h |-> acc.h + 1, db |-> Put(acc.db, FoldLeft(LAMBDA s, t :
            IF t.k = "" THEN s ELSE Put(s, {[h |-> acc.h + 1, k |-> t.k, v |-> t.v]}), {}, b.txs))],
          [h |-> 0, db |-> {}], blocks).db

\* The root in every block is that of the blocks up to it and nothing else: not of
\* a block executed and never committed, of blocks rolled back, of a second
\* execution after a crash, or of finalization in the middle of one; unless the
\* rollback command ended between the two stores (kvexecutor.go, rollback.go).
KVRootExact ==
  ~kvSplit => \A i \in DOMAIN kvChain : kvChain[i].root = EntriesOf(SubSeq(kvChain, 1, i))

\* Between blocks a read returns what the last write on the chain says, whatever was
\* executed twice or rolled back before (kvexecutor.go GetStoreValue).
KVReadsLatest ==
  ~kvSplit /\ kvStep = "idle" /\ kvPending = {} =>
    \A k \in {e.k : e \in kvDB} :
      GetStoreValue(k) =
        LET writes == FlattenSeq([i \in DOMAIN kvChain |-> SelectSeq(kvChain[i].txs, LAMBDA t : t.k = k)])
        IN {Last(writes).v}

\* The executor's finalized height never passes the chain and is never behind what
\* the node recorded, over rollbacks of both kinds and crashes between the two
\* writes, while no rollback is under way (kvexecutor.go Rollback).
KVFinalKept ==
  ~kvSplit /\ kvStep # "rolled" => kvIncluded <= kvFinal /\ kvFinal <= Height
=============================================================================
