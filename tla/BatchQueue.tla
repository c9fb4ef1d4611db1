----------------------------- MODULE BatchQueue -----------------------------
(***************************************************************************)
(* The persistent queue of mempool batches of the single sequencer         *)
(* (pkg/sequencers/single/queue.go), with the datastore it writes ahead    *)
(* to, process crashes and the reload after a restart.                     *)
(*                                                                         *)
(* A batch is the set of its transactions: AddBatch drops repetitions      *)
(* before it stores one, and nothing here depends on the order inside a    *)
(* batch.  A WAL entry is kept under its sequence number, the number that  *)
(* seqToKey encodes big-endian so that key order is numeric order.  The    *)
(* slice bq.queue[bq.head:] is the sequence queue; moving head and         *)
(* compacting the slice are not visible.  Every method holds bq.mu         *)
(* throughout, so each is one step, except Load and DropIncluded, which    *)
(* write to the datastore once per entry and can be interrupted between    *)
(* two writes.  A call that fails before it has changed anything (a full   *)
(* queue, a failed Put in AddBatch or Ack) is a stuttering step.           *)
(***************************************************************************)
EXTENDS Integers, Sequences, FiniteSets

CONSTANTS
    Tx,             \* transactions, standing for their sha256 hashes
    MaxKey,         \* largest sequence number (2^64 - 1 in the code)
    InitialSeqNum,  \* first number used for appending (2^63 in the code)
    MaxQueueSize,   \* bound on queued plus in-flight batches, 0 for none
    MaxBytes,       \* Drain's size limit, a transaction counting 1; 0 for none
    LegacyKey,      \* keys of entries written by earlier releases
    WritesMayFail   \* whether a write whose error is only logged may fail

ASSUME KeyAssumption ==
    /\ MaxKey \in Nat
    /\ InitialSeqNum \in 1..MaxKey

ASSUME BoundAssumption ==
    /\ MaxQueueSize \in Nat
    /\ MaxBytes \in Nat
    /\ LegacyKey \subseteq Nat
    /\ WritesMayFail \in BOOLEAN

VARIABLES
    \* durable
    wal,                \* sequence number -> batch
    legacy,             \* legacy key -> batch
    \* lost in a crash
    queue,
    inFlight,           \* drained, not acknowledged
    inFlightPostponed,  \* transactions to requeue on Ack
    postponedItem,      \* the requeued batch, once Ack has persisted it
    txSeen,
    nextAddSeq,
    nextPrependSeq,
    \* progress of a restart
    mode,
    todo                \* keys the current pass of the restart has yet to visit

durableVars == <<wal, legacy>>
postponeVars == <<inFlightPostponed, postponedItem>>
seqVars == <<nextAddSeq, nextPrependSeq>>
memoryVars == <<queue, inFlight, postponeVars, txSeen, seqVars>>
restartVars == <<mode, todo>>
queueVars == <<durableVars, memoryVars, restartVars>>

Key == 0..MaxKey
Batch == (SUBSET Tx) \ {{}}
Item == [key : Key, txs : Batch]
NoItem == [key |-> -1, txs |-> {}]
Modes == {"down", "loading", "migrating", "reconciling", "up"}

Elems(s) == {s[i] : i \in 1..Len(s)}
TxsOf(items) == UNION {it.txs : it \in items}

(* The batches in memory, in the order in which they will be drained if    *)
(* nothing is acknowledged.                                                *)
Held == inFlight \o queue
FlightTxs == TxsOf(Elems(inFlight))

(* Everything the datastore would give back after a crash.                 *)
Stored == (UNION {wal[k] : k \in DOMAIN wal})
            \cup (UNION {legacy[k] : k \in DOMAIN legacy})

-----------------------------------------------------------------------------
(* The datastore.  Without removes an entry, With writes one, and          *)
(* BestEffort is a write whose failure the caller only logs.               *)
Without(w, k) == [j \in DOMAIN w \ {k} |-> w[j]]
With(w, k, batch) == [j \in DOMAIN w \cup {k} |-> IF j = k THEN batch ELSE w[j]]
BestEffort(before, after) == IF WritesMayFail THEN {before, after} ELSE {after}

-----------------------------------------------------------------------------
(* A freshly constructed queue (NewBatchQueue).                            *)
EmptyMemory ==
    /\ queue = <<>>
    /\ inFlight = <<>>
    /\ inFlightPostponed = {}
    /\ postponedItem = NoItem
    /\ txSeen = {}
    /\ nextAddSeq = InitialSeqNum
    /\ nextPrependSeq = InitialSeqNum - 1

(* A node that has never run this release: only legacy entries, if any.    *)
QueueInit ==
    /\ wal = [k \in {} |-> {}]
    /\ legacy \in UNION {[S -> Batch] : S \in SUBSET LegacyKey}
    /\ EmptyMemory
    /\ mode = "down"
    /\ todo = {}

-----------------------------------------------------------------------------
(* AddBatch: transactions already queued or in flight are skipped; the     *)
(* rest become one entry, in the WAL first.                                *)
QueueFull == MaxQueueSize > 0 /\ Len(queue) + Len(inFlight) >= MaxQueueSize

AddBatch(batch) ==
    LET unique == batch \ txSeen IN
    /\ mode = "up"
    /\ unique # {}
    /\ ~QueueFull
    /\ nextAddSeq < MaxKey                            \* bound: key space
    /\ wal' = With(wal, nextAddSeq, unique)
    /\ queue' = Append(queue, [key |-> nextAddSeq, txs |-> unique])
    /\ txSeen' = txSeen \cup unique
    /\ nextAddSeq' = nextAddSeq + 1
    /\ UNCHANGED <<legacy, inFlight, postponeVars, nextPrependSeq, restartVars>>

(* Drain: un-acknowledged entries return to the front of the queue, the    *)
(* postponed entry an earlier Ack persisted is deleted again, and then     *)
(* entries are taken while they fit, at least one.                         *)
Bytes(q, n) == Cardinality(TxsOf(Elems(SubSeq(q, 1, n))))

\* mutant: the size limit also applies to the first entry
Fits_First(q, n) == MaxBytes = 0 \/ Bytes(q, n) <= MaxBytes
Fits(q, n) == MaxBytes = 0 \/ n = 1 \/ Bytes(q, n) <= MaxBytes

Drainable(q, n) ==
    /\ \A m \in 1..n : Fits(q, m)
    /\ n < Len(q) => ~Fits(q, n + 1)

RollbackPostponed ==
    IF inFlight = <<>>
    THEN UNCHANGED <<wal, postponeVars>>
    ELSE /\ wal' \in IF postponedItem = NoItem THEN {wal}
                     ELSE BestEffort(wal, Without(wal, postponedItem.key))
         /\ postponedItem' = NoItem
         /\ inFlightPostponed' = {}

Drain ==
    /\ mode = "up"
    /\ RollbackPostponed
    /\ \E n \in 0..Len(Held) :
         /\ Drainable(Held, n)
         /\ inFlight' = SubSeq(Held, 1, n)
         /\ queue' = SubSeq(Held, n + 1, Len(Held))
    /\ UNCHANGED <<legacy, txSeen, seqVars, restartVars>>

(* SetPostponed: the caller's verdict on the drained transactions.         *)
SetPostponed(txs) ==
    /\ mode = "up"
    /\ inFlightPostponed' = IF postponedItem = NoItem THEN txs ELSE inFlightPostponed
    /\ UNCHANGED <<durableVars, queue, inFlight, postponedItem, txSeen, seqVars,
                   restartVars>>

(* Ack, first half: postponed transactions are made durable under a key of *)
(* their own.  On its own this is an Ack whose WAL deletes then fail, and  *)
(* followed by a crash, a crash between the two writes.                    *)

MustPersistPostponed == inFlightPostponed # {} /\ postponedItem = NoItem

AckDeleteFails ==
    /\ mode = "up"
    /\ MustPersistPostponed
    /\ inFlight # <<>>
    /\ nextPrependSeq > 0                             \* bound: key space
    /\ wal' = With(wal, nextPrependSeq, inFlightPostponed)
    /\ postponedItem' = [key |-> nextPrependSeq, txs |-> inFlightPostponed]
    /\ nextPrependSeq' = nextPrependSeq - 1
    /\ UNCHANGED <<legacy, queue, inFlight, inFlightPostponed, txSeen, nextAddSeq,
                   restartVars>>

(* Ack, successful: the entries of the in-flight batches are deleted in    *)
(* one datastore batch and the postponed entry goes to the front.          *)
AckedKeys == {it.key : it \in Elems(inFlight)}

SeenAfterAck == txSeen \ (FlightTxs \ inFlightPostponed)

Ack ==
    LET persist == MustPersistPostponed
        item == IF persist
                THEN [key |-> nextPrependSeq, txs |-> inFlightPostponed]
                ELSE postponedItem
        withItem == IF persist THEN With(wal, item.key, item.txs) ELSE wal
    IN
    /\ mode = "up"
    /\ persist => nextPrependSeq > 0                  \* bound: key space
    /\ wal' = [k \in DOMAIN withItem \ AckedKeys |-> withItem[k]]
    /\ nextPrependSeq' = IF persist THEN nextPrependSeq - 1 ELSE nextPrependSeq
    /\ txSeen' = SeenAfterAck
    /\ queue' = IF item = NoItem THEN queue ELSE <<item>> \o queue
    /\ inFlight' = <<>>
    /\ inFlightPostponed' = {}
    /\ postponedItem' = NoItem
    /\ UNCHANGED <<legacy, nextAddSeq, restartVars>>

-----------------------------------------------------------------------------
(* The process dies, at any moment, also during a restart.                 *)
LoseMemory ==
    /\ mode' = "down"
    /\ todo' = {}
    /\ queue' = <<>>
    /\ inFlight' = <<>>
    /\ inFlightPostponed' = {}
    /\ postponedItem' = NoItem
    /\ txSeen' = {}
    /\ nextAddSeq' = InitialSeqNum
    /\ nextPrependSeq' = InitialSeqNum - 1

Crash ==
    /\ mode # "down"
    /\ LoseMemory
    /\ UNCHANGED durableVars

(* Load: a new, empty queue and a query for all entries in key order.      *)
Load ==
    /\ mode = "down"
    /\ mode' = "loading"
    /\ todo' = DOMAIN wal
    /\ UNCHANGED <<durableVars, memoryVars>>

(* The smallest key of the current pass: the query is ordered by key.      *)
IsNext(k) == k \in todo /\ \A j \in todo : k <= j

(* A number found in the WAL is never handed out again.                    *)
\* mutant: off by one
AddSeqAbove_OffByOne(k) == IF k > nextAddSeq THEN k + 1 ELSE nextAddSeq
AddSeqAbove(k) == IF k >= nextAddSeq THEN k + 1 ELSE nextAddSeq
PrependSeqBelow(k) == IF k <= nextPrependSeq THEN k - 1 ELSE nextPrependSeq

Enqueue(key, txs) == IF txs = {} THEN queue
                     ELSE Append(queue, [key |-> key, txs |-> txs])

(* dedupAndEnqueueLocked: a batch read back is queued without what earlier *)
(* entries already hold, and its entry is brought in line, best-effort;    *)
(* store is the WAL before that clean-up.                                  *)
DedupAndEnqueue(batch, key, store) ==
    LET filtered == batch \ txSeen IN
    /\ txSeen' = txSeen \cup filtered
    /\ queue' = Enqueue(key, filtered)
    /\ wal' \in CASE filtered = {}    -> BestEffort(store, Without(store, key))
                  [] filtered = batch -> {store}
                  [] OTHER            -> BestEffort(store, With(store, key, filtered))

LoadEntry ==
    \E k \in todo :
        /\ mode = "loading"
        /\ IsNext(k)
        /\ nextAddSeq' = AddSeqAbove(k)
        /\ nextPrependSeq' = PrependSeqBelow(k)
        /\ DedupAndEnqueue(wal[k], k, wal)
        /\ todo' = todo \ {k}
        /\ UNCHANGED <<legacy, inFlight, postponeVars, mode>>

LoadDone ==
    /\ mode = "loading"
    /\ todo = {}
    /\ mode' = "migrating"
    /\ todo' = DOMAIN legacy
    /\ UNCHANGED <<durableVars, memoryVars>>

(* An entry with a legacy key is written under a new number and its old    *)
(* key is deleted, best-effort.                                            *)
MigrateEntry ==
    \E k \in todo :
        /\ mode = "migrating"
        /\ IsNext(k)
        /\ nextAddSeq < MaxKey                        \* bound: key space
        /\ legacy' \in BestEffort(legacy, Without(legacy, k))
        /\ DedupAndEnqueue(legacy[k], nextAddSeq, With(wal, nextAddSeq, legacy[k]))
        /\ nextAddSeq' = nextAddSeq + 1
        /\ todo' = todo \ {k}
        /\ UNCHANGED <<inFlight, postponeVars, nextPrependSeq, mode>>

(* A crash between the writes of one migration.                            *)
MigrateCrash ==
    \E k \in todo :
        /\ mode = "migrating"
        /\ IsNext(k)
        /\ nextAddSeq < MaxKey                        \* bound: key space
        /\ wal' = With(wal, nextAddSeq, legacy[k])
        /\ legacy' \in {legacy, Without(legacy, k)}
        /\ LoseMemory

(* The first write of a migration fails: the entry keeps its legacy key    *)
(* and is not queued before the next restart.                              *)
MigrateSkip ==
    \E k \in todo :
        /\ mode = "migrating"
        /\ IsNext(k)
        /\ WritesMayFail
        /\ todo' = todo \ {k}
        /\ UNCHANGED <<durableVars, memoryVars, mode>>

MigrateDone ==
    /\ mode = "migrating"
    /\ todo = {}
    /\ mode' = "reconciling"
    /\ todo' = {it.key : it \in Elems(queue)}
    /\ UNCHANGED <<durableVars, memoryVars>>

(* DropIncluded, one entry: what the last committed block holds leaves the *)
(* queue and the WAL.  A datastore error fails the start-up, a Crash.      *)
\* mutant: reconciliation is skipped
Remaining_All(it, included) == it.txs
Remaining(it, included) == it.txs \ included

\* mutant: an entry that is partly included is deleted
Rewritten_Deleted(it, txs) == IF txs = it.txs THEN wal ELSE Without(wal, it.key)
Rewritten(it, txs) ==
    CASE txs = {}     -> Without(wal, it.key)
      [] txs = it.txs -> wal
      [] OTHER        -> With(wal, it.key, txs)

DropIncluded(included) ==
    \E i \in 1..Len(queue) :
        LET it == queue[i]
            remaining == Remaining(it, included)
        IN
        /\ mode = "reconciling"
        /\ IsNext(it.key)
        /\ txSeen' = txSeen \ (it.txs \ remaining)
        /\ wal' = Rewritten(it, remaining)
        /\ queue' = IF remaining = {}
                    THEN SubSeq(queue, 1, i - 1) \o SubSeq(queue, i + 1, Len(queue))
                    ELSE [queue EXCEPT ![i] = [key |-> it.key, txs |-> remaining]]
        /\ todo' = todo \ {it.key}
        /\ UNCHANGED <<legacy, inFlight, postponeVars, seqVars, mode>>

ReconcileDone ==
    /\ mode = "reconciling"
    /\ todo = {}
    /\ mode' = "up"
    /\ UNCHANGED <<durableVars, memoryVars, todo>>

Restart == Load \/ LoadEntry \/ LoadDone \/ MigrateEntry \/ MigrateSkip
             \/ MigrateCrash \/ MigrateDone

(* The queue under any caller that only postpones what it has drained:     *)
(* the operations may come in any order, and included is any block.        *)
QueueNext ==
    \/ \E batch \in Batch : AddBatch(batch)
    \/ Drain
    \/ \E txs \in SUBSET FlightTxs : SetPostponed(txs)
    \/ AckDeleteFails
    \/ Ack
    \/ Crash
    \/ Restart
    \/ \E included \in SUBSET Tx : DropIncluded(included)
    \/ ReconcileDone

QueueSpec == QueueInit /\ [][QueueNext]_queueVars

-----------------------------------------------------------------------------
(* Type invariant.  The keys in use keep clear of both ends of the key     *)
(* space, where Load's seq + 1 and seq - 1 would wrap around.              *)
QueueTypeOK ==
    /\ DOMAIN wal \subseteq 1..(MaxKey - 1)
    /\ wal \in [DOMAIN wal -> Batch]
    /\ DOMAIN legacy \subseteq LegacyKey
    /\ legacy \in [DOMAIN legacy -> Batch]
    /\ queue \in Seq(Item)
    /\ inFlight \in Seq(Item)
    /\ inFlightPostponed \in SUBSET Tx
    /\ postponedItem \in Item \cup {NoItem}
    /\ txSeen \in SUBSET Tx
    /\ nextAddSeq \in InitialSeqNum..MaxKey
    /\ nextPrependSeq \in 0..(InitialSeqNum - 1)
    /\ mode \in Modes
    /\ todo \in SUBSET (Key \cup LegacyKey)

(* Write-ahead: every batch the queue holds in memory, drained or not, is  *)
(* covered by the datastore entry it is filed under, so that a crash at    *)
(* any point, also inside Ack, Load or DropIncluded, loses none of it.     *)
WriteAhead ==
    \A it \in Elems(Held) : it.key \in DOMAIN wal /\ it.txs \subseteq wal[it.key]

(* The dedup set is exact: it holds the hashes of what is queued or in     *)
(* flight, no more (a transaction leaked into it could never be submitted  *)
(* again) and no less (it would be queued twice), whatever mix of failed   *)
(* acknowledgements, rollbacks and reloads came before.                    *)
SeenIsHeld == txSeen = TxsOf(Elems(Held))

(* No transaction is in two batches at once: a block built from the queue  *)
(* cannot hold it twice.                                                   *)
HeldOnce ==
    \A i, j \in 1..Len(Held) : i # j => Held[i].txs \cap Held[j].txs = {}

(* The in-memory order is the key order, so a reload restores the order in *)
(* which batches would have been drained, postponed ones first.            *)
HeldInKeyOrder ==
    \A i, j \in 1..Len(Held) : i < j => Held[i].key < Held[j].key

(* Numbers still to be handed out are unused: no Put of AddBatch or Ack    *)
(* overwrites an entry, in particular not one left by a failed clean-up;   *)
(* during a reload that is so for the entries already read.                *)
FreshKeys ==
    mode # "down" =>
        \A k \in DOMAIN wal : \/ mode = "loading" /\ k \in todo
                              \/ nextPrependSeq < k /\ k < nextAddSeq

(* What Ack would requeue is still in flight and, once persisted, is       *)
(* durable under its own key ahead of everything held.                     *)
PostponedInFlight ==
    /\ inFlightPostponed \subseteq FlightTxs
    /\ postponedItem # NoItem =>
         /\ postponedItem.txs = inFlightPostponed
         /\ postponedItem.key \in DOMAIN wal
         /\ wal[postponedItem.key] = postponedItem.txs
         /\ \A it \in Elems(Held) : postponedItem.key < it.key

(* During a restart: what is empty until it is over, what is left to visit. *)
RestartOK ==
    /\ mode # "up" => inFlight = <<>>
    /\ mode = "down" => queue = <<>>
    /\ mode = "loading" =>
         /\ todo \subseteq DOMAIN wal
         /\ \A it \in Elems(queue), k \in todo : it.key < k
    /\ mode = "migrating" => todo \subseteq DOMAIN legacy

(* The inductive invariant: all of the above.                              *)
(* Together they say that any mix of failed deletes, retried               *)
(* acknowledgements, crashes and reloads leaves the queue covered by its   *)
(* WAL, in order and without a transaction twice (queue.go).               *)
IndInv ==
    /\ QueueTypeOK
    /\ WriteAhead
    /\ SeenIsHeld
    /\ HeldOnce
    /\ HeldInKeyOrder
    /\ FreshKeys
    /\ PostponedInFlight
    /\ RestartOK
=============================================================================
