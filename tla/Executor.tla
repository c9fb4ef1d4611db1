------------------------------ MODULE Executor ------------------------------
(***************************************************************************)
(* Block production (block/internal/executing/executor.go, pending.go) over *)
(* a node store and an EVM execution layer (execution/evm/execution.go),   *)
(* with crashes of both, and the start-up that brings them back together   *)
(* (block/internal/common/replay.go).                                      *)
(*                                                                         *)
(* One goroutine runs ProduceBlock; its durable writes and its calls to    *)
(* the execution layer and the signer are the steps here.  A height is     *)
(* counted from the genesis initial height, and a time is in seconds, the  *)
(* precision at which the execution layer knows a block.  The state root   *)
(* after a block is the sequence of blocks executed up to it.  The         *)
(* sequencer's side of a block (draining, acknowledging, the forced        *)
(* inclusion checkpoint) is in QueueProtocol and ForcedInclusion.          *)
(***************************************************************************)
EXTENDS Integers, Sequences

CONSTANTS
    Payload,        \* what the transactions of a block may be
    MaxHeight,      \* bound: blocks produced
    MaxTime         \* bound: time stamps

ASSUME ExecutorAssumption ==
    /\ MaxHeight \in Nat \ {0}
    /\ MaxTime \in Nat

VARIABLES
    \* durable, in the node's store
    chain,          \* committed blocks with the state root after each
    pending,        \* the pending block record, a set of at most one
    legacy,         \* the same in the format of earlier releases
    \* the execution layer
    exec,           \* its canonical chain
    rollbackable,   \* whether it implements Rollback
    \* lost in a crash
    node,           \* stage of the start-up, or "up"
    hasPendingBlock,
    step,           \* of ProduceBlock
    block,          \* the block in hand
    root,           \* the state root ExecuteTxs returned for it
    \* history
    signed,         \* every block the signer has put its name to
    abandoned       \* a block that was executed was given up without a crash

storeVars == <<chain, pending, legacy>>
produceVars == <<step, block, root>>
historyVars == <<signed, abandoned>>
vars == <<storeVars, exec, rollbackable, node, hasPendingBlock, produceVars, historyVars>>

Content == [txs : Payload, time : 0..MaxTime]
Block == [height : 1..MaxHeight, txs : Payload, time : 0..MaxTime]
CommittedBlock == [txs : Payload, time : 0..MaxTime, root : Seq(Content)]
NoBlock == [height |-> 0]
NodeStages == {"down", "migrating", "cleaning", "syncing", "up"}
Steps == {"idle", "built", "saved", "executed", "signed"}

GenesisTime == 0
NextHeight == Len(chain) + 1
ContentOf(b) == [txs |-> b.txs, time |-> b.time]
Committed == [h \in 1..Len(chain) |-> ContentOf(chain[h])]
RootAt(h) == IF h = 0 THEN <<>> ELSE chain[h].root
LastTime == IF chain = <<>> THEN GenesisTime ELSE chain[Len(chain)].time

(* A new node, or one upgraded while it had a block pending.               *)
Init ==
    /\ chain = <<>>
    /\ pending = {}
    /\ legacy \in {{}} \cup {{[height |-> 1, txs |-> p, time |-> GenesisTime]} : p \in Payload}
    /\ exec = <<>>
    /\ rollbackable \in BOOLEAN
    /\ node = "down"
    /\ hasPendingBlock = FALSE
    /\ step = "idle"
    /\ block = NoBlock
    /\ root = <<>>
    /\ signed = {}
    /\ abandoned = FALSE

-----------------------------------------------------------------------------
(* The execution layer.  It takes a request for a height it already has    *)
(* for a repetition when the time stamps agree, whatever the transactions  *)
(* are, and otherwise executes on top of the preceding block, discarding   *)
(* what it had from that height on (reconcileExecutionAtHeight,            *)
(* ExecuteTxs).                                                            *)
Reuses(b) == b.height <= Len(exec) /\ exec[b.height].time = b.time

Below(b) == SubSeq(exec, 1, b.height - 1)

Executable(b) == Reuses(b) \/ (b.height - 1 <= Len(exec) /\ Below(b) = RootAt(b.height - 1))

ExecAfter(b) == IF Reuses(b) THEN SubSeq(exec, 1, b.height)
                ELSE Append(Below(b), ContentOf(b))

(* It restarts and has lost the latest blocks it had not yet written.      *)
ExecLoses ==
    /\ \E n \in 0..(Len(exec) - 1) : exec' = SubSeq(exec, 1, n)
    /\ UNCHANGED <<storeVars, node, hasPendingBlock, produceVars, historyVars>>

-----------------------------------------------------------------------------
(* Start-up (initializeState).                                             *)
Start ==
    /\ node = "down"
    /\ node' = "migrating"
    /\ UNCHANGED <<storeVars, exec, hasPendingBlock, produceVars, historyVars>>

(* migrateLegacyPendingBlock, in two writes, and the look for a pending    *)
(* record of whatever height.                                              *)
MigratePending ==
    /\ node = "migrating"
    /\ legacy # {}
    /\ pending' = legacy
    /\ node' = "cleaning"
    /\ UNCHANGED <<chain, legacy, exec, hasPendingBlock, produceVars, historyVars>>

CleanLegacy ==
    /\ node = "cleaning"
    /\ legacy' = {}
    /\ hasPendingBlock' = (pending # {})
    /\ node' = "syncing"
    /\ UNCHANGED <<chain, pending, exec, produceVars, historyVars>>

\* mutant: the pending record is not looked for
FindPending_Never ==
    /\ node = "migrating"
    /\ legacy = {}
    /\ node' = "syncing"
    /\ UNCHANGED <<storeVars, exec, hasPendingBlock, produceVars, historyVars>>
FindPending ==
    /\ node = "migrating"
    /\ legacy = {}
    /\ hasPendingBlock' = (pending # {})
    /\ node' = "syncing"
    /\ UNCHANGED <<storeVars, exec, produceVars, historyVars>>

(* SyncToHeight: nothing to do before the first block; otherwise roll back *)
(* an execution layer that is ahead, or replay the committed blocks it     *)
(* lacks, each with a check of the state root.                             *)
SyncDone ==
    /\ node = "syncing"
    /\ chain = <<>> \/ Len(exec) = Len(chain)
    /\ node' = "up"
    /\ UNCHANGED <<storeVars, exec, hasPendingBlock, produceVars, historyVars>>

RollbackExec ==
    /\ node = "syncing"
    /\ chain # <<>>
    /\ Len(exec) > Len(chain)
    /\ rollbackable
    /\ exec' = SubSeq(exec, 1, Len(chain))
    /\ node' = "up"
    /\ UNCHANGED <<storeVars, hasPendingBlock, produceVars, historyVars>>

Replayed == LET h == Len(exec) + 1 IN
            [height |-> h, txs |-> chain[h].txs, time |-> chain[h].time]

\* mutant: the root is compared with the one in the block's own header,
\* which is the root before it
ReplayVerified_Header == Executable(Replayed) /\ ExecAfter(Replayed) = RootAt(Len(exec))
ReplayVerified == Executable(Replayed) /\ ExecAfter(Replayed) = RootAt(Len(exec) + 1)

ReplayBlock ==
    /\ node = "syncing"
    /\ Len(exec) < Len(chain)
    /\ ReplayVerified
    /\ exec' = ExecAfter(Replayed)
    /\ UNCHANGED <<storeVars, node, hasPendingBlock, produceVars, historyVars>>

(* The start-up gives up; an operator or a supervisor may try again.       *)
StartFails ==
    /\ node = "syncing"
    /\ chain # <<>>
    /\ \/ Len(exec) > Len(chain) /\ ~rollbackable
       \/ Len(exec) < Len(chain) /\ ~ReplayVerified
    /\ node' = "down"
    /\ hasPendingBlock' = FALSE
    /\ UNCHANGED <<storeVars, exec, produceVars, historyVars>>

-----------------------------------------------------------------------------
(* ProduceBlock.                                                           *)
Idle == node = "up" /\ step = "idle" /\ Len(chain) < MaxHeight
Usable == {b \in pending : hasPendingBlock /\ b.height = NextHeight}

UsePending ==
    /\ Idle
    /\ \E b \in Usable : block' = b
    /\ step' = "saved"
    /\ UNCHANGED <<storeVars, exec, node, hasPendingBlock, root, historyVars>>

(* RetrieveBatch and CreateBlock.  The first block has the genesis time;   *)
(* later ones the sequencer's, taken here not to run backwards.            *)
BuildBlock ==
    /\ Idle
    /\ Usable = {}
    /\ \E txs \in Payload, time \in LastTime..MaxTime :
         block' = [height |-> NextHeight, txs |-> txs,
                   time |-> IF chain = <<>> THEN GenesisTime ELSE time]
    /\ step' = "built"
    /\ UNCHANGED <<storeVars, exec, node, hasPendingBlock, root, historyVars>>

\* mutant: the block is executed before it is saved
SavePending_Never ==
    /\ step = "built"
    /\ step' = "saved"
    /\ UNCHANGED <<storeVars, exec, node, hasPendingBlock, block, root, historyVars>>
SavePending ==
    /\ step = "built"
    /\ pending' = {block}
    /\ step' = "saved"
    /\ UNCHANGED <<chain, legacy, exec, node, hasPendingBlock, block, root, historyVars>>

ApplyBlock ==
    /\ step = "saved"
    /\ Executable(block)
    /\ exec' = ExecAfter(block)
    /\ root' = ExecAfter(block)
    /\ step' = "executed"
    /\ UNCHANGED <<storeVars, node, hasPendingBlock, block, historyVars>>

(* signHeader and AssertValidSequence.                                     *)
SignHeader ==
    /\ step = "executed"
    /\ block.height = NextHeight /\ LastTime <= block.time
    /\ signed' = signed \cup {block}
    /\ step' = "signed"
    /\ UNCHANGED <<storeVars, exec, node, hasPendingBlock, block, root, abandoned>>

(* Block, height and state go to the store in one batch.                   *)
CommitBlock ==
    /\ step = "signed"
    /\ chain' = Append(chain, [txs |-> block.txs, time |-> block.time, root |-> root])
    /\ hasPendingBlock' = FALSE
    /\ step' = "idle"
    /\ block' = NoBlock
    /\ root' = <<>>
    /\ UNCHANGED <<pending, legacy, exec, node, historyVars>>

(* ProduceBlock returns an error (of the signer, the store, or a shutdown  *)
(* under way) at any point; the loop will call it again.                   *)
Abandon == abandoned' = (abandoned \/ step \in {"executed", "signed"})

ProduceFails ==
    /\ step # "idle"
    /\ Abandon
    /\ step' = "idle"
    /\ block' = NoBlock
    /\ root' = <<>>
    /\ UNCHANGED <<storeVars, exec, node, hasPendingBlock, signed>>

-----------------------------------------------------------------------------
(* The process ends: it crashes, or stops.  Stop waits for ProduceBlock,   *)
(* which a cancelled context may have made fail, and deletes the pending   *)
(* record unless hasPendingBlock is set.  An execution layer that keeps    *)
(* refusing a block is a critical error, on which the node stops itself.   *)
GoDown ==
    /\ node' = "down"
    /\ hasPendingBlock' = FALSE
    /\ step' = "idle"
    /\ block' = NoBlock
    /\ root' = <<>>
    /\ UNCHANGED <<chain, legacy, exec, signed>>

Crash ==
    /\ node # "down"
    /\ GoDown
    /\ UNCHANGED <<pending, abandoned>>

Stop ==
    /\ node = "up"
    /\ Abandon
    /\ GoDown
    /\ pending' = IF hasPendingBlock THEN pending ELSE {}

HaltOnCriticalError ==
    /\ step = "saved"
    /\ ~Executable(block)
    /\ GoDown
    /\ UNCHANGED abandoned
    /\ pending' = IF hasPendingBlock THEN pending ELSE {}

StartUp == Start \/ MigratePending \/ CleanLegacy \/ FindPending \/ SyncDone
             \/ RollbackExec \/ ReplayBlock \/ StartFails
Produce == UsePending \/ BuildBlock \/ SavePending \/ ApplyBlock \/ SignHeader

Next ==
    /\ \/ StartUp \/ Produce \/ CommitBlock \/ ProduceFails \/ Crash \/ Stop
       \/ HaltOnCriticalError \/ ExecLoses
    /\ UNCHANGED rollbackable

Spec == Init /\ [][Next]_vars

(* The start-up and ProduceBlock are sequential code that keeps running,   *)
(* and a node that went down is started again.                             *)
Progress ==
    /\ StartUp \/ Produce \/ CommitBlock \/ HaltOnCriticalError
    /\ UNCHANGED rollbackable

FairSpec == Spec /\ WF_vars(Progress)

-----------------------------------------------------------------------------
(* Type invariant.                                                         *)
TypeOK ==
    /\ chain \in Seq(CommittedBlock) /\ Len(chain) <= MaxHeight
    /\ pending \in {{}} \cup {{b} : b \in Block}
    /\ legacy \in {{}} \cup {{b} : b \in Block}
    /\ exec \in Seq(Content)
    /\ node \in NodeStages
    /\ hasPendingBlock \in BOOLEAN
    /\ step \in Steps
    /\ step # "idle" => node = "up" /\ block \in Block
    /\ root \in Seq(Content)
    /\ signed \subseteq Block
    /\ rollbackable \in BOOLEAN /\ abandoned \in BOOLEAN

(* Whatever crashes, the execution layer agrees with the store: at every   *)
(* committed height it has that block if it has one at all, and beyond the *)
(* last committed block it can only have the block that is pending and     *)
(* will be executed again.  (This, the next and SignedOnce need that no    *)
(* executed block was given up on an error: the retry builds another.)     *)
ExecAgrees ==
    ~abandoned => \A h \in 1..Len(exec) :
        IF h <= Len(chain) THEN exec[h] = Committed[h]
        ELSE \E b \in pending : b.height = h /\ ContentOf(b) = exec[h]

(* The state root committed with each block is the one that executing the  *)
(* committed blocks gives, which is what a full node and a replay compute. *)
RootsHonest ==
    ~abandoned => \A h \in 1..Len(chain) : chain[h].root = SubSeq(Committed, 1, h)

(* A state root the store holds is the one the execution layer has for     *)
(* that height, if it has that height, even after an executed block was    *)
(* given up: a block is never committed with a root the execution layer    *)
(* did not report, and no start-up brings a different history back.        *)
RootsMatchExec ==
    \A h \in 1..Len(chain) : h <= Len(exec) => SubSeq(exec, 1, h) = chain[h].root

(* The proposer never signs two different blocks of one height over        *)
(* crashes, lost execution blocks and start-ups: the pending record        *)
(* "prevents double-signing".                                              *)
OneSignature == \A a, b \in signed : a.height = b.height => a = b
SignedOnce == ~abandoned => OneSignature

(* No combination of crashes, failures before execution, migration and     *)
(* lost blocks is a dead end over an execution layer that can be rolled    *)
(* back: if they come to an end, the chain grows again, up to the bound.   *)
(* (Going down because the start-up or the execution layer refuses is no   *)
(* disruption from outside, and must come to an end by itself.)            *)
Disrupted ==
    \/ (Crash \/ Stop) /\ ~(StartFails \/ HaltOnCriticalError)
    \/ ExecLoses
    \/ ProduceFails

ChainGrows ==
    (/\ [](rollbackable /\ ~abandoned)
     /\ <>[][~Disrupted]_vars) => <>(Len(chain) = MaxHeight)
=============================================================================
