---------------------------- MODULE EngineClient ----------------------------
(* The EVM execution adapter (execution/evm): ExecuteTxs over the Engine API,  *)
(* its execution records and the reconciliation with them after a failure, the *)
(* head, safe and finalized labels, SetFinal of the inclusion loop running     *)
(* beside it, Rollback and PruneExec.  An EL block is the sequence of the block *)
(* inputs from genesis on: its hash and its state root are the sequence, its    *)
(* ancestors the prefixes.  An input is a time in seconds and the transactions. *)
EXTENDS Integers, Sequences

CONSTANTS
  Inputs,                 \* the block inputs: a time in seconds and transactions
  SafeBlockLag, FinalizedBlockLag,
  MaxELChain,               \* bound on the heights
  MaxMishaps              \* bound on restarts, lost calls, replaced blocks and rollbacks

ASSUME EngineClientAssumption ==
  /\ {SafeBlockLag, FinalizedBlockLag, MaxELChain, MaxMishaps} \subseteq Nat
  /\ 1 <= SafeBlockLag /\ SafeBlockLag <= FinalizedBlockLag
  /\ \A i \in Inputs : i.t \in Nat

VARIABLES
  el,      \* the execution layer: canonical head, known blocks, payloads being built
  cl,      \* the client's labels: head, safe, fin
  hashes,  \* blockHashCache
  meta,    \* EVMStore: the execution record of a height; pruned is the marker
  pruned,
  cons,    \* the blocks the node committed
  next,    \* the height the node executes next
  cand,    \* the input of the height above the committed ones
  exec,    \* ExecuteTxs under way
  final,   \* SetFinal under way
  incl,    \* heights made final
  vers,    \* engineRPCClient: preferred forkchoiceUpdated and getPayload versions
  mishaps,
  past     \* what happened: reused (a block of the same second with other transactions), stale
           \* (an older forkchoice sent after a newer), lost (EL lost blocks), refused (no version fits),
           \* orphan (a payload on a parent rolled back since was resumed), cached (a block was
           \* committed while the cache had the hash of another attempt at its height)

gVars == <<el, cl, hashes, meta, pruned, cons, next, cand, exec, final, incl, vers, mishaps, past>>

EHeights == 1..MaxELChain
Genesis == <<>>

\* The last input of a block, its parent hash, and whether a block is on the
\* chain of another.
InputOf(b) == b[Len(b)]
ParentOf(b) == SubSeq(b, 1, Len(b) - 1)
Ancestor(a, b) == Len(a) <= Len(b) /\ SubSeq(b, 1, Len(a)) = a

NoInput == [t |-> -1]
NoBlock == <<NoInput>>
NoMeta == [stage |-> "none", b |-> NoBlock]
IdleExec == [pc |-> "idle", b |-> NoBlock, args |-> [head |-> Genesis, safe |-> Genesis, fin |-> Genesis]]
IdleFinal == [pc |-> "idle", b |-> NoBlock, args |-> [head |-> Genesis, safe |-> Genesis, fin |-> Genesis]]

\* HeaderByNumber: a block of the canonical chain.
getBlockInfo(h) == IF h <= Len(el.head) THEN SubSeq(el.head, 1, h) ELSE NoBlock

\* The EL takes a forkchoice whose labels lie on the head's chain, and moves its
\* head to it, back as well as forward.
ForkchoiceValid(a) == a.head \in el.known /\ Ancestor(a.safe, a.head) /\ Ancestor(a.fin, a.head)

GInit ==
  /\ el = [head |-> Genesis, known |-> {Genesis}, payloads |-> {}]
  /\ cl = [head |-> Genesis, safe |-> Genesis, fin |-> Genesis]
  /\ hashes = [h \in 0..MaxELChain |-> NoBlock] /\ meta = [h \in EHeights |-> NoMeta] /\ pruned = 0
  /\ cons = <<>> /\ next = 1 /\ cand = NoInput
  /\ exec = IdleExec /\ final = IdleFinal /\ incl = 0 /\ vers = [fcu |-> 3, get |-> 4]
  /\ mishaps = 0
  /\ past = [reused |-> FALSE, stale |-> FALSE, lost |-> FALSE, refused |-> FALSE, orphan |-> FALSE, cached |-> FALSE]

\* What goes wrong after the first time does so on a chain half as long.
ChainLimit(n) == IF n > 1 THEN MaxELChain \div 2 ELSE MaxELChain
Mishap ==
  /\ mishaps < MaxMishaps /\ mishaps' = mishaps + 1
  /\ next <= ChainLimit(mishaps + 1) /\ Len(el.head) <= ChainLimit(mishaps + 1)

\* Input and parent of the height executed next.
Input == IF next <= Len(cons) THEN cons[next] ELSE cand
Parent == SubSeq(cons, 1, next - 1)

------------------------------------------------------------------------------
\* The node decides on a block, or on another one in place of one it had not
\* committed.
Decide ==
  /\ exec.pc = "idle" /\ next = Len(cons) + 1 /\ next <= ChainLimit(mishaps)
  /\ \E i \in Inputs :
       /\ cand # i /\ cand' = i
       /\ IF cand = NoInput THEN UNCHANGED mishaps ELSE Mishap
  /\ UNCHANGED <<el, cl, hashes, meta, pruned, cons, next, exec, final, incl, vers, past>>

Matches(m) == m.stage = "promoted" /\ InputOf(m.b).t = Input.t

\* mutant: a payload of other transactions is resumed.
Resumable_ByTime(m) == m.stage = "started" /\ InputOf(m.b).t = Input.t /\ m.b \in el.payloads

\* A started execution of the same inputs whose payload the EL still has.
Resumable(m) == m.stage = "started" /\ InputOf(m.b) = Input /\ m.b \in el.payloads

SetHead(b) == [cl EXCEPT !.head = b]

\* The labels of Rollback.
BackTo(b) == [head |-> b, safe |-> b, fin |-> b]

\* reconcileExecutionAtHeight: reuse what the EL has at the height for the same
\* second, resume a payload, or roll the EL back under a block of another second.
Reconcile ==
  /\ exec.pc = "idle" /\ next <= ChainLimit(mishaps) /\ Input # NoInput
  /\ \E m \in {meta[next]}, b \in {getBlockInfo(next)} :
       IF b # NoBlock /\ InputOf(b).t = Input.t /\ (Matches(m) \/ ~Resumable(m))
         THEN /\ cl' = SetHead(b)
              /\ exec' = [pc |-> "sendHead", b |-> b, args |-> SetHead(b)]
              /\ meta' = IF Matches(m) THEN meta ELSE [meta EXCEPT ![next] = [stage |-> "promoted", b |-> b]]
              /\ past' = [past EXCEPT !.reused = @ \/ InputOf(b) # Input]
         ELSE IF Resumable(m)
           THEN /\ exec' = [exec EXCEPT !.pc = "payload", !.b = m.b]
                /\ past' = [past EXCEPT !.orphan = @ \/ ParentOf(m.b) # Parent]
                /\ UNCHANGED <<cl, meta>>
           ELSE IF b # NoBlock
             THEN \E a \in {BackTo(ParentOf(b))} :
                    cl' = a /\ exec' = [exec EXCEPT !.pc = "sendBack", !.args = a] /\ UNCHANGED <<meta, past>>
             ELSE exec' = [exec EXCEPT !.pc = "build"] /\ UNCHANGED <<cl, meta, past>>
  /\ UNCHANGED <<el, hashes, pruned, cons, next, cand, final, incl, vers, mishaps>>

\* What a forkchoice sent by one of the two callers does to the EL.
Send(a) == el' = [el EXCEPT !.head = a.head]
StaleBy(a) == past' = [past EXCEPT !.stale = @ \/ a.head # cl.head]

\* setHead and Rollback: the call; its failure is only logged.
SendHead ==
  /\ exec.pc \in {"sendHead", "sendBack"}
  /\ \/ ForkchoiceValid(exec.args) /\ Send(exec.args) /\ UNCHANGED mishaps
     \/ ~ForkchoiceValid(exec.args) /\ UNCHANGED <<el, mishaps>>
     \/ Mishap /\ UNCHANGED el
  /\ exec' = [IdleExec EXCEPT !.pc = IF exec.pc = "sendHead" THEN "done" ELSE "build", !.b = exec.b]
  /\ StaleBy(exec.args)
  /\ UNCHANGED <<cl, hashes, meta, pruned, cons, next, cand, final, incl, vers>>

------------------------------------------------------------------------------
\* The version the EL speaks at a height, its forks following one another.
ForkAt(h) == CASE h = 1 -> 4 [] h = 2 -> 5 [] OTHER -> 6
ForkchoiceAt(h) == IF ForkAt(h) = 6 THEN 4 ELSE 3

getPayloadFallbackOrder(v) == CASE v = 5 -> <<5, 6, 4>> [] v = 6 -> <<6, 5, 4>> [] OTHER -> <<4, 5, 6>>

forkchoiceFallbackOrder(v) == IF v = 4 THEN <<4, 3>> ELSE <<3, 4>>

Supported(v, order) == \E i \in DOMAIN order : order[i] = v

Failed == exec' = IdleExec

StartedMeta(b) == [stage |-> "started", b |-> b]

\* The rest of ExecuteTxs before the payload: the parent, whose root must be the
\* committed one, a forkchoice that starts a payload, and its record.
Build ==
  /\ exec.pc = "build"
  /\ \E prev \in {getBlockInfo(next - 1)}, fork \in {ForkAt(next)} :
       LET a == [head |-> prev, safe |-> cl.safe, fin |-> cl.fin] IN
       \/ /\ prev = Parent /\ ForkchoiceValid(a) /\ Supported(ForkchoiceAt(next), forkchoiceFallbackOrder(vers.fcu))
          /\ hashes' = [hashes EXCEPT ![next - 1] = prev]
          /\ el' = [el EXCEPT !.head = prev, !.payloads = @ \cup {Append(prev, Input)}]
          /\ exec' = [exec EXCEPT !.pc = "payload", !.b = Append(prev, Input)]
          /\ meta' = [meta EXCEPT ![next] = StartedMeta(Append(prev, Input))]
          /\ vers' = [fcu |-> ForkchoiceAt(next), get |-> IF fork = 6 THEN 6 ELSE vers.get]
          /\ UNCHANGED mishaps
       \/ /\ prev # Parent \/ ~ForkchoiceValid(a)
          /\ Failed /\ UNCHANGED <<el, hashes, meta, vers, mishaps>>
       \/ Mishap /\ Failed /\ UNCHANGED <<el, hashes, meta, vers>>
  /\ UNCHANGED <<cl, pruned, cons, next, cand, final, incl, past>>

\* mutant: a hash the cache has not is taken to be the head's.
Lookup_OfHead(h) == IF h = next \/ hashes[h] = NoBlock THEN exec.b ELSE hashes[h]

\* The block at a height for a label: from the cache, else from the EL.
Lookup(h) == IF h = next THEN exec.b ELSE IF hashes[h] # NoBlock THEN hashes[h] ELSE getBlockInfo(h)

Lagged(h, lag, old) == IF h > lag /\ Lookup(h - lag) # NoBlock THEN Lookup(h - lag) ELSE old

LabelsAt(h) ==
  [head |-> exec.b, safe |-> Lagged(h, SafeBlockLag, cl.safe), fin |-> Lagged(h, FinalizedBlockLag, cl.fin)]

\* processPayload: getPayload and newPayload, then setFinalWithHeight(isFinal = false)
\* moves the labels under the lock; the call follows after it.
ProcessPayload ==
  /\ exec.pc = "payload"
  /\ \E fits \in {Supported(ForkAt(next), getPayloadFallbackOrder(vers.get))},
        a \in {LabelsAt(next)} :
       \/ /\ exec.b \in el.payloads /\ fits
          /\ el' = [el EXCEPT !.known = @ \cup {exec.b}]
          /\ hashes' = [hashes EXCEPT ![next] = exec.b]
          /\ vers' = [vers EXCEPT !.get = ForkAt(next)]
          /\ cl' = a /\ exec' = [exec EXCEPT !.pc = "sendFinal", !.args = a]
          /\ UNCHANGED <<mishaps, past>>
       \/ /\ exec.b \notin el.payloads \/ ~fits
          /\ past' = [past EXCEPT !.refused = @ \/ ~fits]
          /\ Failed /\ UNCHANGED <<el, cl, hashes, vers, mishaps>>
       \/ Mishap /\ Failed /\ UNCHANGED <<el, cl, hashes, vers, past>>
  /\ UNCHANGED <<meta, pruned, cons, next, cand, final, incl>>

SendFinal ==
  /\ exec.pc = "sendFinal"
  /\ \/ ForkchoiceValid(exec.args) /\ Send(exec.args) /\ exec' = [IdleExec EXCEPT !.pc = "promoted", !.b = exec.b] /\ UNCHANGED mishaps
     \/ ~ForkchoiceValid(exec.args) /\ Failed /\ UNCHANGED <<el, mishaps>>
     \/ Mishap /\ Failed /\ UNCHANGED el
  /\ StaleBy(exec.args)
  /\ UNCHANGED <<cl, hashes, meta, pruned, cons, next, cand, final, incl, vers>>

\* The record; the payload is not asked for again.
SavePromoted ==
  /\ exec.pc = "promoted" /\ exec' = [exec EXCEPT !.pc = "done"]
  /\ el' = [el EXCEPT !.payloads = @ \ {exec.b}]
  /\ meta' = [meta EXCEPT ![next] = [stage |-> "promoted", b |-> exec.b]]
  /\ UNCHANGED <<cl, hashes, pruned, cons, next, cand, final, incl, vers, mishaps, past>>

\* The node commits the block with the root it was given; a replayed one's root
\* must be the stored one.  Hashes no label asks for any more are dropped, as
\* cacheBlockHash does later.
Return ==
  /\ exec.pc = "done" /\ exec' = IdleExec
  /\ next' = next + 1
  /\ IF next <= Len(cons) THEN UNCHANGED <<cons, cand>>
     ELSE cons' = exec.b /\ cand' = NoInput
  /\ hashes' = [h \in 0..MaxELChain |-> IF h < next - FinalizedBlockLag THEN NoBlock ELSE hashes[h]]
  /\ past' = [past EXCEPT !.cached = @ \/ hashes[next] \notin {NoBlock, exec.b}]
  /\ UNCHANGED <<el, cl, meta, pruned, final, incl, vers, mishaps>>

------------------------------------------------------------------------------
\* SetFinal of the next included height: look the block up, move the labels,
\* then call.
FinalLookup ==
  /\ final.pc = "idle" /\ incl < Len(cons) /\ getBlockInfo(incl + 1) # NoBlock
  /\ final' = [final EXCEPT !.pc = "label", !.b = getBlockInfo(incl + 1)]
  /\ UNCHANGED <<el, cl, hashes, meta, pruned, cons, next, cand, exec, incl, vers, mishaps, past>>

FinalLabel ==
  /\ final.pc = "label"
  /\ \E a \in {[head |-> cl.head, safe |-> final.b, fin |-> final.b]} :
       cl' = a /\ final' = [IdleFinal EXCEPT !.pc = "send", !.args = a]
  /\ UNCHANGED <<el, hashes, meta, pruned, cons, next, cand, exec, incl, vers, mishaps, past>>

FinalSend ==
  /\ final.pc = "send"
  /\ \/ ForkchoiceValid(final.args) /\ Send(final.args) /\ incl' = incl + 1
     \/ ~ForkchoiceValid(final.args) /\ UNCHANGED <<el, incl>>
  /\ final' = IdleFinal /\ StaleBy(final.args)
  /\ UNCHANGED <<cl, hashes, meta, pruned, cons, next, cand, exec, vers, mishaps>>

\* PruneExec up to a height, from the marker on.
PruneExec ==
  /\ exec.pc = "idle" /\ final.pc = "idle"
  /\ \E h \in (pruned + 1)..(Len(cons) - 1) :
       /\ meta' = [x \in EHeights |-> IF x \in (pruned + 1)..h THEN NoMeta ELSE meta[x]]
       /\ pruned' = h
  /\ UNCHANGED <<el, cl, hashes, cons, next, cand, exec, final, incl, vers, mishaps, past>>

------------------------------------------------------------------------------
\* A new client: labels at genesis; the replayer goes on from the EL's height.
Fresh ==
  /\ cl' = [head |-> Genesis, safe |-> Genesis, fin |-> Genesis]
  /\ hashes' = [h \in 0..MaxELChain |-> NoBlock]
  /\ exec' = IdleExec /\ final' = IdleFinal /\ vers' = [fcu |-> 3, get |-> 4]

RestartNode ==
  /\ Mishap /\ Fresh
  /\ next' = IF Len(el.head) < Len(cons) THEN Len(el.head) + 1 ELSE Len(cons) + 1
  /\ UNCHANGED <<el, meta, pruned, cons, cand, incl, past>>

\* The EL restarts: no payload survives, and the last block may not.
RestartEL ==
  /\ Mishap
  /\ \E n \in {Len(el.head), Len(el.head) - 1} :
       /\ n >= 0
       /\ el' = [head |-> SubSeq(el.head, 1, n), known |-> {SubSeq(el.head, 1, k) : k \in 0..n}, payloads |-> {}]
       /\ past' = [past EXCEPT !.lost = @ \/ el'.known # el.known]
  /\ UNCHANGED <<cl, hashes, meta, pruned, cons, next, cand, exec, final, incl, vers>>

\* An aggregator does not roll back what is included.
Rollbackable == Len(cons) > incl

\* The rollback command: the store, then the EL unless its client cannot be made.
RollbackCmd ==
  /\ Mishap /\ Rollbackable /\ Len(el.head) >= Len(cons)
  /\ cons' = ParentOf(cons) /\ cand' = NoInput
  /\ \E back \in BOOLEAN : el' = [el EXCEPT !.head = IF back THEN SubSeq(@, 1, Len(cons) - 1) ELSE @]
  /\ Fresh /\ next' = Len(cons)
  /\ UNCHANGED <<meta, pruned, incl, past>>

GNext ==
  \/ Decide \/ Reconcile \/ SendHead \/ Build \/ ProcessPayload
  \/ SendFinal \/ SavePromoted \/ Return
  \/ FinalLookup \/ FinalLabel \/ FinalSend \/ PruneExec
  \/ RestartNode \/ RestartEL \/ RollbackCmd

GSpec == GInit /\ [][GNext]_gVars

------------------------------------------------------------------------------
Chains == UNION {[1..n -> Inputs] : n \in 0..MaxELChain}

\* Types; the node is at most one block ahead of what it executes.
GTypeOK ==
  /\ cons \in Chains /\ el.head \in el.known /\ el.known \subseteq Chains
  /\ {cl.head, cl.safe, cl.fin} \subseteq Chains
  /\ next \in 1..(Len(cons) + 1) /\ incl <= Len(cons) /\ pruned \in 0..MaxELChain
  /\ cand \in Inputs \cup {NoInput} /\ mishaps \in 0..MaxMishaps

\* What ExecuteTxs returns is the execution of exactly these transactions on the
\* chain the node committed, through every retry, resumed payload, restart and
\* rollback, unless the EL had a block of the same second, or still a
\* payload on a parent that was rolled back since (execution.go
\* reconcileExecutionAtHeight).
ResultExact == exec.pc = "done" => exec.b = Append(Parent, Input) \/ past.reused \/ past.orphan

\* No block was reused or resumed on another parent, no forkchoice overtaken, no
\* hash of another attempt kept.
Undisturbed == ~past.reused /\ ~past.orphan /\ ~past.stale /\ ~past.cached

\* Safe and finalized stay on the chain of the head the client tracks, and
\* finalized is not ahead of safe but in the first blocks, where only safe has
\* begun to lag, unless the client has not executed a block since it started, or
\* one of the cases above (execution.go setFinalWithHeight, cacheBlockHash).
LabelsOnChain ==
  \/ cl.head = Genesis
  \/ /\ Ancestor(cl.safe, cl.head) /\ Ancestor(cl.fin, cl.head)
     /\ Ancestor(cl.fin, cl.safe) \/ Len(cl.safe) \in 1..(FinalizedBlockLag - SafeBlockLag)
  \/ ~Undisturbed

\* A record says promoted only of a block the EL took (store.go ExecMeta), unless
\* the EL lost it in a restart.
PromotedKnown == \A h \in EHeights : meta[h].stage = "promoted" => meta[h].b \in el.known \/ past.lost

\* The EL has what the node committed, unless a forkchoice was overtaken by a newer
\* one or the EL lost a block (execution.go doForkchoiceUpdate).
HeadFollows ==
  exec.pc = "idle" /\ next = Len(cons) + 1 /\ Undisturbed /\ ~past.lost => Ancestor(cons, el.head)

\* No call fails for its version as long as the EL speaks one of them, whatever
\* fork a rollback returns to (engine_rpc_client.go).
NeverRefused == ~past.refused
=============================================================================
