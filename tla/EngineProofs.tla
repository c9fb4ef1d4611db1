---------------------------- MODULE EngineProofs ----------------------------
(***************************************************************************)
(* Proofs about the client of the execution layer (EngineClient), for any  *)
(* inputs, lags and bounds: over every retry, resumed payload, restart,    *)
(* lost block and rollback, and with SetFinal running beside ExecuteTxs,   *)
(* what ExecuteTxs returns is the execution of the block it was given, and *)
(* the safe and finalized labels stay on the chain of the tracked head.    *)
(***************************************************************************)
EXTENDS EngineClient, TLAPS

(* What the variables hold.  A block may have NoInput in it only in        *)
(* NoBlock, which stands for none.                                         *)
Cells == Inputs \cup {NoInput}
ELBlocks == Seq(Cells)
ELs == [head : ELBlocks, known : SUBSET ELBlocks, payloads : SUBSET ELBlocks]
Labels == [head : ELBlocks, safe : ELBlocks, fin : ELBlocks]
ExecPCs == {"idle", "sendHead", "sendBack", "build", "payload", "sendFinal", "promoted", "done"}
Mined == ELBlocks \ {<<>>}
Execs == [pc : ExecPCs, b : Mined, args : Labels]
Finals == [pc : {"idle", "label", "send"}, b : ELBlocks, args : Labels]
Metas == [stage : {"none", "started", "promoted"}, b : Mined]
Pasts == [reused : BOOLEAN, stale : BOOLEAN, lost : BOOLEAN, refused : BOOLEAN, orphan : BOOLEAN,
          cached : BOOLEAN]

EngineTypes ==
  /\ el \in ELs /\ cl \in Labels
  /\ hashes \in [0..MaxELChain -> ELBlocks] /\ meta \in [EHeights -> Metas]
  /\ cons \in ELBlocks /\ next \in Nat \ {0} /\ cand \in Cells
  /\ exec \in Execs /\ final \in Finals /\ incl \in Nat /\ past \in Pasts
  /\ exec.pc # "idle" => next <= MaxELChain

(* All of a block but its last input is the chain c, as far as that goes:  *)
(* only the top of a chain may be an attempt given up since.               *)
Follows(b, c) == \A i \in 1..(Len(b) - 1) : i <= Len(c) => b[i] = c[i]

(* No label or call of this client is above the height executed now.       *)
Near(b, c, n) == Len(b) <= n /\ Follows(b, c)

(* The inductive invariant of ResultExact: the heads of the EL, of the     *)
(* client and of the calls on their way follow the committed chain.        *)
Heads ==
  /\ next <= Len(cons) + 1 /\ Follows(el.head, cons)
  /\ Near(cl.head, cons, next) /\ Near(exec.args.head, cons, next) /\ Near(final.args.head, cons, next)

(* The block ExecuteTxs works on, once there is one, is the right one.     *)
Working == exec.pc \in {"sendHead", "payload", "sendFinal", "promoted", "done"} => exec.b = Append(Parent, Input)

(* Once it is head, a longer head runs through it.                         *)
Through == exec.pc \in {"sendHead", "promoted", "done"} /\ Len(el.head) > next => el.head[next] = Input

(* No block of another input was reused, none resumed on another parent.   *)
Own == ~past.reused /\ ~past.orphan

GInv == EngineTypes /\ (Own => Heads /\ Working /\ Through)

(* The whole block is the chain c as far as that goes.                     *)
Runs(b, c) == \A i \in 1..Len(b) : i <= Len(c) => b[i] = c[i]

(* Both heads run along the committed chain, the client's within a block   *)
(* of the height executed next; a client that replays finds no EL ahead.   *)
Anchored ==
  /\ cons \in Seq(Inputs) /\ (exec.pc # "idle" => Input # NoInput)
  /\ Runs(el.head, cons) /\ Runs(cl.head, cons)
  /\ next <= Len(cons) => Len(el.head) <= next
  /\ cl.head = Genesis \/ Len(cl.head) >= next - 1
  /\ cl.head = Genesis \/ Len(el.head) <= Len(cl.head) \/ Len(cons) <= Len(cl.head)
  /\ exec.pc \in {"sendHead", "sendFinal", "promoted", "done"} => cl.head = exec.b
  /\ exec.pc = "sendBack" => Len(cl.head) = next - 1

(* A label on the committed chain, not above the head it goes with.        *)
Placed(x, h, c, n) == Ancestor(x, c) /\ Len(x) <= n /\ (h = Genesis \/ Len(x) <= Len(h))

(* The labels of the client and the one SetFinal is about to move.         *)
LabelsPlaced ==
  /\ Placed(cl.safe, cl.head, cons, next) /\ Placed(cl.fin, cl.head, cons, next)
  /\ final.pc = "label" => Placed(final.b, cl.head, cons, next) /\ final.b # <<>>
  /\ final.pc = "send" => final.args.safe # <<>>
  /\ Len(cl.fin) <= Len(cl.safe) \/ Len(cl.safe) \in 1..(FinalizedBlockLag - SafeBlockLag)

(* The cache has the committed block of a height below, and with a payload *)
(* the EL has them all: a lagging label is always found.                   *)
Findable ==
  /\ \A h \in 0..MaxELChain : h < next => hashes[h] = NoBlock \/ hashes[h] = SubSeq(cons, 1, h)
  /\ el.payloads = {} \/ Len(el.head) >= next - 1
  /\ exec.pc \in {"sendHead", "promoted", "done"} =>
       /\ el.payloads = {} \/ Len(el.head) >= next
       /\ Len(el.head) >= next => el.head[next] = Input

(* The inductive invariant of LabelsOnChain.                               *)
LInv == GInv /\ (Undisturbed => Anchored /\ LabelsPlaced /\ Findable)

-----------------------------------------------------------------------------
(* Sequences, and blocks that follow a chain.                              *)
LEMMA Prefixes ==
  ASSUME NEW S, NEW b \in Seq(S), NEW k \in Nat, k <= Len(b)
  PROVE  /\ SubSeq(b, 1, k) \in Seq(S) /\ Len(SubSeq(b, 1, k)) = k
         /\ \A i \in 1..k : SubSeq(b, 1, k)[i] = b[i]
  OBVIOUS

LEMMA WholePrefix ==
  ASSUME NEW S, NEW b \in Seq(S)
  PROVE  SubSeq(b, 1, Len(b)) = b
  OBVIOUS

LEMMA ParentOfs ==
  ASSUME NEW S, NEW b \in Seq(S), b # <<>>
  PROVE  /\ ParentOf(b) \in Seq(S) /\ Len(ParentOf(b)) = Len(b) - 1 /\ Len(b) >= 1
         /\ \A i \in 1..(Len(b) - 1) : ParentOf(b)[i] = b[i]
         /\ b = Append(ParentOf(b), InputOf(b)) /\ InputOf(b) \in S
<1>1. Len(b) \in Nat /\ Len(b) >= 1
  OBVIOUS
<1>2. /\ ParentOf(b) \in Seq(S) /\ Len(ParentOf(b)) = Len(b) - 1
      /\ \A i \in 1..(Len(b) - 1) : ParentOf(b)[i] = b[i]
  BY <1>1, Prefixes, Len(b) - 1 \in Nat, Len(b) - 1 <= Len(b) DEF ParentOf
<1>3. InputOf(b) \in S
  BY <1>1 DEF InputOf
<1>4. b = Append(ParentOf(b), InputOf(b))
  BY <1>1, <1>2, <1>3 DEF InputOf
<1> QED BY <1>1, <1>2, <1>3, <1>4, Zenon

LEMMA Appends ==
  ASSUME NEW S, NEW b \in Seq(S), NEW x \in S
  PROVE  Append(b, x) \in Seq(S) /\ Len(Append(b, x)) = Len(b) + 1 /\ Append(b, x) # <<>>
<1>1. Append(b, x) \in Seq(S) /\ Len(Append(b, x)) = Len(b) + 1 /\ Len(b) \in Nat
  OBVIOUS
<1>2. Len(Append(b, x)) # 0 /\ Len(<<>>) = 0
  BY <1>1
<1> QED BY <1>1, <1>2, Zenon

LEMMA FollowsPrefix ==
  ASSUME NEW S, NEW b \in Seq(S), NEW c \in Seq(S), NEW k \in Nat, k <= Len(b), Follows(b, c)
  PROVE  Follows(SubSeq(b, 1, k), c)
<1>1. Len(SubSeq(b, 1, k)) = k /\ \A i \in 1..k : SubSeq(b, 1, k)[i] = b[i]
  BY Prefixes
<1> QED BY <1>1 DEF Follows

LEMMA FollowsOwn ==
  ASSUME NEW S, NEW c \in Seq(S), NEW k \in Nat, k <= Len(c)
  PROVE  Follows(SubSeq(c, 1, k), c)
<1>1. Len(SubSeq(c, 1, k)) = k /\ \A i \in 1..k : SubSeq(c, 1, k)[i] = c[i]
  BY Prefixes
<1> QED BY <1>1 DEF Follows

LEMMA FollowsNext ==
  ASSUME NEW S, NEW c \in Seq(S), NEW n \in Nat \ {0}, n <= Len(c) + 1, NEW x \in S
  PROVE  Near(Append(SubSeq(c, 1, n - 1), x), c, n)
<1>1. /\ SubSeq(c, 1, n - 1) \in Seq(S) /\ Len(SubSeq(c, 1, n - 1)) = n - 1
      /\ \A i \in 1..(n - 1) : SubSeq(c, 1, n - 1)[i] = c[i]
  BY Prefixes, n - 1 \in Nat
<1> DEFINE p == SubSeq(c, 1, n - 1)
<1>2. Len(Append(p, x)) = n /\ \A i \in 1..(n - 1) : Append(p, x)[i] = c[i]
  <2> HIDE DEF p
  <2>1. p \in Seq(S) /\ Len(p) = n - 1 /\ \A i \in 1..(n - 1) : p[i] = c[i]
    BY <1>1 DEF p
  <2> QED BY <2>1
<1> QED BY <1>2 DEF Near, Follows

LEMMA FollowsShorter ==
  ASSUME NEW S, NEW b \in Seq(S), NEW c \in Seq(S), c # <<>>, Follows(b, c)
  PROVE  Follows(b, ParentOf(c))
<1>1. Len(ParentOf(c)) = Len(c) - 1 /\ \A i \in 1..(Len(c) - 1) : ParentOf(c)[i] = c[i]
  BY ParentOfs
<1> QED BY <1>1 DEF Follows

LEMMA FollowsLonger ==
  ASSUME NEW S, NEW b \in Seq(S), NEW c \in Seq(S), NEW x \in S, Follows(b, c),
         Len(b) > Len(c) + 1 => b[Len(c) + 1] = x
  PROVE  Follows(b, Append(c, x))
<1>1. /\ Len(Append(c, x)) = Len(c) + 1 /\ Append(c, x)[Len(c) + 1] = x
      /\ \A i \in 1..Len(c) : Append(c, x)[i] = c[i]
  OBVIOUS
<1>2. SUFFICES ASSUME NEW i \in 1..(Len(b) - 1), i <= Len(c) + 1 PROVE b[i] = Append(c, x)[i]
  BY <1>1 DEF Follows
<1>3. CASE i <= Len(c)
  BY <1>1, <1>3 DEF Follows
<1>4. CASE i = Len(c) + 1
  BY <1>1, <1>4
<1> QED BY <1>2, <1>3, <1>4

LEMMA FollowsGenesis ==
  ASSUME NEW S, NEW c \in Seq(S), NEW n \in Nat
  PROVE  Near(Genesis, c, n)
  BY DEF Near, Follows, Genesis

(* The block of the EL at the height executed next is the one asked for if *)
(* it has the right input.                                                 *)
LEMMA ReusedBlock ==
  ASSUME NEW S, NEW b \in Seq(S), NEW c \in Seq(S), NEW n \in Nat \ {0}, n <= Len(c) + 1, n <= Len(b),
         Follows(b, c)
  PROVE  SubSeq(b, 1, n) = Append(SubSeq(c, 1, n - 1), b[n])
<1>1. /\ SubSeq(c, 1, n - 1) \in Seq(S) /\ Len(SubSeq(c, 1, n - 1)) = n - 1
      /\ \A i \in 1..(n - 1) : SubSeq(c, 1, n - 1)[i] = c[i]
  BY Prefixes, n - 1 \in Nat
<1>2. SubSeq(b, 1, n) \in Seq(S) /\ Len(SubSeq(b, 1, n)) = n /\ \A i \in 1..n : SubSeq(b, 1, n)[i] = b[i]
  BY Prefixes
<1>3. b[n] \in S
  OBVIOUS
<1> DEFINE p == SubSeq(c, 1, n - 1)  q == SubSeq(b, 1, n)  r == Append(p, b[n])
<1>4. p \in Seq(S) /\ Len(p) = n - 1 /\ q \in Seq(S) /\ Len(q) = n
  BY <1>1, <1>2
<1>5. \A i \in 1..(n - 1) : p[i] = c[i] /\ q[i] = b[i]
  BY <1>1, <1>2
<1>6. q[n] = b[n]
  BY <1>2
<1> HIDE DEF p, q
<1>7. r \in Seq(S) /\ Len(r) = n /\ r[n] = b[n] /\ \A i \in 1..(n - 1) : r[i] = p[i]
  BY <1>3, <1>4
<1>8. \A i \in 1..(n - 1) : b[i] = c[i]
  BY DEF Follows
<1> HIDE DEF r
<1>9. \A i \in 1..n : q[i] = r[i]
  <2> SUFFICES ASSUME NEW i \in 1..n PROVE q[i] = r[i]
    OBVIOUS
  <2>1. CASE i = n
    BY <2>1, <1>6, <1>7
  <2>2. CASE i \in 1..(n - 1)
    BY <2>2, <1>5, <1>7, <1>8
  <2> QED BY <2>1, <2>2
<1>10. q = r
  BY <1>4, <1>7, <1>9
<1> QED BY <1>10 DEF q, r, p

-----------------------------------------------------------------------------
(* Types of the operators and of every step.                               *)
LEMMA Constants ==
  /\ Genesis \in ELBlocks /\ NoBlock \in ELBlocks /\ NoBlock # <<>> /\ NoBlock \in Mined /\ NoMeta \in Metas
  /\ [head |-> Genesis, safe |-> Genesis, fin |-> Genesis] \in Labels
  /\ IdleExec \in Execs /\ IdleFinal \in Finals
  /\ SafeBlockLag \in Nat /\ FinalizedBlockLag \in Nat /\ MaxELChain \in Nat
<1>1. Genesis \in ELBlocks /\ NoBlock \in ELBlocks /\ NoBlock # <<>>
  BY DEF Genesis, NoBlock, ELBlocks, Cells
<1>2. [head |-> Genesis, safe |-> Genesis, fin |-> Genesis] \in Labels
  BY <1>1, Zenon DEF Labels
<1>3. NoMeta \in Metas
  BY <1>1, Zenon DEF Metas, NoMeta, Mined
<1>4. IdleExec \in Execs /\ IdleFinal \in Finals
  BY <1>1, <1>2, Zenon DEF Execs, Finals, ExecPCs, IdleExec, IdleFinal, Mined
<1>5. NoBlock \in Mined
  BY <1>1, Zenon DEF Mined
<1> QED BY <1>5, <1>1, <1>2, <1>3, <1>4, EngineClientAssumption

LEMMA BlockAt ==
  ASSUME el \in ELs, NEW h \in Nat
  PROVE  getBlockInfo(h) \in ELBlocks
<1>1. el.head \in Seq(Cells)
  BY Zenon DEF ELs, ELBlocks
<1>2. CASE h <= Len(el.head)
  BY <1>1, <1>2, Prefixes DEF getBlockInfo, ELBlocks
<1>3. CASE ~ h <= Len(el.head)
  BY <1>3, Constants DEF getBlockInfo
<1> QED BY <1>2, <1>3, Zenon

LEMMA ExecAt ==
  ASSUME exec \in Execs, NEW p \in ExecPCs, exec' = [exec EXCEPT !.pc = p]
  PROVE  exec' \in Execs /\ exec'.pc = p /\ exec'.b = exec.b /\ exec'.args = exec.args
  BY DEF Execs

LEMMA ExecOn ==
  ASSUME exec \in Execs, NEW p \in ExecPCs, NEW b \in Mined, exec' = [exec EXCEPT !.pc = p, !.b = b]
  PROVE  exec' \in Execs /\ exec'.pc = p /\ exec'.b = b /\ exec'.args = exec.args
  BY DEF Execs

LEMMA ExecSends ==
  ASSUME exec \in Execs, NEW p \in ExecPCs, NEW a \in Labels, exec' = [exec EXCEPT !.pc = p, !.args = a]
  PROVE  exec' \in Execs /\ exec'.pc = p /\ exec'.b = exec.b /\ exec'.args = a
  BY DEF Execs

LEMMA ExecSent ==
  ASSUME NEW p \in ExecPCs, NEW b \in Mined, exec' = [IdleExec EXCEPT !.pc = p, !.b = b]
  PROVE  exec' \in Execs /\ exec'.pc = p /\ exec'.b = b /\ exec'.args.head = Genesis
<1>1. IdleExec \in Execs /\ IdleExec.args.head = Genesis
  BY Constants, Zenon DEF IdleExec
<1> QED BY <1>1 DEF Execs

(* What happened is never forgotten.                                       *)
Remembers(p) ==
  /\ p \in Pasts /\ (past.reused => p.reused) /\ (past.orphan => p.orphan)
  /\ (past.stale => p.stale) /\ (past.cached => p.cached)

LEMMA PastStep ==
  ASSUME past \in Pasts, NEW e \in BOOLEAN
  PROVE  /\ Remembers([past EXCEPT !.reused = @ \/ e]) /\ Remembers([past EXCEPT !.stale = @ \/ e])
         /\ Remembers([past EXCEPT !.lost = @ \/ e]) /\ Remembers([past EXCEPT !.refused = @ \/ e])
         /\ Remembers([past EXCEPT !.orphan = @ \/ e]) /\ Remembers([past EXCEPT !.cached = @ \/ e])
         /\ [past EXCEPT !.reused = @ \/ e].reused = (past.reused \/ e)
         /\ [past EXCEPT !.orphan = @ \/ e].orphan = (past.orphan \/ e)
         /\ [past EXCEPT !.stale = @ \/ e].stale = (past.stale \/ e)
         /\ [past EXCEPT !.cached = @ \/ e].cached = (past.cached \/ e)
  BY Zenon DEF Pasts, Remembers

LEMMA ElStep ==
  ASSUME el \in ELs, NEW b \in ELBlocks, NEW S \in SUBSET ELBlocks
  PROVE  /\ el.head \in ELBlocks /\ el.known \in SUBSET ELBlocks /\ el.payloads \in SUBSET ELBlocks
         /\ [el EXCEPT !.head = b] \in ELs /\ [el EXCEPT !.head = b].head = b
         /\ [el EXCEPT !.known = S] \in ELs /\ [el EXCEPT !.known = S].head = el.head
         /\ [el EXCEPT !.payloads = S] \in ELs /\ [el EXCEPT !.payloads = S].head = el.head
         /\ [el EXCEPT !.head = b, !.payloads = S] \in ELs /\ [el EXCEPT !.head = b, !.payloads = S].head = b
  BY DEF ELs

LEMMA Fields ==
  ASSUME EngineTypes
  PROVE  /\ el.head \in ELBlocks /\ el.known \in SUBSET ELBlocks /\ el.payloads \in SUBSET ELBlocks
         /\ cl.head \in ELBlocks /\ cl.safe \in ELBlocks /\ cl.fin \in ELBlocks
         /\ exec.pc \in ExecPCs /\ exec.b \in Mined /\ exec.b \in ELBlocks /\ exec.args \in Labels /\ exec.args.head \in ELBlocks
         /\ final.b \in ELBlocks /\ final.args \in Labels /\ final.args.head \in ELBlocks
         /\ Len(cons) \in Nat /\ Len(el.head) \in Nat
<1>1. /\ el.head \in ELBlocks /\ el.known \in SUBSET ELBlocks /\ el.payloads \in SUBSET ELBlocks
      /\ cl.head \in ELBlocks /\ cl.safe \in ELBlocks /\ cl.fin \in ELBlocks
      /\ exec.pc \in ExecPCs /\ exec.b \in Mined /\ exec.b \in ELBlocks /\ exec.args \in Labels
      /\ final.b \in ELBlocks /\ final.args \in Labels
  BY Zenon DEF EngineTypes, ELs, Labels, Execs, Finals, Mined
<1>2. exec.args.head \in ELBlocks /\ final.args.head \in ELBlocks
  BY <1>1, Zenon DEF Labels
<1>3. Len(cons) \in Nat /\ Len(el.head) \in Nat
  BY <1>1 DEF EngineTypes, ELBlocks
<1> QED BY <1>1, <1>2, <1>3, Zenon

LEMMA InputType ==
  ASSUME EngineTypes
  PROVE  Input \in Cells
<1>1. CASE next <= Len(cons)
  BY <1>1 DEF EngineTypes, Input, ELBlocks
<1>2. CASE ~ next <= Len(cons)
  BY <1>2, Zenon DEF EngineTypes, Input
<1> QED BY <1>1, <1>2, Zenon

LEMMA LimitBound ==
  ASSUME NEW n, next <= ChainLimit(n), EngineTypes
  PROVE  next \in EHeights
<1>1. MaxELChain \in Nat /\ MaxELChain \div 2 <= MaxELChain /\ MaxELChain \div 2 \in Nat
  BY Constants
<1> QED BY <1>1 DEF ChainLimit, EHeights, EngineTypes

LEMMA LaggedType ==
  ASSUME EngineTypes, next <= MaxELChain, NEW lag \in Nat, NEW old \in ELBlocks
  PROVE  Lagged(next, lag, old) \in ELBlocks
<1>1. CASE next > lag
  <2>1. next - lag \in Nat /\ next - lag \in 0..MaxELChain
    BY <1>1, Constants DEF EngineTypes
  <2>2. getBlockInfo(next - lag) \in ELBlocks /\ exec.b \in ELBlocks /\ hashes[next - lag] \in ELBlocks
    BY <2>1, BlockAt, Fields, Zenon DEF EngineTypes
  <2>3. Lookup(next - lag) \in ELBlocks
    BY <2>2, Zenon DEF Lookup
  <2> QED BY <2>3, Zenon DEF Lagged
<1>2. CASE ~ next > lag
  BY <1>2, Zenon DEF Lagged
<1> QED BY <1>1, <1>2, Zenon

LEMMA LabelsAtType ==
  ASSUME EngineTypes, next <= MaxELChain
  PROVE  LabelsAt(next) \in Labels /\ LabelsAt(next).head = exec.b
<1>1. Lagged(next, SafeBlockLag, cl.safe) \in ELBlocks /\ Lagged(next, FinalizedBlockLag, cl.fin) \in ELBlocks
  BY LaggedType, Fields, Constants, Zenon
<1> QED BY <1>1, Fields, Zenon DEF LabelsAt, Labels

LEMMA FreshTypes ==
  ASSUME Fresh
  PROVE  /\ cl' \in Labels /\ hashes' \in [0..MaxELChain -> ELBlocks] /\ exec' \in Execs /\ final' \in Finals
         /\ exec'.pc = "idle" /\ cl'.head = Genesis /\ exec'.args.head = Genesis /\ final'.args.head = Genesis
<1>1. cl' \in Labels /\ exec' \in Execs /\ final' \in Finals
  BY Constants, Zenon DEF Fresh
<1>2. hashes' \in [0..MaxELChain -> ELBlocks]
  BY Constants, Zenon DEF Fresh
<1>3. exec'.pc = "idle" /\ cl'.head = Genesis /\ exec'.args.head = Genesis /\ final'.args.head = Genesis
  BY Zenon DEF Fresh, IdleExec, IdleFinal
<1> QED BY <1>1, <1>2, <1>3, Zenon

(* What reconciling does with the record and the EL block of the height.  *)
Record == meta[next]
Found == getBlockInfo(next)

Reuse ==
  /\ Found # NoBlock
  /\ cl' = SetHead(Found) /\ exec' = [pc |-> "sendHead", b |-> Found, args |-> SetHead(Found)]
  /\ meta' = meta \/ meta' = [meta EXCEPT ![next] = [stage |-> "promoted", b |-> Found]]
  /\ past' = [past EXCEPT !.reused = @ \/ InputOf(Found) # Input]

Resume ==
  /\ InputOf(Record.b) = Input /\ exec' = [exec EXCEPT !.pc = "payload", !.b = Record.b]
  /\ past' = [past EXCEPT !.orphan = @ \/ ParentOf(Record.b) # Parent]
  /\ UNCHANGED <<cl, meta>>

GoBack ==
  /\ Found # NoBlock /\ InputOf(Found) # Input /\ cl' = BackTo(ParentOf(Found))
  /\ exec' = [exec EXCEPT !.pc = "sendBack", !.args = BackTo(ParentOf(Found))] /\ UNCHANGED <<meta, past>>

GoOn == exec' = [exec EXCEPT !.pc = "build"] /\ UNCHANGED <<cl, meta, past>>

LEMMA ReconcileCases ==
  ASSUME EngineTypes, Reconcile
  PROVE  /\ next <= MaxELChain /\ Record \in Metas /\ Record.b \in Mined
         /\ Found # NoBlock => /\ Found \in Mined /\ Found = SubSeq(el.head, 1, next) /\ next <= Len(el.head)
                           /\ SetHead(Found) \in Labels /\ SetHead(Found).head = Found
                           /\ BackTo(ParentOf(Found)) \in Labels /\ BackTo(ParentOf(Found)).head = ParentOf(Found)
         /\ Reuse \/ Resume \/ GoBack \/ GoOn
<1>1. next \in EHeights /\ next <= MaxELChain /\ next \in Nat \ {0} /\ next \in Nat
  BY LimitBound, Constants DEF Reconcile, EHeights
<1>2. Found \in ELBlocks /\ Record \in Metas /\ Record.b \in Mined
  BY <1>1, BlockAt, Zenon DEF Metas, EngineTypes, Record, Found
<1>3. Found # NoBlock => Found = SubSeq(el.head, 1, next) /\ next <= Len(el.head) /\ Found \in Mined
  <2> SUFFICES ASSUME Found # NoBlock PROVE Found = SubSeq(el.head, 1, next) /\ next <= Len(el.head) /\ Found \in Mined
    BY Zenon
  <2>1. Found = SubSeq(el.head, 1, next) /\ next <= Len(el.head)
    BY Zenon DEF getBlockInfo, Found
  <2>2. Len(Found) = next
    BY <2>1, <1>1, Fields, Prefixes, Zenon DEF ELBlocks
  <2>3. Found # <<>>
    BY <2>2, <1>1
  <2> QED BY <1>2, <2>1, <2>3, Zenon DEF Mined
<1>4. Found # NoBlock => ParentOf(Found) \in ELBlocks
  BY <1>3, ParentOfs, Zenon DEF ELBlocks, Mined
<1>5. SetHead(Found) \in Labels /\ SetHead(Found).head = Found
  BY <1>2 DEF SetHead, Labels, EngineTypes
<1>6. Found # NoBlock => BackTo(ParentOf(Found)) \in Labels /\ BackTo(ParentOf(Found)).head = ParentOf(Found)
  BY <1>4, Zenon DEF BackTo, Labels
<1>7. IF Found # NoBlock /\ InputOf(Found).t = Input.t /\ (Matches(Record) \/ ~Resumable(Record))
        THEN /\ cl' = SetHead(Found)
             /\ exec' = [pc |-> "sendHead", b |-> Found, args |-> SetHead(Found)]
             /\ meta' = IF Matches(Record) THEN meta ELSE [meta EXCEPT ![next] = [stage |-> "promoted", b |-> Found]]
             /\ past' = [past EXCEPT !.reused = @ \/ InputOf(Found) # Input]
        ELSE IF Resumable(Record)
          THEN /\ exec' = [exec EXCEPT !.pc = "payload", !.b = Record.b]
               /\ past' = [past EXCEPT !.orphan = @ \/ ParentOf(Record.b) # Parent]
               /\ UNCHANGED <<cl, meta>>
          ELSE IF Found # NoBlock
            THEN \E a \in {BackTo(ParentOf(Found))} :
                   cl' = a /\ exec' = [exec EXCEPT !.pc = "sendBack", !.args = a] /\ UNCHANGED <<meta, past>>
            ELSE exec' = [exec EXCEPT !.pc = "build"] /\ UNCHANGED <<cl, meta, past>>
  BY Zenon DEF Reconcile, Record, Found
<1>8. CASE Found # NoBlock /\ InputOf(Found).t = Input.t /\ (Matches(Record) \/ ~Resumable(Record))
  <2>1. Reuse
    BY <1>7, <1>8, Zenon DEF Reuse
  <2> QED BY <1>1, <1>2, <1>3, <1>5, <1>6, <2>1, Zenon
<1>9. CASE ~(Found # NoBlock /\ InputOf(Found).t = Input.t /\ (Matches(Record) \/ ~Resumable(Record)))
  <2>1. Resumable(Record) => InputOf(Record.b) = Input
    BY Zenon DEF Resumable
  <2>2. ~Resumable(Record) /\ Found # NoBlock => InputOf(Found) # Input
    BY <1>9, Zenon
  <2>3. Resume \/ GoBack \/ GoOn
    BY <1>7, <1>9, <2>1, <2>2, Zenon DEF Resume, GoBack, GoOn
  <2> QED BY <1>1, <1>2, <1>3, <1>5, <1>6, <2>3, Zenon
<1> QED BY <1>8, <1>9, Zenon

LEMMA HistoryStep ==
  ASSUME EngineTypes, [GNext]_gVars
  PROVE  Remembers(past')
<1>0. past \in Pasts
  BY Zenon DEF EngineTypes
<1>1. \/ past' = past
      \/ \E e \in BOOLEAN :
           \/ past' = [past EXCEPT !.reused = @ \/ e] \/ past' = [past EXCEPT !.orphan = @ \/ e]
           \/ past' = [past EXCEPT !.stale = @ \/ e] \/ past' = [past EXCEPT !.lost = @ \/ e]
           \/ past' = [past EXCEPT !.refused = @ \/ e] \/ past' = [past EXCEPT !.cached = @ \/ e]
  <2>1. CASE UNCHANGED past
    BY <2>1
  <2>2. CASE Reconcile
    <3>1. \A x, y : (x # y) \in BOOLEAN
      BY Zenon
    <3> QED BY <2>2, <3>1, Zenon DEF Reconcile
  <2>3. CASE SendHead \/ SendFinal \/ FinalSend
    BY <2>3, Zenon DEF SendHead, SendFinal, FinalSend, StaleBy
  <2>4. CASE ProcessPayload
    BY <2>4, Zenon DEF ProcessPayload, Supported
  <2>5. CASE RestartEL
    BY <2>5, Zenon DEF RestartEL
  <2>6. CASE Return
    <3>1. (hashes[next] \notin {NoBlock, exec.b}) \in BOOLEAN
      BY Zenon
    <3> QED BY <2>6, <3>1, Zenon DEF Return
  <2> QED BY <2>1, <2>2, <2>3, <2>4, <2>5, <2>6, Zenon
        DEF GNext, gVars, Decide, Build, SavePromoted, FinalLookup, FinalLabel, PruneExec, RestartNode, RollbackCmd
<1>2. Remembers(past)
  BY <1>0, Zenon DEF Remembers
<1> QED BY <1>0, <1>1, <1>2, PastStep, Zenon

LEMMA TypesStep ==
  ASSUME EngineTypes, [GNext]_gVars
  PROVE  EngineTypes'
<1> USE DEF EngineTypes
<1>0. /\ el \in ELs /\ cl \in Labels /\ hashes \in [0..MaxELChain -> ELBlocks] /\ meta \in [EHeights -> Metas]
      /\ cons \in ELBlocks /\ next \in Nat \ {0} /\ cand \in Cells
      /\ exec \in Execs /\ final \in Finals /\ incl \in Nat /\ past \in Pasts
      /\ exec.pc # "idle" => next <= MaxELChain
  BY Zenon
<1>a. past' \in Pasts
  BY HistoryStep, Zenon DEF Remembers
<1>1. CASE Decide
  <2>1. cand' \in Cells
    BY <1>1, Zenon DEF Decide, Cells
  <2> QED BY <1>a, <1>1, <2>1, <1>0, Zenon DEF Decide
<1>2. CASE Reconcile
  <2>1. /\ next <= MaxELChain /\ Record \in Metas /\ Record.b \in Mined
        /\ Found # NoBlock => Found \in Mined /\ SetHead(Found) \in Labels /\ BackTo(ParentOf(Found)) \in Labels
    BY <1>2, ReconcileCases, Zenon
  <2>2. Reuse \/ Resume \/ GoBack \/ GoOn
    BY <1>2, ReconcileCases, Zenon
  <2>3. UNCHANGED <<el, hashes, pruned, cons, next, cand, final, incl, vers, mishaps>>
    BY <1>2, Zenon DEF Reconcile
  <2>4. exec' \in Execs
    <3>1. "sendHead" \in ExecPCs /\ "payload" \in ExecPCs /\ "sendBack" \in ExecPCs /\ "build" \in ExecPCs
      BY Zenon DEF ExecPCs
    <3>2. Found # NoBlock => [pc |-> "sendHead", b |-> Found, args |-> SetHead(Found)] \in Execs
      BY <3>1, <2>1, Zenon DEF Execs
    <3> QED BY <2>1, <2>2, <3>1, <3>2, <1>0, ExecAt, ExecOn, ExecSends, Zenon DEF Reuse, Resume, GoBack, GoOn
  <2>6. cl' \in Labels
    BY <2>1, <2>2, <1>0, Zenon DEF Reuse, Resume, GoBack, GoOn
  <2>7. meta' \in [EHeights -> Metas]
    <3>1. Found # NoBlock => [stage |-> "promoted", b |-> Found] \in Metas
      BY <2>1, Zenon DEF Metas
    <3> QED BY <3>1, <2>2, <1>0, Zenon DEF Reuse, Resume, GoBack, GoOn
  <2> QED BY <1>a, <2>1, <2>3, <2>4, <2>6, <2>7, <1>0, Zenon
<1>3. CASE SendHead
  <2>1. exec' \in Execs
    <3>1. "done" \in ExecPCs /\ "build" \in ExecPCs
      BY Zenon DEF ExecPCs
    <3> DEFINE p == IF exec.pc = "sendHead" THEN "done" ELSE "build"
    <3>2. p \in ExecPCs
      BY <3>1, Zenon
    <3>3. exec' = [IdleExec EXCEPT !.pc = p, !.b = exec.b]
      BY <1>3, Zenon DEF SendHead
    <3> HIDE DEF p
    <3> QED BY <3>2, <3>3, Fields, ExecSent, Zenon
  <2>3. el' \in ELs
    BY <1>3, <1>0, Fields, ElStep, Zenon DEF SendHead, Send
  <2> QED BY <1>a, <1>3, <2>1, <2>3, <1>0, Zenon DEF SendHead
<1>4. CASE Build
  <2>1. next - 1 \in Nat /\ next <= MaxELChain
    BY <1>4, <1>0 DEF Build
  <2> DEFINE prev == getBlockInfo(next - 1)
  <2>2. prev \in ELBlocks /\ Append(prev, Input) \in Mined /\ Append(prev, Input) \in ELBlocks
    <3>1. prev \in ELBlocks /\ Input \in Cells
      BY <2>1, <1>0, BlockAt, InputType, Zenon
    <3> HIDE DEF prev
    <3> QED BY <3>1, Appends, Zenon DEF ELBlocks, Mined
  <2>3. StartedMeta(Append(prev, Input)) \in Metas
    BY <2>2, Zenon DEF StartedMeta, Metas
  <2> HIDE DEF prev
  <2>4. \/ /\ hashes' = [hashes EXCEPT ![next - 1] = prev]
           /\ el' = [el EXCEPT !.head = prev, !.payloads = @ \cup {Append(prev, Input)}]
           /\ exec' = [exec EXCEPT !.pc = "payload", !.b = Append(prev, Input)]
           /\ meta' = [meta EXCEPT ![next] = StartedMeta(Append(prev, Input))]
        \/ exec' = IdleExec /\ UNCHANGED <<el, hashes, meta>>
    BY <1>4, Zenon DEF Build, prev, Failed
  <2>5. exec' \in Execs
    <3>1. "payload" \in ExecPCs
      BY Zenon DEF ExecPCs
    <3> QED BY <3>1, <2>4, <2>2, <1>0, ExecOn, Constants, Zenon
  <2>6. el' \in ELs
    <3>1. el.payloads \cup {Append(prev, Input)} \in SUBSET ELBlocks
      BY <2>2, Fields, Zenon
    <3> QED BY <3>1, <2>4, <2>2, <1>0 DEF ELs
  <2>7. hashes' \in [0..MaxELChain -> ELBlocks] /\ meta' \in [EHeights -> Metas]
    BY <2>4, <2>2, <2>3, <1>0, Zenon
  <2> QED BY <1>a, <1>4, <2>1, <2>5, <2>6, <2>7, <1>0, Zenon DEF Build
<1>5. CASE ProcessPayload
  <2>1. next <= MaxELChain
    BY <1>5, <1>0, Zenon DEF ProcessPayload
  <2>2. LabelsAt(next) \in Labels
    BY <2>1, LabelsAtType, Zenon
  <2>3. \/ /\ el' = [el EXCEPT !.known = @ \cup {exec.b}] /\ hashes' = [hashes EXCEPT ![next] = exec.b]
           /\ cl' = LabelsAt(next) /\ exec' = [exec EXCEPT !.pc = "sendFinal", !.args = LabelsAt(next)]
        \/ exec' = IdleExec /\ UNCHANGED <<el, cl, hashes>>
    BY <1>5, Zenon DEF ProcessPayload, Failed
  <2>4. exec' \in Execs
    <3>1. "sendFinal" \in ExecPCs
      BY Zenon DEF ExecPCs
    <3> QED BY <3>1, <2>3, <2>2, <1>0, ExecSends, Constants, Zenon
  <2>5. el' \in ELs
    <3>1. el.known \cup {exec.b} \in SUBSET ELBlocks
      BY Fields, Zenon
    <3> QED BY <3>1, <2>3, <1>0 DEF ELs
  <2>7. cl' \in Labels /\ hashes' \in [0..MaxELChain -> ELBlocks]
    BY <2>3, <2>2, <1>0, Fields, Zenon
  <2> QED BY <1>a, <1>5, <2>1, <2>4, <2>5, <2>7, <1>0, Zenon DEF ProcessPayload
<1>6. CASE SendFinal
  <2>1. exec' \in Execs
    <3>1. "promoted" \in ExecPCs
      BY Zenon DEF ExecPCs
    <3>2. exec' = IdleExec \/ exec' = [IdleExec EXCEPT !.pc = "promoted", !.b = exec.b]
      BY <1>6, Zenon DEF SendFinal, Failed
    <3> QED BY <3>1, <3>2, Fields, Constants, ExecSent, Zenon
  <2>3. el' \in ELs
    BY <1>6, <1>0, Fields, ElStep, Zenon DEF SendFinal, Send
  <2> QED BY <1>a, <1>6, <2>1, <2>3, <1>0, Zenon DEF SendFinal
<1>7. CASE SavePromoted
  <2>1. exec' \in Execs
    <3>1. "done" \in ExecPCs
      BY Zenon DEF ExecPCs
    <3> QED BY <1>7, <3>1, <1>0, ExecAt, Zenon DEF SavePromoted
  <2>2. el' \in ELs
    <3>1. el.payloads \ {exec.b} \in SUBSET ELBlocks
      BY Fields, Zenon
    <3> QED BY <1>7, <3>1, <1>0, Fields, ElStep, Zenon DEF SavePromoted
  <2>3. meta' \in [EHeights -> Metas]
    <3>1. [stage |-> "promoted", b |-> exec.b] \in Metas
      BY Fields, Zenon DEF Metas
    <3> QED BY <1>7, <3>1, <1>0, Zenon DEF SavePromoted
  <2> QED BY <1>a, <1>7, <2>1, <2>2, <2>3, <1>0, Zenon DEF SavePromoted
<1>8. CASE Return
  <2>1. next' \in Nat \ {0}
    BY <1>8, <1>0 DEF Return
  <2>2. cons' \in ELBlocks /\ cand' \in Cells
    BY <1>8, <1>0, Fields, Zenon DEF Return, Cells
  <2>3. hashes' \in [0..MaxELChain -> ELBlocks]
    BY <1>8, <1>0, Constants, Zenon DEF Return
  <2>4. exec' \in Execs /\ exec'.pc = "idle"
    BY <1>8, Constants, Zenon DEF Return, IdleExec
  <2> QED BY <1>a, <1>8, <2>1, <2>2, <2>3, <2>4, <1>0, Zenon DEF Return
<1>9. CASE FinalLookup
  <2>1. getBlockInfo(incl + 1) \in ELBlocks
    BY <1>0, BlockAt
  <2>2. final' \in Finals
    BY <1>9, <2>1, <1>0 DEF FinalLookup, Finals
  <2> QED BY <1>a, <1>9, <2>2, <1>0, Zenon DEF FinalLookup
<1>10. CASE FinalLabel
  <2>1. [head |-> cl.head, safe |-> final.b, fin |-> final.b] \in Labels
    BY Fields, Zenon DEF Labels
  <2>2. cl' \in Labels /\ final' = [IdleFinal EXCEPT !.pc = "send", !.args = cl']
    BY <1>10, <2>1, Zenon DEF FinalLabel
  <2>3. final' \in Finals
    BY <2>2, Constants DEF Finals
  <2> QED BY <1>a, <1>10, <2>2, <2>3, <1>0, Zenon DEF FinalLabel
<1>11. CASE FinalSend
  <2>1. incl' \in Nat
    BY <1>11, <1>0 DEF FinalSend
  <2>3. el' \in ELs
    BY <1>11, <1>0, Fields, ElStep, Zenon DEF FinalSend, Send
  <2>4. final' \in Finals
    BY <1>11, Constants, Zenon DEF FinalSend
  <2> QED BY <1>a, <1>11, <2>1, <2>3, <2>4, <1>0, Zenon DEF FinalSend
<1>12. CASE PruneExec
  <2>1. meta' \in [EHeights -> Metas]
    BY <1>12, <1>0, Constants, Zenon DEF PruneExec
  <2> QED BY <1>a, <1>12, <2>1, <1>0, Zenon DEF PruneExec
<1>13. CASE RestartNode
  <2>1. next' \in Nat \ {0}
    BY <1>13, Fields DEF RestartNode
  <2> QED BY <1>a, <1>13, <2>1, <1>0, FreshTypes, Zenon DEF RestartNode
<1>14. CASE RestartEL
  <2>1. PICK n \in {Len(el.head), Len(el.head) - 1} :
          /\ n >= 0
          /\ el' = [head |-> SubSeq(el.head, 1, n), known |-> {SubSeq(el.head, 1, k) : k \in 0..n}, payloads |-> {}]
    BY <1>14, Zenon DEF RestartEL
  <2>2. n \in Nat /\ n <= Len(el.head)
    BY <2>1, Fields
  <2>3. \A k \in 0..n : SubSeq(el.head, 1, k) \in ELBlocks
    BY <2>2, Fields, Prefixes DEF ELBlocks
  <2>4. SubSeq(el.head, 1, n) \in ELBlocks
    BY <2>2, <2>3
  <2>5. el' \in ELs
    BY <2>1, <2>3, <2>4, Zenon DEF ELs
  <2> QED BY <1>a, <1>14, <2>5, <1>0, Zenon DEF RestartEL
<1>15. CASE RollbackCmd
  <2>1. Len(cons) \in Nat \ {0} /\ cons # <<>> /\ Len(cons) - 1 \in Nat /\ Len(cons) - 1 <= Len(el.head)
    BY <1>15, <1>0, Fields DEF RollbackCmd, Rollbackable, ELBlocks
  <2>2. cons' \in ELBlocks
    BY <1>15, <2>1, <1>0, ParentOfs, Zenon DEF RollbackCmd, ELBlocks
  <2>3. SubSeq(el.head, 1, Len(cons) - 1) \in ELBlocks
    BY <2>1, Fields, Prefixes, Zenon DEF ELBlocks
  <2>4. el' \in ELs
    BY <1>15, <2>3, <1>0, Fields, ElStep, Zenon DEF RollbackCmd
  <2>5. next' \in Nat \ {0} /\ cand' \in Cells
    BY <1>15, <2>1, Zenon DEF RollbackCmd, Cells
  <2> QED BY <1>a, <1>15, <2>2, <2>4, <2>5, <1>0, FreshTypes, Zenon DEF RollbackCmd
<1>16. CASE UNCHANGED gVars
  BY <1>a, <1>16, <1>0, Zenon DEF gVars
<1> QED BY <1>1, <1>2, <1>3, <1>4, <1>5, <1>6, <1>7, <1>8, <1>9, <1>10, <1>11, <1>12, <1>13, <1>14, <1>15, <1>16, Zenon DEF GNext

LEMMA OwnStep ==
  ASSUME EngineTypes, [GNext]_gVars
  PROVE  (Own' => Own) /\ (Undisturbed' => Undisturbed)
<1>1. past' \in Pasts /\ (past.reused => past'.reused) /\ (past.orphan => past'.orphan)
      /\ (past.stale => past'.stale) /\ (past.cached => past'.cached)
  BY HistoryStep, Zenon DEF Remembers
<1> QED BY <1>1, Zenon DEF Own, Undisturbed

-----------------------------------------------------------------------------
(* Unless it is noted as another one, a block reused is the one asked for. *)
LEMMA ReuseExact ==
  ASSUME EngineTypes, Heads, Reconcile, Reuse, Own'
  PROVE  /\ Found = Append(Parent, Input) /\ Near(Found, cons, next) /\ Len(Found) = next
         /\ next <= Len(el.head) /\ el.head[next] = Input
<1>1. /\ el.head \in Seq(Cells) /\ cons \in Seq(Cells) /\ next \in Nat \ {0} /\ next \in Nat /\ Input \in Cells
      /\ past \in Pasts
  BY Fields, InputType, Zenon DEF EngineTypes, ELBlocks
<1>2. InputOf(Found) = Input
  <2>1. (InputOf(Found) # Input) \in BOOLEAN /\ past' = [past EXCEPT !.reused = @ \/ InputOf(Found) # Input]
    BY Zenon DEF Reuse
  <2>2. past'.reused = (past.reused \/ InputOf(Found) # Input)
    BY <2>1, <1>1, PastStep, Zenon
  <2> QED BY <2>2, Zenon DEF Own
<1>3. next <= Len(cons) + 1 /\ next <= Len(el.head) /\ Follows(el.head, cons) /\ Found = SubSeq(el.head, 1, next)
  BY ReconcileCases, Zenon DEF Heads, Reuse
<1>4. Len(Found) = next /\ Found[next] = el.head[next]
  BY <1>1, <1>3, Prefixes
<1>5. InputOf(Found) = el.head[next]
  BY <1>4, Zenon DEF InputOf
<1>6. SubSeq(el.head, 1, next) = Append(SubSeq(cons, 1, next - 1), el.head[next])
  BY <1>1, <1>3, ReusedBlock, Zenon
<1>7. Found = Append(Parent, Input)
  BY <1>2, <1>3, <1>5, <1>6, Zenon DEF Parent
<1>8. Near(Found, cons, next)
  BY <1>1, <1>3, <1>7, FollowsNext, Zenon DEF Parent
<1> QED BY <1>2, <1>3, <1>4, <1>5, <1>7, <1>8, Zenon

LEMMA ReconcileFaithful ==
  ASSUME EngineTypes, Heads, Reconcile, Own'
  PROVE  Heads' /\ Working' /\ Through'
<1>1. UNCHANGED <<el, cons, next, cand, final>> /\ exec.pc = "idle"
  BY Zenon DEF Reconcile
<1>2. Input' = Input /\ Parent' = Parent
  BY <1>1, Zenon DEF Input, Parent
<1>3. /\ Record.b \in Mined
      /\ Found # NoBlock => /\ Found \in Mined /\ Found = SubSeq(el.head, 1, next) /\ next <= Len(el.head)
                        /\ SetHead(Found).head = Found /\ BackTo(ParentOf(Found)).head = ParentOf(Found)
                        /\ SetHead(Found) \in Labels /\ BackTo(ParentOf(Found)) \in Labels
  BY ReconcileCases, Zenon
<1>4. Reuse \/ Resume \/ GoBack \/ GoOn
  BY ReconcileCases, Zenon
<1>5. /\ el.head \in Seq(Cells) /\ cons \in Seq(Cells) /\ next \in Nat \ {0} /\ Input \in Cells
      /\ exec \in Execs /\ past \in Pasts
  BY Fields, InputType, Zenon DEF EngineTypes, ELBlocks
<1>6. "payload" \in ExecPCs /\ "sendBack" \in ExecPCs /\ "build" \in ExecPCs
  BY Zenon DEF ExecPCs
<1>7. CASE Reuse
  <2>1. Found = Append(Parent, Input) /\ Near(Found, cons, next) /\ el.head[next] = Input
    BY <1>7, ReuseExact, Zenon
  <2>2. cl'.head = Found /\ exec'.args.head = Found /\ exec'.b = Found
    BY <1>3, <1>7, Zenon DEF Reuse
  <2>3. Heads'
    BY <1>1, <2>1, <2>2, Zenon DEF Heads
  <2>4. Working' /\ Through'
    BY <1>1, <1>2, <2>1, <2>2, Zenon DEF Working, Through
  <2> QED BY <2>3, <2>4, Zenon
<1>8. CASE Resume
  <2>1. exec'.pc = "payload" /\ exec'.b = Record.b /\ exec'.args = exec.args
    BY <1>3, <1>5, <1>6, <1>8, ExecOn, Zenon DEF Resume
  <2>2. ParentOf(Record.b) = Parent
    <3>1. (ParentOf(Record.b) # Parent) \in BOOLEAN
      BY Zenon
    <3>2. past'.orphan = (past.orphan \/ ParentOf(Record.b) # Parent)
      BY <1>5, <1>8, <3>1, PastStep, Zenon DEF Resume
    <3> QED BY <3>2, Zenon DEF Own
  <2>3. Record.b = Append(Parent, Input)
    BY <1>3, <1>8, <2>2, ParentOfs, Zenon DEF Mined, ELBlocks, Resume
  <2>4. Heads'
    BY <1>1, <1>8, <2>1, Zenon DEF Heads, Resume
  <2>5. Working' /\ Through'
    BY <1>2, <2>1, <2>3, Zenon DEF Working, Through
  <2> QED BY <2>4, <2>5, Zenon
<1>9. CASE GoBack
  <2>1. exec'.pc = "sendBack" /\ exec'.args.head = ParentOf(Found) /\ cl'.head = ParentOf(Found)
    BY <1>3, <1>5, <1>6, <1>9, ExecSends, Zenon DEF GoBack
  <2>2. Follows(Found, cons) /\ Len(Found) = next /\ Found \in Seq(Cells)
    <3>1. next \in Nat /\ Found = SubSeq(el.head, 1, next) /\ next <= Len(el.head) /\ Follows(el.head, cons)
      BY <1>3, <1>5, <1>9, Zenon DEF Heads, GoBack
    <3> QED BY <3>1, <1>5, Prefixes, FollowsPrefix, Zenon
  <2>3. Near(ParentOf(Found), cons, next)
    <3>1. next - 1 \in Nat /\ next - 1 <= Len(Found) /\ next - 1 <= next
      BY <1>5, <2>2
    <3>2. ParentOf(Found) = SubSeq(Found, 1, next - 1)
      BY <2>2, Zenon DEF ParentOf
    <3>3. Follows(SubSeq(Found, 1, next - 1), cons) /\ Len(SubSeq(Found, 1, next - 1)) = next - 1
      BY <3>1, <2>2, <1>5, Prefixes, FollowsPrefix, Zenon
    <3> QED BY <3>1, <3>2, <3>3, Zenon DEF Near
  <2>4. Heads'
    BY <1>1, <2>1, <2>3, Zenon DEF Heads
  <2>5. Working' /\ Through'
    BY <2>1, Zenon DEF Working, Through
  <2> QED BY <2>4, <2>5, Zenon
<1>10. CASE GoOn
  <2>1. exec'.pc = "build" /\ exec'.args = exec.args
    BY <1>5, <1>6, <1>10, ExecAt, Zenon DEF GoOn
  <2>2. Heads'
    BY <1>1, <1>10, <2>1, Zenon DEF Heads, GoOn
  <2>3. Working' /\ Through'
    BY <2>1, Zenon DEF Working, Through
  <2> QED BY <2>2, <2>3, Zenon
<1> QED BY <1>4, <1>7, <1>8, <1>9, <1>10, Zenon

LEMMA ReturnFaithful ==
  ASSUME EngineTypes, Heads, Working, Through, Return
  PROVE  Heads' /\ Working' /\ Through'
<1>1. /\ exec.pc = "done" /\ exec' = IdleExec /\ next' = next + 1 /\ UNCHANGED <<el, cl, final>>
      /\ IF next <= Len(cons) THEN UNCHANGED cons ELSE cons' = exec.b
  BY Zenon DEF Return
<1>2. exec'.pc = "idle" /\ exec'.args.head = Genesis
  BY <1>1, Zenon DEF IdleExec
<1>3. /\ next <= Len(cons) + 1 /\ Follows(el.head, cons) /\ Near(cl.head, cons, next) /\ Near(final.args.head, cons, next)
      /\ Len(el.head) > next => el.head[next] = Input
      /\ exec.b = Append(Parent, Input)
  BY <1>1, Zenon DEF Heads, Working, Through
<1>4. /\ el.head \in Seq(Cells) /\ cl.head \in Seq(Cells) /\ final.args.head \in Seq(Cells) /\ cons \in Seq(Cells)
      /\ next \in Nat \ {0} /\ Input \in Cells /\ Len(cons) \in Nat
  BY Fields, InputType, Zenon DEF EngineTypes, ELBlocks
<1>5. cons' \in Seq(Cells) /\ next' \in Nat /\ next' <= Len(cons') + 1 /\ Follows(el.head, cons') /\ Follows(cl.head, cons')
      /\ Follows(final.args.head, cons')
  <2>1. CASE next <= Len(cons)
    <3>1. cons' = cons
      BY <1>1, <2>1, Zenon
    <3>2. next' \in Nat /\ next' <= Len(cons) + 1
      BY <1>1, <1>4, <2>1
    <3> QED BY <3>1, <3>2, <1>3, <1>4, Zenon DEF Near
  <2>2. CASE ~ next <= Len(cons)
    <3>1. next = Len(cons) + 1 /\ next - 1 = Len(cons)
      BY <1>3, <1>4, <2>2
    <3>2. Parent = cons
      BY <3>1, <1>4, WholePrefix, Zenon DEF Parent
    <3>3. cons' = Append(cons, Input)
      BY <1>1, <1>3, <2>2, <3>2, Zenon
    <3>4. cons' \in Seq(Cells) /\ Len(cons') = Len(cons) + 1
      BY <3>3, <1>4, Appends, Zenon
    <3>5. next' \in Nat /\ next' <= Len(cons') + 1
      BY <3>1, <3>4, <1>1, <1>4
    <3>6. Follows(el.head, cons')
      BY <3>1, <3>3, <1>3, <1>4, FollowsLonger, Zenon
    <3>7. ~ Len(cl.head) > Len(cons) + 1 /\ ~ Len(final.args.head) > Len(cons) + 1
      BY <3>1, <1>3, <1>4 DEF Near
    <3>8. Follows(cl.head, cons') /\ Follows(final.args.head, cons')
      BY <3>3, <3>7, <1>3, <1>4, FollowsLonger, Zenon DEF Near
    <3> QED BY <3>4, <3>5, <3>6, <3>8, Zenon
  <2> QED BY <2>1, <2>2, Zenon
<1>6. Len(cl.head) <= next' /\ Len(final.args.head) <= next'
  BY <1>1, <1>3, <1>4 DEF Near
<1>7. Near(Genesis, cons', next')
  BY <1>5, FollowsGenesis, Zenon
<1>8. Heads'
  BY <1>1, <1>2, <1>5, <1>6, <1>7, Zenon DEF Heads, Near
<1>9. Working' /\ Through'
  BY <1>2, Zenon DEF Working, Through
<1> QED BY <1>8, <1>9, Zenon

LEMMA RollbackFaithful ==
  ASSUME EngineTypes, Heads, RollbackCmd
  PROVE  Heads' /\ Working' /\ Through'
<1>1. /\ exec'.pc = "idle" /\ cl'.head = Genesis /\ exec'.args.head = Genesis /\ final'.args.head = Genesis
      /\ cons' = ParentOf(cons) /\ next' = Len(cons)
  BY FreshTypes, Zenon DEF RollbackCmd
<1>2. /\ el \in ELs /\ el.head \in ELBlocks /\ el.head \in Seq(Cells) /\ cons \in Seq(Cells)
  BY Fields, Zenon DEF EngineTypes, ELBlocks
<1>3. cons # <<>> /\ Len(cons) \in Nat /\ Len(cons) - 1 \in Nat /\ Len(cons) - 1 <= Len(el.head)
  BY Fields DEF RollbackCmd, Rollbackable, EngineTypes
<1>4. cons' \in Seq(Cells) /\ Len(cons') = Len(cons) - 1
  BY <1>1, <1>2, <1>3, ParentOfs, Zenon
<1>5. next' \in Nat /\ next' <= Len(cons') + 1
  BY <1>1, <1>3, <1>4
<1>6. \/ el'.head = el.head
      \/ el'.head = SubSeq(el.head, 1, Len(cons) - 1)
  <2>1. SubSeq(el.head, 1, Len(cons) - 1) \in ELBlocks
    BY <1>2, <1>3, Prefixes, Zenon DEF ELBlocks
  <2>2. \/ el' = [el EXCEPT !.head = el.head]
        \/ el' = [el EXCEPT !.head = SubSeq(el.head, 1, Len(cons) - 1)]
    BY Zenon DEF RollbackCmd
  <2> QED BY <2>1, <2>2, <1>2, ElStep, Zenon
<1>7. Follows(el'.head, cons) /\ el'.head \in Seq(Cells)
  <2>1. Follows(el.head, cons)
    BY Zenon DEF Heads
  <2>2. Follows(SubSeq(el.head, 1, Len(cons) - 1), cons) /\ SubSeq(el.head, 1, Len(cons) - 1) \in Seq(Cells)
    BY <2>1, <1>2, <1>3, FollowsPrefix, Prefixes, Zenon
  <2> QED BY <2>1, <2>2, <1>2, <1>6, Zenon
<1>8. Follows(el'.head, cons')
  BY <1>1, <1>2, <1>3, <1>7, FollowsShorter, Zenon
<1>9. Near(Genesis, cons', next')
  BY <1>4, <1>5, FollowsGenesis, Zenon
<1> QED BY <1>1, <1>5, <1>8, <1>9, Zenon DEF Heads, Working, Through

LEMMA FaithfulStep ==
  ASSUME EngineTypes, Heads, Working, Through, [GNext]_gVars, Own'
  PROVE  Heads' /\ Working' /\ Through'
<1>0. /\ el \in ELs /\ exec \in Execs /\ cons \in Seq(Cells) /\ next \in Nat \ {0} /\ next \in Nat
      /\ el.head \in Seq(Cells) /\ el.head \in ELBlocks /\ exec.args.head \in ELBlocks /\ final.args.head \in ELBlocks
      /\ exec.b \in Mined /\ Input \in Cells
  BY Fields, InputType, Zenon DEF EngineTypes, ELBlocks
<1>a. Near(Genesis, cons, next)
  BY <1>0, FollowsGenesis, Zenon
<1>b. IdleExec.pc = "idle" /\ IdleExec.args.head = Genesis /\ IdleFinal.args.head = Genesis
  BY Zenon DEF IdleExec, IdleFinal
<1>c. UNCHANGED <<cons, next, cand>> => Input' = Input /\ Parent' = Parent
  BY Zenon DEF Input, Parent
<1>1. CASE Decide
  <2>1. exec'.pc = "idle" /\ UNCHANGED <<el, cl, cons, next, exec, final>>
    BY <1>1, Zenon DEF Decide
  <2> QED BY <2>1, Zenon DEF Heads, Working, Through
<1>2. CASE Reconcile
  BY <1>2, ReconcileFaithful, Zenon
<1>3. CASE SendHead
  <2>1. UNCHANGED <<cl, cons, next, cand, final>> /\ exec.pc \in {"sendHead", "sendBack"}
    BY <1>3, Zenon DEF SendHead
  <2>2. el'.head = exec.args.head \/ el' = el
    BY <1>3, <1>0, ElStep, Zenon DEF SendHead, Send
  <2>3. exec'.pc = (IF exec.pc = "sendHead" THEN "done" ELSE "build") /\ exec'.b = exec.b /\ exec'.args.head = Genesis
    <3> DEFINE p == IF exec.pc = "sendHead" THEN "done" ELSE "build"
    <3>1. p \in ExecPCs /\ exec' = [IdleExec EXCEPT !.pc = p, !.b = exec.b]
      BY <1>3, Zenon DEF SendHead, ExecPCs
    <3> HIDE DEF p
    <3>2. exec'.pc = p /\ exec'.b = exec.b /\ exec'.args.head = Genesis
      BY <3>1, <1>0, ExecSent, Zenon
    <3> QED BY <3>2 DEF p
  <2>4. Heads'
    BY <2>1, <2>2, <2>3, <1>a, Zenon DEF Heads, Near
  <2>5. Working'
    BY <2>1, <2>3, <1>c, Zenon DEF Working
  <2>6. el'.head = exec.args.head => ~ Len(el'.head) > next
    BY <1>0 DEF Heads, Near, ELBlocks
  <2>7. Through'
    BY <2>1, <2>2, <2>3, <2>6, <1>c, Zenon DEF Through
  <2> QED BY <2>4, <2>5, <2>7, Zenon
<1>4. CASE Build
  <2>1. UNCHANGED <<cl, cons, next, cand, final>>
    BY <1>4, Zenon DEF Build
  <2>2. \/ /\ el' = [el EXCEPT !.head = Parent, !.payloads = @ \cup {Append(Parent, Input)}]
           /\ exec' = [exec EXCEPT !.pc = "payload", !.b = Append(Parent, Input)]
        \/ exec' = IdleExec /\ UNCHANGED el
    BY <1>4, Zenon DEF Build, Failed
  <2>3. CASE exec' = IdleExec /\ UNCHANGED el
    BY <2>1, <2>3, <1>a, <1>b, Zenon DEF Heads, Working, Through
  <2>4. CASE /\ el' = [el EXCEPT !.head = Parent, !.payloads = @ \cup {Append(Parent, Input)}]
             /\ exec' = [exec EXCEPT !.pc = "payload", !.b = Append(Parent, Input)]
    <3>1. next - 1 \in Nat /\ next - 1 <= Len(cons)
      BY <1>0 DEF Heads
    <3>2. Parent \in Seq(Cells) /\ Follows(Parent, cons)
      BY <3>1, <1>0, Prefixes, FollowsOwn, Zenon DEF Parent
    <3>3. Append(Parent, Input) \in Mined
      BY <3>2, <1>0, Appends, Zenon DEF Mined, ELBlocks
    <3>4. exec'.pc = "payload" /\ exec'.b = Append(Parent, Input) /\ exec'.args = exec.args
      BY <2>4, <3>3, <1>0, ExecOn, Zenon DEF ExecPCs
    <3>5. el'.head = Parent
      BY <2>4, <1>0, Zenon DEF ELs
    <3> QED BY <2>1, <3>2, <3>4, <3>5, <1>c, Zenon DEF Heads, Working, Through
  <2> QED BY <2>2, <2>3, <2>4, Zenon
<1>5. CASE ProcessPayload
  <2>1. UNCHANGED <<cons, next, cand, final>> /\ exec.pc = "payload"
    BY <1>5, Zenon DEF ProcessPayload
  <2>2. \/ /\ el' = [el EXCEPT !.known = @ \cup {exec.b}]
           /\ cl' = LabelsAt(next) /\ exec' = [exec EXCEPT !.pc = "sendFinal", !.args = LabelsAt(next)]
        \/ exec' = IdleExec /\ UNCHANGED <<el, cl>>
    BY <1>5, Zenon DEF ProcessPayload, Failed
  <2>3. CASE exec' = IdleExec /\ UNCHANGED <<el, cl>>
    BY <2>1, <2>3, <1>a, <1>b, Zenon DEF Heads, Working, Through
  <2>4. CASE /\ el' = [el EXCEPT !.known = @ \cup {exec.b}]
             /\ cl' = LabelsAt(next) /\ exec' = [exec EXCEPT !.pc = "sendFinal", !.args = LabelsAt(next)]
    <3>1. LabelsAt(next) \in Labels /\ LabelsAt(next).head = exec.b
      BY <2>1, LabelsAtType, Zenon DEF EngineTypes
    <3>2. exec'.pc = "sendFinal" /\ exec'.b = exec.b /\ exec'.args = LabelsAt(next)
      BY <2>4, <3>1, <1>0, ExecSends, Zenon DEF ExecPCs
    <3>3. exec.b = Append(Parent, Input)
      BY <2>1, Zenon DEF Working
    <3>4. Near(exec.b, cons, next)
      BY <3>3, <1>0, FollowsNext, Zenon DEF Parent, Heads
    <3>5. el'.head = el.head
      BY <2>4, <1>0, Zenon DEF ELs
    <3> QED BY <2>1, <2>4, <3>1, <3>2, <3>3, <3>4, <3>5, <1>c, Zenon DEF Heads, Working, Through
  <2> QED BY <2>2, <2>3, <2>4, Zenon
<1>6. CASE SendFinal
  <2>1. UNCHANGED <<cl, cons, next, cand, final>> /\ exec.pc = "sendFinal"
    BY <1>6, Zenon DEF SendFinal
  <2>2. \/ /\ el' = [el EXCEPT !.head = exec.args.head]
           /\ exec' = [IdleExec EXCEPT !.pc = "promoted", !.b = exec.b]
        \/ exec' = IdleExec /\ UNCHANGED el
    BY <1>6, Zenon DEF SendFinal, Send, Failed
  <2>3. CASE exec' = IdleExec /\ UNCHANGED el
    BY <2>1, <2>3, <1>a, <1>b, Zenon DEF Heads, Working, Through
  <2>4. CASE /\ el' = [el EXCEPT !.head = exec.args.head]
             /\ exec' = [IdleExec EXCEPT !.pc = "promoted", !.b = exec.b]
    <3>1. exec'.pc = "promoted" /\ exec'.b = exec.b /\ exec'.args.head = Genesis
      BY <2>4, <1>0, ExecSent, Zenon DEF ExecPCs
    <3>2. el'.head = exec.args.head
      BY <2>4, <1>0, ElStep, Zenon
    <3>3. ~ Len(el'.head) > next
      BY <3>2, <1>0 DEF Heads, Near, ELBlocks
    <3> QED BY <2>1, <3>1, <3>2, <3>3, <1>a, <1>c, Zenon DEF Heads, Near, Working, Through
  <2> QED BY <2>2, <2>3, <2>4, Zenon
<1>7. CASE SavePromoted
  <2>1. UNCHANGED <<cl, cons, next, cand, final>> /\ exec.pc = "promoted"
    BY <1>7, Zenon DEF SavePromoted
  <2>2. exec'.pc = "done" /\ exec'.b = exec.b /\ exec'.args = exec.args
    BY <1>7, <1>0, ExecAt, Zenon DEF ExecPCs, SavePromoted
  <2>3. el'.head = el.head
    BY <1>7, <1>0, Zenon DEF ELs, SavePromoted
  <2> QED BY <2>1, <2>2, <2>3, <1>c, Zenon DEF Heads, Working, Through
<1>8. CASE Return
  BY <1>8, ReturnFaithful, Zenon
<1>9. CASE FinalLookup
  <2>1. UNCHANGED <<el, cl, cons, next, cand, exec>>
    BY <1>9, Zenon DEF FinalLookup
  <2>2. final'.args = final.args
    BY <1>9 DEF FinalLookup, EngineTypes, Finals
  <2> QED BY <2>1, <2>2, <1>c, Zenon DEF Heads, Working, Through
<1>10. CASE FinalLabel
  <2>1. UNCHANGED <<el, cons, next, cand, exec>>
    BY <1>10, Zenon DEF FinalLabel
  <2>2. cl'.head = cl.head /\ final' = [IdleFinal EXCEPT !.pc = "send", !.args = cl']
    <3>1. /\ cl' = [head |-> cl.head, safe |-> final.b, fin |-> final.b]
          /\ final' = [IdleFinal EXCEPT !.pc = "send", !.args = cl']
      BY <1>10, Zenon DEF FinalLabel
    <3> QED BY <3>1, Zenon
  <2>3. final'.args.head = cl.head
    BY <2>2, Zenon DEF IdleFinal
  <2> QED BY <2>1, <2>2, <2>3, <1>c, Zenon DEF Heads, Working, Through
<1>11. CASE FinalSend
  <2>1. UNCHANGED <<cl, cons, next, cand, exec>> /\ final'.args.head = Genesis
    BY <1>11, <1>b, Zenon DEF FinalSend
  <2>2. el'.head = final.args.head \/ el' = el
    BY <1>11, <1>0, ElStep, Zenon DEF FinalSend, Send
  <2>3. el'.head = final.args.head => ~ Len(el'.head) > next
    BY <1>0 DEF Heads, Near, ELBlocks
  <2> QED BY <2>1, <2>2, <2>3, <1>a, <1>c, Zenon DEF Heads, Near, Working, Through
<1>12. CASE PruneExec
  <2>1. UNCHANGED <<el, cl, cons, next, cand, exec, final>>
    BY <1>12, Zenon DEF PruneExec
  <2> QED BY <2>1, <1>c, Zenon DEF Heads, Working, Through
<1>13. CASE RestartNode
  <2>1. /\ exec'.pc = "idle" /\ cl'.head = Genesis /\ exec'.args.head = Genesis /\ final'.args.head = Genesis
        /\ UNCHANGED <<el, cons>>
    BY <1>13, FreshTypes, Zenon DEF RestartNode
  <2>2. next' \in Nat /\ next' <= Len(cons) + 1
    BY <1>13, Fields DEF RestartNode
  <2>3. Near(Genesis, cons, next')
    BY <2>2, <1>0, FollowsGenesis, Zenon
  <2> QED BY <2>1, <2>2, <2>3, Zenon DEF Heads, Working, Through
<1>14. CASE RestartEL
  <2>1. UNCHANGED <<cl, cons, next, cand, exec, final>>
    BY <1>14, Zenon DEF RestartEL
  <2>2. PICK n \in {Len(el.head), Len(el.head) - 1} : n >= 0 /\ el'.head = SubSeq(el.head, 1, n)
    <3>1. PICK n \in {Len(el.head), Len(el.head) - 1} :
            n >= 0 /\ el' = [head |-> SubSeq(el.head, 1, n), known |-> {SubSeq(el.head, 1, k) : k \in 0..n}, payloads |-> {}]
      BY <1>14, Zenon DEF RestartEL
    <3>2. el'.head = SubSeq(el.head, 1, n)
      BY <3>1, Zenon
    <3> QED BY <3>1, <3>2, Zenon
  <2>3. n \in Nat /\ n <= Len(el.head)
    BY <2>2, <1>0
  <2>4. Follows(el'.head, cons)
    BY <2>2, <2>3, <1>0, FollowsPrefix, Zenon DEF Heads
  <2>5. Len(el'.head) = n /\ \A i \in 1..n : el'.head[i] = el.head[i]
    <3>1. Len(SubSeq(el.head, 1, n)) = n /\ \A i \in 1..n : SubSeq(el.head, 1, n)[i] = el.head[i]
      BY <2>3, <1>0, Prefixes, Zenon
    <3> QED BY <3>1, <2>2, Zenon
  <2>6. Len(el'.head) > next => Len(el.head) > next /\ el'.head[next] = el.head[next]
    BY <2>3, <2>5, <1>0
  <2> QED BY <2>1, <2>4, <2>6, <1>c, Zenon DEF Heads, Working, Through
<1>15. CASE RollbackCmd
  BY <1>15, RollbackFaithful, Zenon
<1>16. CASE UNCHANGED gVars
  <2>1. UNCHANGED <<el, cl, cons, next, cand, exec, final>>
    BY <1>16, Zenon DEF gVars
  <2> QED BY <2>1, <1>c, Zenon DEF Heads, Working, Through
<1> QED BY <1>1, <1>2, <1>3, <1>4, <1>5, <1>6, <1>7, <1>8, <1>9, <1>10, <1>11, <1>12, <1>13, <1>14, <1>15, <1>16, Zenon DEF GNext

LEMMA EngineInit ==
  ASSUME GInit
  PROVE  GInv
<1>1. /\ el = [head |-> Genesis, known |-> {Genesis}, payloads |-> {}]
      /\ cl = [head |-> Genesis, safe |-> Genesis, fin |-> Genesis]
      /\ hashes = [h \in 0..MaxELChain |-> NoBlock] /\ meta = [h \in EHeights |-> NoMeta]
      /\ cons = <<>> /\ next = 1 /\ cand = NoInput /\ exec = IdleExec /\ final = IdleFinal /\ incl = 0
      /\ past = [reused |-> FALSE, stale |-> FALSE, lost |-> FALSE, refused |-> FALSE, orphan |-> FALSE,
                 cached |-> FALSE]
  BY Zenon DEF GInit
<1>2. el \in ELs /\ cl \in Labels
  BY <1>1, Constants, Zenon DEF ELs
<1>3. hashes \in [0..MaxELChain -> ELBlocks] /\ meta \in [EHeights -> Metas]
  BY <1>1, Constants, Zenon
<1>4. cons \in ELBlocks /\ next \in Nat \ {0} /\ next \in Nat /\ incl \in Nat /\ next <= Len(cons) + 1
  BY <1>1 DEF ELBlocks
<1>5. cand \in Cells /\ past \in Pasts
  BY <1>1, Zenon DEF Cells, Pasts
<1>6. /\ exec \in Execs /\ final \in Finals /\ exec.pc = "idle" /\ exec.args.head = Genesis
      /\ final.args.head = Genesis /\ el.head = Genesis /\ cl.head = Genesis
  BY <1>1, Constants, Zenon DEF IdleExec, IdleFinal
<1>7. Near(Genesis, cons, next)
  BY <1>4, FollowsGenesis, Zenon DEF ELBlocks
<1>8. EngineTypes
  BY <1>2, <1>3, <1>4, <1>5, <1>6, Zenon DEF EngineTypes
<1>9. Heads /\ Working /\ Through
  BY <1>4, <1>6, <1>7, Zenon DEF Heads, Near, Working, Through
<1> QED BY <1>8, <1>9, Zenon DEF GInv

-----------------------------------------------------------------------------
(* Blocks that run along a chain.                                          *)
LEMMA RunsPrefix ==
  ASSUME NEW S, NEW b \in Seq(S), NEW c \in Seq(S), NEW k \in Nat, k <= Len(b), Runs(b, c)
  PROVE  Runs(SubSeq(b, 1, k), c)
<1>1. Len(SubSeq(b, 1, k)) = k /\ \A i \in 1..k : SubSeq(b, 1, k)[i] = b[i]
  BY Prefixes
<1> QED BY <1>1 DEF Runs

LEMMA RunsCommon ==
  ASSUME NEW S, NEW b \in Seq(S), NEW c \in Seq(S), NEW k \in Nat, k <= Len(b), k <= Len(c), Runs(b, c)
  PROVE  SubSeq(b, 1, k) = SubSeq(c, 1, k)
<1>1. /\ SubSeq(b, 1, k) \in Seq(S) /\ Len(SubSeq(b, 1, k)) = k
      /\ \A i \in 1..k : SubSeq(b, 1, k)[i] = b[i]
  BY Prefixes
<1>2. /\ SubSeq(c, 1, k) \in Seq(S) /\ Len(SubSeq(c, 1, k)) = k
      /\ \A i \in 1..k : SubSeq(c, 1, k)[i] = c[i]
  BY Prefixes
<1>3. \A i \in 1..k : b[i] = c[i]
  BY DEF Runs
<1> DEFINE p == SubSeq(b, 1, k)  q == SubSeq(c, 1, k)
<1>4. p \in Seq(S) /\ q \in Seq(S) /\ Len(p) = k /\ Len(q) = k /\ \A i \in 1..k : p[i] = q[i]
  BY <1>1, <1>2, <1>3
<1> HIDE DEF p, q
<1>5. p = q
  BY <1>4
<1> QED BY <1>5 DEF p, q

LEMMA RunsOwn ==
  ASSUME NEW S, NEW c \in Seq(S), NEW k \in Nat, k <= Len(c)
  PROVE  Runs(SubSeq(c, 1, k), c) /\ Runs(c, c) /\ Runs(Genesis, c)
<1>1. Len(SubSeq(c, 1, k)) = k /\ \A i \in 1..k : SubSeq(c, 1, k)[i] = c[i]
  BY Prefixes
<1> QED BY <1>1 DEF Runs, Genesis

LEMMA RunsNext ==
  ASSUME NEW S, NEW c \in Seq(S), NEW n \in Nat \ {0}, n <= Len(c) + 1, NEW x \in S, n <= Len(c) => x = c[n]
  PROVE  /\ Runs(Append(SubSeq(c, 1, n - 1), x), c) /\ Len(Append(SubSeq(c, 1, n - 1), x)) = n
         /\ Append(SubSeq(c, 1, n - 1), x)[n] = x
<1>1. n - 1 \in Nat /\ n - 1 <= Len(c)
  OBVIOUS
<1>2. /\ SubSeq(c, 1, n - 1) \in Seq(S) /\ Len(SubSeq(c, 1, n - 1)) = n - 1
      /\ \A i \in 1..(n - 1) : SubSeq(c, 1, n - 1)[i] = c[i]
  BY <1>1, Prefixes, Zenon
<1> DEFINE p == SubSeq(c, 1, n - 1)  q == Append(p, x)
<1>3. p \in Seq(S) /\ Len(p) = n - 1 /\ \A i \in 1..(n - 1) : p[i] = c[i]
  BY <1>2
<1> HIDE DEF p
<1>4. Len(q) = n /\ q[n] = x /\ \A i \in 1..(n - 1) : q[i] = c[i]
  BY <1>3
<1> HIDE DEF q
<1>5. \A i \in 1..Len(q) : i <= Len(c) => q[i] = c[i]
  BY <1>4
<1> QED BY <1>4, <1>5 DEF Runs, p, q

LEMMA RunsShorter ==
  ASSUME NEW S, NEW b \in Seq(S), NEW c \in Seq(S), c # <<>>, Runs(b, c)
  PROVE  Runs(b, ParentOf(c))
<1>1. Len(ParentOf(c)) = Len(c) - 1 /\ \A i \in 1..(Len(c) - 1) : ParentOf(c)[i] = c[i]
  BY ParentOfs
<1> QED BY <1>1 DEF Runs

LEMMA RunsLonger ==
  ASSUME NEW S, NEW b \in Seq(S), NEW c \in Seq(S), NEW x \in S, Runs(b, c),
         Len(b) >= Len(c) + 1 => b[Len(c) + 1] = x
  PROVE  Runs(b, Append(c, x))
<1>1. /\ Len(Append(c, x)) = Len(c) + 1 /\ Append(c, x)[Len(c) + 1] = x
      /\ \A i \in 1..Len(c) : Append(c, x)[i] = c[i]
  OBVIOUS
<1>2. SUFFICES ASSUME NEW i \in 1..Len(b), i <= Len(c) + 1 PROVE b[i] = Append(c, x)[i]
  BY <1>1 DEF Runs
<1>3. CASE i <= Len(c)
  BY <1>1, <1>3 DEF Runs
<1>4. CASE i = Len(c) + 1
  BY <1>1, <1>4
<1> QED BY <1>2, <1>3, <1>4

(* Prefixes of a chain that grows.                                         *)
LEMMA GrownPrefix ==
  ASSUME NEW S, NEW c \in Seq(S), NEW x \in S, NEW k \in Nat, k <= Len(c)
  PROVE  SubSeq(Append(c, x), 1, k) = SubSeq(c, 1, k)
<1> DEFINE d == Append(c, x)
<1>1. d \in Seq(S) /\ Len(d) = Len(c) + 1 /\ \A i \in 1..Len(c) : d[i] = c[i]
  OBVIOUS
<1> HIDE DEF d
<1>2. k <= Len(d) /\ Runs(d, c)
  BY <1>1 DEF Runs
<1>3. SubSeq(d, 1, k) = SubSeq(c, 1, k)
  BY <1>1, <1>2, RunsCommon, Zenon
<1> QED BY <1>3 DEF d

LEMMA AncestorRuns ==
  ASSUME NEW S, NEW x \in Seq(S), NEW b \in Seq(S), NEW c \in Seq(S), Ancestor(x, c), Runs(b, c), Len(x) <= Len(b)
  PROVE  Ancestor(x, b)
<1>1. Len(x) \in Nat
  OBVIOUS
<1> QED BY <1>1, RunsCommon, Zenon DEF Ancestor

LEMMA AncestorOrder ==
  ASSUME NEW S, NEW x \in Seq(S), NEW y \in Seq(S), NEW c \in Seq(S), Ancestor(x, c), Ancestor(y, c), Len(x) <= Len(y)
  PROVE  Ancestor(x, y)
<1>1. Len(y) \in Nat /\ Len(y) <= Len(c) /\ y = SubSeq(c, 1, Len(y))
  BY DEF Ancestor
<1>2. Runs(y, c)
  BY <1>1, RunsOwn, Zenon
<1> QED BY <1>2, AncestorRuns, Zenon

LEMMA AncestorPrefix ==
  ASSUME NEW S, NEW c \in Seq(S), NEW k \in Nat, k <= Len(c)
  PROVE  Ancestor(SubSeq(c, 1, k), c) /\ Len(SubSeq(c, 1, k)) = k
  BY Prefixes, Zenon DEF Ancestor

(* What an undisturbed step keeps, action by action in the lemmas below.   *)
Steady == Heads /\ Working /\ Anchored /\ LabelsPlaced /\ Findable

LEMMA ChainTypes ==
  ASSUME EngineTypes
  PROVE  /\ el.head \in Seq(Cells) /\ cl.head \in Seq(Cells) /\ cl.safe \in Seq(Cells) /\ cl.fin \in Seq(Cells)
         /\ final.b \in Seq(Cells) /\ cons \in Seq(Cells) /\ Input \in Cells
         /\ Len(el.head) \in Nat /\ Len(cl.head) \in Nat /\ Len(cl.safe) \in Nat /\ Len(cl.fin) \in Nat
         /\ Len(final.b) \in Nat /\ Len(cons) \in Nat /\ next \in Nat \ {0} /\ next \in Nat /\ next - 1 \in Nat
<1>1. /\ el.head \in Seq(Cells) /\ cl.head \in Seq(Cells) /\ cl.safe \in Seq(Cells) /\ cl.fin \in Seq(Cells)
      /\ final.b \in Seq(Cells) /\ cons \in Seq(Cells) /\ Input \in Cells /\ next \in Nat \ {0}
  BY Fields, InputType, Zenon DEF EngineTypes, ELBlocks
<1>2. \A b \in Seq(Cells) : Len(b) \in Nat
  OBVIOUS
<1>3. next \in Nat /\ next - 1 \in Nat
  BY <1>1
<1> QED BY <1>1, <1>2, <1>3, Zenon

(* The block worked on is one above its parent.                            *)
LEMMA WorkedOn ==
  ASSUME EngineTypes, Heads, Anchored
  PROVE  /\ Parent \in Seq(Cells) /\ Len(Parent) = next - 1 /\ Runs(Parent, cons) /\ Ancestor(Parent, cons)
         /\ Runs(Append(Parent, Input), cons) /\ Len(Append(Parent, Input)) = next
         /\ Append(Parent, Input)[next] = Input
<1>1. next - 1 \in Nat /\ next - 1 <= Len(cons) /\ next <= Len(cons) + 1
  BY ChainTypes DEF Heads
<1>2. /\ Parent \in Seq(Cells) /\ Len(Parent) = next - 1 /\ Runs(Parent, cons) /\ Ancestor(Parent, cons)
  BY <1>1, ChainTypes, Prefixes, RunsOwn, AncestorPrefix, Zenon DEF Parent
<1>3. next <= Len(cons) => Input = cons[next]
  BY Zenon DEF Input
<1>4. cons \in Seq(Cells) /\ next \in Nat \ {0} /\ Input \in Cells
  BY ChainTypes, Zenon
<1>5. /\ Runs(Append(SubSeq(cons, 1, next - 1), Input), cons) /\ Len(Append(SubSeq(cons, 1, next - 1), Input)) = next
      /\ Append(SubSeq(cons, 1, next - 1), Input)[next] = Input
  BY <1>1, <1>3, <1>4, RunsNext
<1> QED BY <1>2, <1>5, Zenon DEF Parent

LEMMA ReconcileSteady ==
  ASSUME EngineTypes, Steady, Reconcile, Own'
  PROVE  Anchored' /\ LabelsPlaced' /\ Findable'
<1>1. UNCHANGED <<el, hashes, cons, next, cand, final>> /\ exec.pc = "idle" /\ Input # NoInput
  BY Zenon DEF Reconcile
<1>2. Input' = Input
  BY <1>1, Zenon DEF Input
<1>3. /\ cons \in Seq(Inputs) /\ Runs(el.head, cons) /\ Runs(cl.head, cons) /\ next <= Len(cons) + 1
      /\ next <= Len(cons) => Len(el.head) <= next
      /\ cl.head = Genesis \/ Len(cl.head) >= next - 1
      /\ cl.head = Genesis \/ Len(el.head) <= Len(cl.head) \/ Len(cons) <= Len(cl.head)
  BY Zenon DEF Steady, Anchored, Heads
<1>4. exec \in Execs /\ Heads
  BY Zenon DEF EngineTypes, Steady
<1>5. "payload" \in ExecPCs /\ "sendBack" \in ExecPCs /\ "build" \in ExecPCs
  BY Zenon DEF ExecPCs
<1>6. /\ Reuse \/ Resume \/ GoBack \/ GoOn
      /\ Record.b \in Mined
      /\ Found # NoBlock => /\ Found \in Mined /\ Found = SubSeq(el.head, 1, next) /\ next <= Len(el.head)
                            /\ SetHead(Found) \in Labels /\ SetHead(Found).head = Found
                            /\ BackTo(ParentOf(Found)) \in Labels
  BY ReconcileCases, Zenon
<1>7. CASE Reuse
  <2>1. /\ Found = Append(Parent, Input) /\ Len(Found) = next /\ next <= Len(el.head) /\ el.head[next] = Input
    BY <1>4, <1>7, ReuseExact, Zenon
  <2>2. cl'.head = Found /\ cl'.safe = cl.safe /\ cl'.fin = cl.fin /\ exec'.pc = "sendHead" /\ exec'.b = Found
    <3>1. cl' = SetHead(Found) /\ exec' = [pc |-> "sendHead", b |-> Found, args |-> SetHead(Found)] /\ cl \in Labels
      BY <1>7, Zenon DEF Reuse, EngineTypes
    <3>2. SetHead(Found).safe = cl.safe /\ SetHead(Found).fin = cl.fin
      BY <3>1 DEF SetHead, Labels
    <3>3. SetHead(Found).head = Found
      BY <1>6, <1>7, Zenon DEF Reuse
    <3> QED BY <3>1, <3>2, <3>3, Zenon
  <2>3. Runs(Found, cons)
    BY <2>1, <1>4, WorkedOn, Zenon DEF Steady
  <2>4. next >= next - 1 /\ (Len(el.head) <= next \/ Len(cons) <= next)
    BY <1>3, ChainTypes
  <2>5. Anchored'
    BY <1>1, <1>2, <1>3, <2>1, <2>2, <2>3, <2>4, Zenon DEF Anchored
  <2>6. LabelsPlaced'
    BY <1>1, <2>1, <2>2, Zenon DEF Steady, LabelsPlaced, Placed
  <2>7. Len(el.head) >= next
    BY <2>1, ChainTypes
  <2>8. Findable'
    BY <1>1, <1>2, <2>1, <2>2, <2>7, Zenon DEF Steady, Findable
  <2> QED BY <2>5, <2>6, <2>8, Zenon
<1>8. CASE Resume
  <2>1. exec'.pc = "payload" /\ UNCHANGED cl
    BY <1>4, <1>5, <1>6, <1>8, ExecOn, Zenon DEF Resume
  <2>2. Anchored'
    BY <1>1, <1>2, <1>3, <2>1, Zenon DEF Anchored
  <2>3. LabelsPlaced'
    BY <1>1, <2>1, Zenon DEF Steady, LabelsPlaced
  <2>4. Findable'
    BY <1>1, <2>1, Zenon DEF Steady, Findable
  <2> QED BY <2>2, <2>3, <2>4, Zenon
<1>9. CASE GoBack
  <2>1. exec'.pc = "sendBack" /\ cl' = BackTo(ParentOf(Found)) /\ InputOf(Found) # Input /\ Found # NoBlock
    BY <1>4, <1>5, <1>6, <1>9, ExecSends, Zenon DEF GoBack
  <2>2. next <= Len(el.head) /\ Found = SubSeq(el.head, 1, next)
    BY <1>6, <2>1, Zenon
  <2>3. Len(Found) = next /\ Found[next] = el.head[next] /\ Found \in Seq(Cells)
    BY <2>2, ChainTypes, Prefixes
  <2>4. el.head[next] # Input
    BY <2>1, <2>3, Zenon DEF InputOf
  <2>5. ~ next <= Len(cons)
    <3>1. SUFFICES ASSUME next <= Len(cons) PROVE FALSE
      BY Zenon
    <3>2. el.head[next] = cons[next]
      BY <3>1, <2>2, <1>3, ChainTypes DEF Runs
    <3> QED BY <3>1, <3>2, <2>4, Zenon DEF Input
  <2>6. next - 1 = Len(cons) /\ Len(cons) <= Len(el.head) /\ Len(cons) <= next /\ Len(cons) <= Len(Found)
    BY <2>2, <2>3, <2>5, <1>3, ChainTypes
  <2>7. ParentOf(Found) = cons
    <3>1. ParentOf(Found) = SubSeq(Found, 1, Len(cons))
      BY <2>3, <2>6, Zenon DEF ParentOf
    <3>2. Runs(Found, cons)
      BY <2>2, <1>3, ChainTypes, RunsPrefix, Zenon
    <3>3. SubSeq(Found, 1, Len(cons)) = SubSeq(cons, 1, Len(cons))
      <4>1. Len(cons) <= Len(cons)
        BY ChainTypes
      <4> QED BY <4>1, <3>2, <2>3, <2>6, ChainTypes, RunsCommon, Zenon
    <3> QED BY <3>1, <3>3, ChainTypes, WholePrefix, Zenon
  <2>8. cl'.head = cons /\ cl'.safe = cons /\ cl'.fin = cons
    BY <2>1, <2>7, Zenon DEF BackTo
  <2>9. Runs(cons, cons) /\ Ancestor(cons, cons) /\ Len(cons) <= Len(cons) /\ Len(cons) >= next - 1
    <3>1. Len(cons) <= Len(cons) /\ Len(cons) >= next - 1
      BY <2>6, ChainTypes
    <3>2. Runs(cons, cons)
      BY <3>1, ChainTypes, RunsOwn, Zenon
    <3>3. Ancestor(cons, cons)
      BY <3>1, ChainTypes, WholePrefix, Zenon DEF Ancestor
    <3> QED BY <3>1, <3>2, <3>3, Zenon
  <2>10. Anchored'
    BY <1>1, <1>2, <1>3, <2>1, <2>6, <2>8, <2>9, Zenon DEF Anchored
  <2>11. final.pc = "label" => Len(final.b) <= Len(cons)
    BY Zenon DEF Steady, LabelsPlaced, Placed, Ancestor
  <2>12. LabelsPlaced'
    BY <1>1, <2>6, <2>8, <2>9, <2>11, Zenon DEF Steady, LabelsPlaced, Placed
  <2>13. Findable'
    BY <1>1, <2>1, Zenon DEF Steady, Findable
  <2> QED BY <2>10, <2>12, <2>13, Zenon
<1>10. CASE GoOn
  <2>1. exec'.pc = "build" /\ UNCHANGED cl
    BY <1>4, <1>5, <1>10, ExecAt, Zenon DEF GoOn
  <2>2. Anchored'
    BY <1>1, <1>2, <1>3, <2>1, Zenon DEF Anchored
  <2>3. LabelsPlaced'
    BY <1>1, <2>1, Zenon DEF Steady, LabelsPlaced
  <2>4. Findable'
    BY <1>1, <2>1, Zenon DEF Steady, Findable
  <2> QED BY <2>2, <2>3, <2>4, Zenon
<1> QED BY <1>6, <1>7, <1>8, <1>9, <1>10, Zenon

(* A forkchoice not overtaken moves the EL to the head the client tracks.  *)
LEMMA MovedHead ==
  ASSUME EngineTypes, Steady, el' = [el EXCEPT !.head = cl.head], UNCHANGED <<cons, next, cl>>, Len(cl.head) >= next - 1
  PROVE  /\ el'.head = cl.head /\ el'.payloads = el.payloads /\ Runs(el'.head, cons)
         /\ next <= Len(cons) => Len(el'.head) <= next
         /\ Len(el'.head) <= Len(cl.head) /\ Len(el'.head) >= next - 1
<1>1. el'.head = cl.head /\ el'.payloads = el.payloads
  BY Zenon DEF EngineTypes, ELs
<1>2. Runs(cl.head, cons) /\ Len(cl.head) <= next
  BY Zenon DEF Steady, Anchored, Heads, Near
<1>3. Len(cl.head) <= Len(cl.head)
  BY ChainTypes
<1> QED BY <1>1, <1>2, <1>3, Zenon

LEMMA SentCurrent ==
  ASSUME EngineTypes, NEW a \in Labels, StaleBy(a), ~past'.stale
  PROVE  a.head = cl.head
<1>1. past \in Pasts /\ (a.head # cl.head) \in BOOLEAN /\ past' = [past EXCEPT !.stale = @ \/ a.head # cl.head]
  BY Zenon DEF EngineTypes, StaleBy
<1>2. past'.stale = (past.stale \/ a.head # cl.head)
  BY <1>1, PastStep, Zenon
<1> QED BY <1>2, Zenon

LEMMA SendHeadSteady ==
  ASSUME EngineTypes, Steady, SendHead, Undisturbed'
  PROVE  Anchored' /\ LabelsPlaced' /\ Findable'
<1>1. UNCHANGED <<cl, hashes, cons, next, cand, final>> /\ exec.pc \in {"sendHead", "sendBack"}
  BY Zenon DEF SendHead
<1>2. Input' = Input
  BY <1>1, Zenon DEF Input
<1>3. exec'.pc = (IF exec.pc = "sendHead" THEN "done" ELSE "build") /\ exec'.b = exec.b
  <2> DEFINE p == IF exec.pc = "sendHead" THEN "done" ELSE "build"
  <2>1. p \in ExecPCs /\ exec' = [IdleExec EXCEPT !.pc = p, !.b = exec.b] /\ exec.b \in Mined
    BY Fields, Zenon DEF SendHead, ExecPCs
  <2> HIDE DEF p
  <2>2. exec'.pc = p /\ exec'.b = exec.b
    BY <2>1, ExecSent, Zenon
  <2> QED BY <2>2 DEF p
<1>4. exec.args.head = cl.head
  BY Fields, SentCurrent, Zenon DEF SendHead, Undisturbed
<1>5. /\ exec.pc = "sendHead" => /\ cl.head = exec.b /\ exec.b = Append(Parent, Input)
                                 /\ Len(exec.b) = next /\ exec.b[next] = Input
      /\ exec.pc = "sendBack" => Len(cl.head) = next - 1
  <2>1. /\ exec.pc = "sendHead" => cl.head = exec.b /\ exec.b = Append(Parent, Input)
        /\ exec.pc = "sendBack" => Len(cl.head) = next - 1
    BY Zenon DEF Steady, Anchored, Working
  <2>2. Len(Append(Parent, Input)) = next /\ Append(Parent, Input)[next] = Input
    BY WorkedOn, Zenon DEF Steady
  <2> QED BY <2>1, <2>2, Zenon
<1>6. Len(cl.head) >= next - 1
  BY <1>1, <1>5, ChainTypes
<1>7. el' = el \/ el' = [el EXCEPT !.head = cl.head]
  BY <1>4, Zenon DEF SendHead, Send
<1>8. CASE el' = el
  <2>1. Anchored'
    BY <1>1, <1>2, <1>3, <1>8, Zenon DEF Steady, Anchored
  <2>2. LabelsPlaced'
    BY <1>1, Zenon DEF Steady, LabelsPlaced
  <2>3. Findable'
    BY <1>1, <1>2, <1>3, <1>8, Zenon DEF Steady, Findable
  <2> QED BY <2>1, <2>2, <2>3, Zenon
<1>9. CASE el' = [el EXCEPT !.head = cl.head]
  <2>1. /\ el'.head = cl.head /\ el'.payloads = el.payloads /\ Runs(el'.head, cons)
        /\ next <= Len(cons) => Len(el'.head) <= next
        /\ Len(el'.head) <= Len(cl.head) /\ Len(el'.head) >= next - 1
    BY <1>1, <1>6, <1>9, MovedHead, Zenon
  <2>2. Anchored'
    BY <1>1, <1>2, <1>3, <2>1, Zenon DEF Steady, Anchored
  <2>3. LabelsPlaced'
    BY <1>1, Zenon DEF Steady, LabelsPlaced
  <2>4. exec.pc = "sendHead" => Len(el'.head) >= next /\ el'.head[next] = Input
    BY <2>1, <1>5, ChainTypes
  <2>5. Findable'
    BY <1>1, <1>2, <1>3, <2>1, <2>4, Zenon DEF Steady, Findable
  <2> QED BY <2>2, <2>3, <2>5, Zenon
<1> QED BY <1>7, <1>8, <1>9, Zenon

LEMMA SendFinalSteady ==
  ASSUME EngineTypes, Steady, SendFinal, Undisturbed'
  PROVE  Anchored' /\ LabelsPlaced' /\ Findable'
<1>1. UNCHANGED <<cl, hashes, cons, next, cand, final>> /\ exec.pc = "sendFinal"
  BY Zenon DEF SendFinal
<1>2. Input' = Input
  BY <1>1, Zenon DEF Input
<1>3. exec.args.head = cl.head
  BY Fields, SentCurrent, Zenon DEF SendFinal, Undisturbed
<1>4. \/ exec' = IdleExec /\ UNCHANGED el
      \/ el' = [el EXCEPT !.head = cl.head] /\ exec' = [IdleExec EXCEPT !.pc = "promoted", !.b = exec.b]
  BY <1>3, Zenon DEF SendFinal, Failed, Send
<1>5. CASE exec' = IdleExec /\ UNCHANGED el
  <2>1. exec'.pc = "idle"
    BY <1>5, Zenon DEF IdleExec
  <2>2. Anchored'
    BY <1>1, <1>5, <2>1, Zenon DEF Steady, Anchored
  <2>3. LabelsPlaced'
    BY <1>1, Zenon DEF Steady, LabelsPlaced
  <2>4. Findable'
    BY <1>1, <1>5, <2>1, Zenon DEF Steady, Findable
  <2> QED BY <2>2, <2>3, <2>4, Zenon
<1>6. CASE el' = [el EXCEPT !.head = cl.head] /\ exec' = [IdleExec EXCEPT !.pc = "promoted", !.b = exec.b]
  <2>1. exec'.pc = "promoted" /\ exec'.b = exec.b
    BY <1>6, Fields, ExecSent, Zenon DEF ExecPCs
  <2>2. cl.head = exec.b /\ exec.b = Append(Parent, Input)
    BY <1>1, Zenon DEF Steady, Anchored, Working
  <2>3. Len(cl.head) = next /\ cl.head[next] = Input
    BY <2>2, WorkedOn, Zenon DEF Steady
  <2>4. Len(cl.head) >= next - 1 /\ Len(cl.head) >= next
    BY <2>3, ChainTypes
  <2>5. /\ el'.head = cl.head /\ el'.payloads = el.payloads /\ Runs(el'.head, cons)
        /\ next <= Len(cons) => Len(el'.head) <= next
        /\ Len(el'.head) <= Len(cl.head) /\ Len(el'.head) >= next - 1
    BY <1>1, <1>6, <2>4, MovedHead, Zenon
  <2>6. Anchored'
    BY <1>1, <1>2, <2>1, <2>2, <2>5, Zenon DEF Steady, Anchored
  <2>7. LabelsPlaced'
    BY <1>1, Zenon DEF Steady, LabelsPlaced
  <2>8. Findable'
    BY <1>1, <1>2, <2>1, <2>3, <2>4, <2>5, Zenon DEF Steady, Findable
  <2> QED BY <2>6, <2>7, <2>8, Zenon
<1> QED BY <1>4, <1>5, <1>6, Zenon

LEMMA FinalSendSteady ==
  ASSUME EngineTypes, Steady, FinalSend, Undisturbed'
  PROVE  Anchored' /\ LabelsPlaced' /\ Findable'
<1>1. UNCHANGED <<cl, hashes, cons, next, cand, exec>> /\ final' = IdleFinal /\ final.pc = "send"
  BY Zenon DEF FinalSend
<1>2. Input' = Input /\ final'.pc = "idle"
  BY <1>1, Zenon DEF Input, IdleFinal
<1>3. final.args.head = cl.head
  BY Fields, SentCurrent, Zenon DEF FinalSend, Undisturbed
<1>4. LabelsPlaced'
  BY <1>1, <1>2, Zenon DEF Steady, LabelsPlaced
<1>5. \/ UNCHANGED el
      \/ el' = [el EXCEPT !.head = cl.head] /\ Ancestor(final.args.safe, cl.head)
  BY <1>3, Zenon DEF FinalSend, Send, ForkchoiceValid
<1>6. CASE UNCHANGED el
  <2>1. Anchored'
    BY <1>1, <1>2, <1>6, Zenon DEF Steady, Anchored
  <2>2. Findable'
    BY <1>1, <1>2, <1>6, Zenon DEF Steady, Findable
  <2> QED BY <1>4, <2>1, <2>2, Zenon
<1>7. CASE el' = [el EXCEPT !.head = cl.head] /\ Ancestor(final.args.safe, cl.head)
  <2>1. cl.head # Genesis
    <3>1. final.args.safe \in Seq(Cells) /\ final.args.safe # <<>>
      BY <1>1, Fields, Zenon DEF Steady, LabelsPlaced, Labels, ELBlocks
    <3>2. Len(final.args.safe) <= Len(cl.head)
      BY <1>7, Zenon DEF Ancestor
    <3> QED BY <3>1, <3>2 DEF Genesis
  <2>2. Len(cl.head) >= next - 1
    BY <2>1, Zenon DEF Steady, Anchored
  <2>3. /\ el'.head = cl.head /\ el'.payloads = el.payloads /\ Runs(el'.head, cons)
        /\ next <= Len(cons) => Len(el'.head) <= next
        /\ Len(el'.head) <= Len(cl.head) /\ Len(el'.head) >= next - 1
    BY <1>1, <1>7, <2>2, MovedHead, Zenon
  <2>4. Anchored'
    BY <1>1, <1>2, <2>3, Zenon DEF Steady, Anchored
  <2>5. exec.pc \in {"sendHead", "promoted", "done"} => Len(el'.head) >= next /\ el'.head[next] = Input
    <3>1. SUFFICES ASSUME exec.pc \in {"sendHead", "promoted", "done"}
                   PROVE  Len(el'.head) >= next /\ el'.head[next] = Input
      BY Zenon
    <3>2. cl.head = Append(Parent, Input)
      BY <3>1, Zenon DEF Steady, Anchored, Working
    <3>3. Len(cl.head) = next /\ cl.head[next] = Input
      BY <3>2, WorkedOn, Zenon DEF Steady
    <3> QED BY <2>3, <3>3, ChainTypes
  <2>6. Findable'
    BY <1>1, <1>2, <2>3, <2>5, Zenon DEF Steady, Findable
  <2> QED BY <1>4, <2>4, <2>6, Zenon
<1> QED BY <1>5, <1>6, <1>7, Zenon

LEMMA BuildSteady ==
  ASSUME EngineTypes, Steady, Build
  PROVE  Anchored' /\ LabelsPlaced' /\ Findable'
<1>1. UNCHANGED <<cl, cons, next, cand, final>> /\ exec.pc = "build"
  BY Zenon DEF Build
<1>2. Input' = Input
  BY <1>1, Zenon DEF Input
<1>3. LabelsPlaced'
  BY <1>1, Zenon DEF Steady, LabelsPlaced
<1>4. \/ exec' = IdleExec /\ UNCHANGED <<el, hashes>>
      \/ /\ el' = [el EXCEPT !.head = Parent, !.payloads = @ \cup {Append(Parent, Input)}]
         /\ exec' = [exec EXCEPT !.pc = "payload", !.b = Append(Parent, Input)]
         /\ hashes' = [hashes EXCEPT ![next - 1] = Parent]
  BY Zenon DEF Build, Failed
<1>5. CASE exec' = IdleExec /\ UNCHANGED <<el, hashes>>
  <2>1. exec'.pc = "idle"
    BY <1>5, Zenon DEF IdleExec
  <2>2. Anchored'
    BY <1>1, <1>5, <2>1, Zenon DEF Steady, Anchored
  <2>3. Findable'
    BY <1>1, <1>5, <2>1, Zenon DEF Steady, Findable
  <2> QED BY <1>3, <2>2, <2>3, Zenon
<1>6. CASE /\ el' = [el EXCEPT !.head = Parent, !.payloads = @ \cup {Append(Parent, Input)}]
           /\ exec' = [exec EXCEPT !.pc = "payload", !.b = Append(Parent, Input)]
           /\ hashes' = [hashes EXCEPT ![next - 1] = Parent]
  <2>1. Parent \in Seq(Cells) /\ Len(Parent) = next - 1 /\ Runs(Parent, cons)
    BY WorkedOn, Zenon DEF Steady
  <2>2. Append(Parent, Input) \in Mined
    BY <2>1, ChainTypes, Appends, Zenon DEF Mined, ELBlocks
  <2>3. exec'.pc = "payload"
    BY <1>6, <2>2, ExecOn, Zenon DEF ExecPCs, EngineTypes
  <2>4. el'.head = Parent
    BY <1>6, Zenon DEF ELs, EngineTypes
  <2>5. Len(el'.head) <= next /\ Len(el'.head) >= next - 1 /\ (Len(cl.head) >= next - 1 => Len(el'.head) <= Len(cl.head))
    BY <2>1, <2>4, ChainTypes
  <2>6. Anchored'
    BY <1>1, <1>2, <2>1, <2>3, <2>4, <2>5, Zenon DEF Steady, Anchored
  <2>7. \A h \in 0..MaxELChain : h < next => hashes'[h] = NoBlock \/ hashes'[h] = SubSeq(cons, 1, h)
    <3>1. SUFFICES ASSUME NEW h \in 0..MaxELChain, h < next
                   PROVE  hashes'[h] = NoBlock \/ hashes'[h] = SubSeq(cons, 1, h)
      BY Zenon
    <3>2. hashes \in [0..MaxELChain -> ELBlocks]
      BY Zenon DEF EngineTypes
    <3>3. hashes'[h] = IF h = next - 1 THEN Parent ELSE hashes[h]
      BY <1>6, <3>2, Zenon
    <3> QED BY <3>1, <3>3, Zenon DEF Parent, Steady, Findable
  <2>8. Findable'
    BY <1>1, <2>3, <2>5, <2>7, Zenon DEF Findable
  <2> QED BY <1>3, <2>6, <2>8, Zenon
<1> QED BY <1>4, <1>5, <1>6, Zenon

(* With the payload at hand, the block under the head by a lag is found,   *)
(* and it is the committed one.                                            *)
LEMMA LagFound ==
  ASSUME EngineTypes, Steady, next <= MaxELChain, Len(el.head) >= next - 1,
         NEW lag \in Nat, 1 <= lag, next > lag, NEW old
  PROVE  Lagged(next, lag, old) = SubSeq(cons, 1, next - lag)
<1>1. next - lag \in Nat /\ next - lag \in 0..MaxELChain /\ next - lag < next /\ next - lag # next /\ next - lag >= 1
  BY ChainTypes, Constants
<1>2. next - lag <= Len(el.head) /\ next - lag <= Len(cons)
  BY ChainTypes DEF Steady, Heads
<1>3. getBlockInfo(next - lag) = SubSeq(cons, 1, next - lag)
  <2>1. Runs(el.head, cons)
    BY Zenon DEF Steady, Anchored
  <2> QED BY <2>1, <1>1, <1>2, ChainTypes, RunsCommon, Zenon DEF getBlockInfo
<1>4. Lookup(next - lag) = SubSeq(cons, 1, next - lag)
  BY <1>1, <1>3, Zenon DEF Lookup, Steady, Findable
<1>5. SubSeq(cons, 1, next - lag) # NoBlock
  <2>1. cons \in Seq(Inputs)
    BY Zenon DEF Steady, Anchored
  <2>2. SubSeq(cons, 1, next - lag)[1] = cons[1] /\ cons[1] \in Inputs
    BY <2>1, <1>1, <1>2, ChainTypes, Prefixes
  <2>3. NoBlock[1] = NoInput /\ NoInput \notin Inputs
    <3>1. NoInput.t = -1 /\ \A x \in Inputs : x.t \in Nat
      BY EngineClientAssumption, Zenon DEF NoInput
    <3>2. NoInput \notin Inputs
      BY <3>1
    <3> QED BY <3>2, Zenon DEF NoBlock
  <2> QED BY <2>2, <2>3, Zenon
<1> QED BY <1>4, <1>5, Zenon DEF Lagged

LEMMA PayloadSteady ==
  ASSUME EngineTypes, Steady, ProcessPayload
  PROVE  Anchored' /\ LabelsPlaced' /\ Findable'
<1>1. UNCHANGED <<cons, next, cand, final>> /\ exec.pc = "payload"
  BY Zenon DEF ProcessPayload
<1>2. Input' = Input
  BY <1>1, Zenon DEF Input
<1>3. \/ exec' = IdleExec /\ UNCHANGED <<el, cl, hashes>>
      \/ /\ exec.b \in el.payloads /\ el' = [el EXCEPT !.known = @ \cup {exec.b}]
         /\ hashes' = [hashes EXCEPT ![next] = exec.b]
         /\ cl' = LabelsAt(next) /\ exec' = [exec EXCEPT !.pc = "sendFinal", !.args = LabelsAt(next)]
  BY Zenon DEF ProcessPayload, Failed
<1>4. CASE exec' = IdleExec /\ UNCHANGED <<el, cl, hashes>>
  <2>1. exec'.pc = "idle"
    BY <1>4, Zenon DEF IdleExec
  <2>2. Anchored'
    BY <1>1, <1>4, <2>1, Zenon DEF Steady, Anchored
  <2>3. Findable'
    BY <1>1, <1>4, <2>1, Zenon DEF Steady, Findable
  <2>4. LabelsPlaced'
    BY <1>1, <1>4, Zenon DEF Steady, LabelsPlaced
  <2> QED BY <2>2, <2>3, <2>4, Zenon
<1>5. CASE /\ exec.b \in el.payloads /\ el' = [el EXCEPT !.known = @ \cup {exec.b}]
           /\ hashes' = [hashes EXCEPT ![next] = exec.b]
           /\ cl' = LabelsAt(next) /\ exec' = [exec EXCEPT !.pc = "sendFinal", !.args = LabelsAt(next)]
  <2>1. next <= MaxELChain /\ LabelsAt(next) \in Labels
    BY <1>1, LabelsAtType, Zenon DEF EngineTypes
  <2>2. exec'.pc = "sendFinal" /\ exec'.b = exec.b
    BY <1>5, <2>1, ExecSends, Zenon DEF ExecPCs, EngineTypes
  <2>3. el'.head = el.head /\ el'.payloads = el.payloads
    BY <1>5, Zenon DEF ELs, EngineTypes
  <2>4. exec.b = Append(Parent, Input)
    BY <1>1, Zenon DEF Steady, Working
  <2>5. Runs(exec.b, cons) /\ Len(exec.b) = next
    BY <2>4, WorkedOn, Zenon DEF Steady
  <2>6. Len(el.head) >= next - 1
    BY <1>5, Zenon DEF Steady, Findable
  <2>7. cl'.head = exec.b
    BY <1>5, Zenon DEF LabelsAt
  <2>8. Len(cl'.head) >= next - 1 /\ (Len(el.head) <= Len(cl'.head) \/ Len(cons) <= Len(cl'.head))
    <3>1. next <= Len(cons) => Len(el.head) <= next
      BY Zenon DEF Steady, Anchored
    <3> QED BY <3>1, <2>5, <2>7, ChainTypes
  <2>9. Anchored'
    BY <1>1, <1>2, <2>2, <2>3, <2>5, <2>7, <2>8, Zenon DEF Steady, Anchored
  <2>10. Findable'
    <3>1. \A h \in 0..MaxELChain : h < next => hashes'[h] = hashes[h]
      <4>1. hashes \in [0..MaxELChain -> ELBlocks] /\ \A h \in 0..MaxELChain : h < next => h # next
        BY ChainTypes DEF EngineTypes
      <4> QED BY <1>5, <4>1, Zenon
    <3> QED BY <1>1, <2>2, <2>3, <3>1, Zenon DEF Steady, Findable
  <2>11. /\ cl'.safe = cl.safe \/ (next > SafeBlockLag /\ cl'.safe = SubSeq(cons, 1, next - SafeBlockLag))
         /\ next > SafeBlockLag => cl'.safe = SubSeq(cons, 1, next - SafeBlockLag)
         /\ cl'.fin = cl.fin \/ (next > FinalizedBlockLag /\ cl'.fin = SubSeq(cons, 1, next - FinalizedBlockLag))
         /\ next > FinalizedBlockLag => cl'.fin = SubSeq(cons, 1, next - FinalizedBlockLag)
         /\ ~ next > SafeBlockLag => cl'.safe = cl.safe
         /\ ~ next > FinalizedBlockLag => cl'.fin = cl.fin
    <3>1. cl'.safe = Lagged(next, SafeBlockLag, cl.safe) /\ cl'.fin = Lagged(next, FinalizedBlockLag, cl.fin)
      BY <1>5, Zenon DEF LabelsAt
    <3>2. SafeBlockLag \in Nat /\ FinalizedBlockLag \in Nat /\ 1 <= SafeBlockLag /\ 1 <= FinalizedBlockLag
      BY EngineClientAssumption
    <3>3. next > SafeBlockLag => Lagged(next, SafeBlockLag, cl.safe) = SubSeq(cons, 1, next - SafeBlockLag)
      BY <2>1, <2>6, <3>2, LagFound, Zenon
    <3>4. next > FinalizedBlockLag => Lagged(next, FinalizedBlockLag, cl.fin) = SubSeq(cons, 1, next - FinalizedBlockLag)
      BY <2>1, <2>6, <3>2, LagFound, Zenon
    <3>5. /\ ~ next > SafeBlockLag => Lagged(next, SafeBlockLag, cl.safe) = cl.safe
          /\ ~ next > FinalizedBlockLag => Lagged(next, FinalizedBlockLag, cl.fin) = cl.fin
      BY Zenon DEF Lagged
    <3> QED BY <3>1, <3>3, <3>4, <3>5, Zenon
  <2>12. \A lag \in Nat : 1 <= lag /\ next > lag =>
           Placed(SubSeq(cons, 1, next - lag), exec.b, cons, next) /\ Len(SubSeq(cons, 1, next - lag)) = next - lag
    <3>1. SUFFICES ASSUME NEW lag \in Nat, 1 <= lag, next > lag
                   PROVE  Placed(SubSeq(cons, 1, next - lag), exec.b, cons, next) /\ Len(SubSeq(cons, 1, next - lag)) = next - lag
      BY Zenon
    <3>2. next - lag \in Nat /\ next - lag <= Len(cons) /\ next - lag <= next
      BY <3>1, ChainTypes DEF Steady, Heads
    <3>3. Ancestor(SubSeq(cons, 1, next - lag), cons) /\ Len(SubSeq(cons, 1, next - lag)) = next - lag
      BY <3>2, ChainTypes, AncestorPrefix, Zenon
    <3> QED BY <3>2, <3>3, <2>5, Zenon DEF Placed
  <2>13. Placed(cl.safe, exec.b, cons, next) /\ Placed(cl.fin, exec.b, cons, next)
         /\ (final.pc = "label" => Placed(final.b, exec.b, cons, next))
    BY <2>5, Zenon DEF Steady, LabelsPlaced, Placed
  <2>14. SafeBlockLag \in Nat /\ FinalizedBlockLag \in Nat /\ 1 <= SafeBlockLag /\ 1 <= FinalizedBlockLag
         /\ SafeBlockLag <= FinalizedBlockLag
    BY EngineClientAssumption
  <2>15. Placed(cl'.safe, cl'.head, cons, next) /\ Placed(cl'.fin, cl'.head, cons, next)
    BY <2>7, <2>11, <2>12, <2>13, <2>14, Zenon
  <2>16. Len(cl'.fin) <= Len(cl'.safe) \/ Len(cl'.safe) \in 1..(FinalizedBlockLag - SafeBlockLag)
    <3>1. /\ next > SafeBlockLag => Len(cl'.safe) = next - SafeBlockLag
          /\ next > FinalizedBlockLag => Len(cl'.fin) = next - FinalizedBlockLag
      BY <2>11, <2>12, <2>14, Zenon
    <3>2. CASE ~ next > SafeBlockLag
      <4>1. ~ next > FinalizedBlockLag
        BY <3>2, <2>14, ChainTypes
      <4> QED BY <3>2, <4>1, <2>11, Zenon DEF Steady, LabelsPlaced
    <3>3. CASE next > FinalizedBlockLag
      <4>1. Len(cl'.safe) = next - SafeBlockLag /\ Len(cl'.fin) = next - FinalizedBlockLag
        BY <3>1, <3>3, <2>14, ChainTypes
      <4> QED BY <4>1, <2>14, ChainTypes
    <3>4. CASE next > SafeBlockLag /\ ~ next > FinalizedBlockLag
      <4>1. Len(cl'.safe) = next - SafeBlockLag
        BY <3>1, <3>4
      <4> QED BY <4>1, <3>4, <2>14, ChainTypes
    <3> QED BY <3>2, <3>3, <3>4, Zenon
  <2>17. LabelsPlaced'
    BY <1>1, <2>7, <2>13, <2>15, <2>16, Zenon DEF Steady, LabelsPlaced
  <2> QED BY <2>9, <2>10, <2>17, Zenon
<1> QED BY <1>3, <1>4, <1>5, Zenon

LEMMA SavePromotedSteady ==
  ASSUME EngineTypes, Steady, SavePromoted
  PROVE  Anchored' /\ LabelsPlaced' /\ Findable'
<1>1. /\ UNCHANGED <<cl, hashes, cons, next, cand, final>> /\ exec.pc = "promoted"
      /\ exec' = [exec EXCEPT !.pc = "done"] /\ el' = [el EXCEPT !.payloads = @ \ {exec.b}]
  BY Zenon DEF SavePromoted
<1>2. Input' = Input
  BY <1>1, Zenon DEF Input
<1>3. exec'.pc = "done" /\ exec'.b = exec.b
  BY <1>1, ExecAt, Zenon DEF EngineTypes, ExecPCs
<1>4. el'.head = el.head /\ (el.payloads = {} => el'.payloads = {})
  BY <1>1, Zenon DEF EngineTypes, ELs
<1>5. Anchored'
  BY <1>1, <1>2, <1>3, <1>4, Zenon DEF Steady, Anchored
<1>6. LabelsPlaced'
  BY <1>1, Zenon DEF Steady, LabelsPlaced
<1>7. Findable'
  BY <1>1, <1>2, <1>3, <1>4, Zenon DEF Steady, Findable
<1> QED BY <1>5, <1>6, <1>7, Zenon

(* What the committed block leaves behind: the cache has it or nothing,    *)
(* and both heads hold it.                                                 *)
LEMMA Returned ==
  ASSUME EngineTypes, Steady, Return, Undisturbed'
  PROVE  /\ cl.head = exec.b /\ exec.b = Append(Parent, Input) /\ Len(cl.head) = next /\ Runs(exec.b, cons)
         /\ hashes[next] = NoBlock \/ hashes[next] = exec.b
         /\ \A h \in 0..MaxELChain : hashes'[h] = NoBlock \/ hashes'[h] = hashes[h]
         /\ el.payloads = {} \/ Len(el.head) >= next
         /\ Len(el.head) >= next => el.head[next] = Input
         /\ Input \in Inputs
<1>1. exec.pc = "done"
  BY Zenon DEF Return
<1>2. cl.head = exec.b /\ exec.b = Append(Parent, Input) /\ Input # NoInput
  BY <1>1, Zenon DEF Steady, Anchored, Working
<1>3. Len(exec.b) = next /\ Runs(exec.b, cons)
  BY <1>2, WorkedOn, Zenon DEF Steady
<1>4. hashes[next] = NoBlock \/ hashes[next] = exec.b
  <2>1. /\ past \in Pasts /\ (hashes[next] \notin {NoBlock, exec.b}) \in BOOLEAN
        /\ past' = [past EXCEPT !.cached = @ \/ hashes[next] \notin {NoBlock, exec.b}]
    BY Zenon DEF EngineTypes, Return
  <2>2. past'.cached = (past.cached \/ hashes[next] \notin {NoBlock, exec.b})
    BY <2>1, PastStep, Zenon
  <2>3. ~past'.cached
    BY Zenon DEF Undisturbed
  <2> QED BY <2>2, <2>3, Zenon
<1>5. \A h \in 0..MaxELChain : hashes'[h] = NoBlock \/ hashes'[h] = hashes[h]
  BY Zenon DEF Return
<1>6. /\ el.payloads = {} \/ Len(el.head) >= next
      /\ Len(el.head) >= next => el.head[next] = Input
  BY <1>1, Zenon DEF Steady, Findable
<1>7. Input \in Inputs
  BY <1>2, InputType, Zenon DEF Cells
<1> QED BY <1>2, <1>3, <1>4, <1>5, <1>6, <1>7, Zenon

LEMMA ReplaySteady ==
  ASSUME EngineTypes, Steady, Return, Undisturbed', next <= Len(cons)
  PROVE  Anchored' /\ LabelsPlaced' /\ Findable'
<1>1. UNCHANGED <<el, cl, final, cons>> /\ next' = next + 1 /\ exec' = IdleExec
  BY Zenon DEF Return
<1>2. exec'.pc = "idle"
  BY <1>1, Zenon DEF IdleExec
<1>3. /\ next' \in Nat /\ next' - 1 = next
      /\ Len(cl.head) = next => Len(cl.head) >= next' - 1
      /\ Len(el.head) <= next => Len(el.head) <= next'
      /\ \A n \in Nat : n <= next => n <= next'
      /\ \A h \in Nat : h < next' => h < next \/ h = next
  BY <1>1, ChainTypes
<1>4. Anchored'
  BY <1>1, <1>2, <1>3, Returned, Zenon DEF Steady, Anchored
<1>5. LabelsPlaced'
  BY <1>1, <1>3, ChainTypes, Zenon DEF Steady, LabelsPlaced, Placed
<1>6. exec.b = SubSeq(cons, 1, next)
  <2>1. exec.b \in Seq(Cells) /\ Len(exec.b) = next
    BY Returned, ChainTypes, Zenon
  <2>2. SubSeq(exec.b, 1, next) = exec.b
    BY <2>1, WholePrefix, Zenon
  <2>3. next <= Len(exec.b) /\ next \in Nat
    BY <2>1, ChainTypes
  <2>4. Runs(exec.b, cons) /\ cons \in Seq(Cells)
    BY Returned, ChainTypes, Zenon
  <2>5. SubSeq(exec.b, 1, next) = SubSeq(cons, 1, next)
    BY <2>1, <2>3, <2>4, RunsCommon, Zenon
  <2> QED BY <2>2, <2>5, Zenon
<1>7. \A h \in 0..MaxELChain : h < next' => hashes'[h] = NoBlock \/ hashes'[h] = SubSeq(cons, 1, h)
  <2>1. \A h \in 0..MaxELChain : h \in Nat
    BY Constants
  <2>2. \A h \in 0..MaxELChain : h < next => hashes[h] = NoBlock \/ hashes[h] = SubSeq(cons, 1, h)
    BY Zenon DEF Steady, Findable
  <2> QED BY <1>3, <1>6, <2>1, <2>2, Returned, Zenon
<1>8. Findable'
  BY <1>1, <1>2, <1>3, <1>7, Returned, Zenon DEF Findable
<1> QED BY <1>4, <1>5, <1>8, Zenon

LEMMA CommitSteady ==
  ASSUME EngineTypes, Steady, Return, Undisturbed', ~ next <= Len(cons)
  PROVE  Anchored' /\ LabelsPlaced' /\ Findable'
<1>1. UNCHANGED <<el, cl, final>> /\ cons' = exec.b /\ next' = next + 1 /\ exec' = IdleExec
  BY Zenon DEF Return
<1>2. exec'.pc = "idle"
  BY <1>1, Zenon DEF IdleExec
<1>3. next = Len(cons) + 1 /\ next - 1 = Len(cons)
  BY ChainTypes DEF Steady, Heads
<1>4. cons' = Append(cons, Input)
  BY <1>1, <1>3, ChainTypes, WholePrefix, Returned, Zenon DEF Parent
<1>5. cons' \in Seq(Inputs) /\ cons' \in Seq(Cells) /\ Len(cons') = next
  <2>1. cons \in Seq(Inputs)
    BY Zenon DEF Steady, Anchored
  <2> QED BY <1>3, <1>4, <2>1, ChainTypes, Returned, Appends, Zenon
<1>6. /\ next' \in Nat /\ next' - 1 = next /\ ~ next' <= Len(cons')
      /\ Len(cl.head) = next => Len(cl.head) >= next' - 1 /\ Len(cons') <= Len(cl.head)
      /\ \A n \in Nat : n <= next => n <= next'
      /\ \A h \in Nat : h < next' => h <= Len(cons) \/ h = next
      /\ \A h \in Nat : h <= Len(cons) => h < next
  <2>1. next \in Nat /\ Len(cons) \in Nat /\ Len(cl.head) \in Nat /\ next' = next + 1 /\ Len(cons') = next
    BY <1>1, <1>5, ChainTypes, Zenon
  <2> HIDE <1>1, <1>4, <1>5
  <2> QED BY <2>1, <1>3
<1>7. Runs(el.head, cons') /\ Runs(cl.head, cons')
  <2>1. Runs(el.head, cons)
    BY Zenon DEF Steady, Anchored
  <2>2. Runs(el.head, cons')
    BY <2>1, <1>3, <1>4, ChainTypes, Returned, RunsLonger, Zenon
  <2>3. cl.head = cons'
    BY <1>1, Returned, Zenon
  <2>4. Runs(cons', cons')
    BY <1>5 DEF Runs
  <2> QED BY <2>2, <2>3, <2>4, Zenon
<1>8. Anchored'
  BY <1>1, <1>2, <1>5, <1>6, <1>7, Returned, Zenon DEF Anchored
<1>9. \A k \in Nat : k <= Len(cons) => SubSeq(cons', 1, k) = SubSeq(cons, 1, k)
  BY <1>4, ChainTypes, GrownPrefix, Zenon
<1>10. ASSUME NEW x \in Seq(Cells), NEW h, Placed(x, h, cons, next)
       PROVE  Placed(x, h, cons', next')
  <2>1. Len(x) \in Nat /\ Len(x) <= Len(cons) /\ SubSeq(cons, 1, Len(x)) = x /\ Len(x) <= next
        /\ (h = Genesis \/ Len(x) <= Len(h))
    <3>1. Len(x) \in Nat
      OBVIOUS
    <3> QED BY <3>1, <1>10, Zenon DEF Placed, Ancestor
  <2>2. Len(x) <= Len(cons') /\ Len(x) <= next'
    BY <2>1, <1>3, <1>5, <1>6, ChainTypes
  <2> QED BY <2>1, <2>2, <1>9, Zenon DEF Placed, Ancestor
<1>11. LabelsPlaced'
  BY <1>1, <1>10, ChainTypes, Zenon DEF Steady, LabelsPlaced
<1>12. SubSeq(cons', 1, next) = exec.b
  BY <1>1, <1>5, WholePrefix, Zenon
<1>13. \A h \in 0..MaxELChain : h < next' => hashes'[h] = NoBlock \/ hashes'[h] = SubSeq(cons', 1, h)
  <2>1. \A h \in 0..MaxELChain : h \in Nat
    BY Constants
  <2>2. \A h \in 0..MaxELChain : h < next => hashes[h] = NoBlock \/ hashes[h] = SubSeq(cons, 1, h)
    BY Zenon DEF Steady, Findable
  <2>3. \A h \in 0..MaxELChain : h <= Len(cons) => hashes[h] = NoBlock \/ hashes[h] = SubSeq(cons', 1, h)
    BY <1>6, <1>9, <2>1, <2>2, Zenon
  <2> QED BY <1>6, <1>12, <2>1, <2>3, Returned, Zenon
<1>14. Findable'
  BY <1>1, <1>2, <1>6, <1>13, Returned, Zenon DEF Findable
<1> QED BY <1>8, <1>11, <1>14, Zenon

LEMMA FinalLookupSteady ==
  ASSUME EngineTypes, Steady, FinalLookup
  PROVE  Anchored' /\ LabelsPlaced' /\ Findable'
<1>1. /\ UNCHANGED <<el, cl, hashes, cons, next, cand, exec>> /\ incl < Len(cons) /\ getBlockInfo(incl + 1) # NoBlock
      /\ final' = [final EXCEPT !.pc = "label", !.b = getBlockInfo(incl + 1)]
  BY Zenon DEF FinalLookup
<1>2. Input' = Input
  BY <1>1, Zenon DEF Input
<1>3. final'.pc = "label" /\ final'.b = getBlockInfo(incl + 1)
  BY <1>1, Zenon DEF EngineTypes, Finals
<1>4. incl + 1 \in Nat /\ incl + 1 <= Len(cons) /\ incl + 1 # 0
  BY <1>1, ChainTypes DEF EngineTypes
<1>5. incl + 1 <= Len(el.head) /\ final'.b = SubSeq(el.head, 1, incl + 1)
  BY <1>1, <1>3, Zenon DEF getBlockInfo
<1>6. final'.b = SubSeq(cons, 1, incl + 1)
  <2>1. Runs(el.head, cons) /\ el.head \in Seq(Cells) /\ cons \in Seq(Cells)
    BY ChainTypes, Zenon DEF Steady, Anchored
  <2>2. SubSeq(el.head, 1, incl + 1) = SubSeq(cons, 1, incl + 1)
    BY <2>1, <1>4, <1>5, RunsCommon, Zenon
  <2> QED BY <2>2, <1>5, Zenon
<1>7. Ancestor(final'.b, cons) /\ Len(final'.b) = incl + 1
  BY <1>4, <1>6, ChainTypes, AncestorPrefix, Zenon
<1>8. incl + 1 <= next /\ (cl.head = Genesis \/ incl + 1 <= Len(cl.head))
  <2>1. /\ next <= Len(cons) => Len(el.head) <= next
        /\ cl.head = Genesis \/ Len(el.head) <= Len(cl.head) \/ Len(cons) <= Len(cl.head)
    BY Zenon DEF Steady, Anchored
  <2>2. next <= Len(cons) + 1
    BY Zenon DEF Steady, Heads
  <2> QED BY <2>1, <2>2, <1>4, <1>5, ChainTypes
<1>9. final'.b # <<>>
  BY <1>4, <1>7
<1>10. Anchored'
  BY <1>1, <1>2, Zenon DEF Steady, Anchored
<1>11. LabelsPlaced'
  BY <1>1, <1>3, <1>7, <1>8, <1>9, Zenon DEF Steady, LabelsPlaced, Placed
<1>12. Findable'
  BY <1>1, <1>2, Zenon DEF Steady, Findable
<1> QED BY <1>10, <1>11, <1>12, Zenon

LEMMA FinalLabelSteady ==
  ASSUME EngineTypes, Steady, FinalLabel
  PROVE  Anchored' /\ LabelsPlaced' /\ Findable'
<1> DEFINE a == [head |-> cl.head, safe |-> final.b, fin |-> final.b]
<1>1. /\ UNCHANGED <<el, hashes, cons, next, cand, exec>> /\ final.pc = "label"
      /\ cl' = a /\ final' = [IdleFinal EXCEPT !.pc = "send", !.args = a]
  BY Zenon DEF FinalLabel
<1>2. Input' = Input
  BY <1>1, Zenon DEF Input
<1>3. cl'.head = cl.head /\ cl'.safe = final.b /\ cl'.fin = final.b
  BY <1>1, Zenon
<1>4. final'.pc = "send" /\ final'.args = a
  BY <1>1, Zenon DEF IdleFinal
<1>5. final'.args.safe = final.b
  BY <1>4
<1>6. Placed(final.b, cl.head, cons, next) /\ final.b # <<>>
  BY <1>1, Zenon DEF Steady, LabelsPlaced
<1>7. Len(final.b) <= Len(final.b)
  BY ChainTypes
<1>8. Anchored'
  BY <1>1, <1>2, <1>3, Zenon DEF Steady, Anchored
<1>9. LabelsPlaced'
  BY <1>1, <1>3, <1>4, <1>5, <1>6, <1>7, Zenon DEF LabelsPlaced
<1>10. Findable'
  BY <1>1, <1>2, Zenon DEF Steady, Findable
<1> QED BY <1>8, <1>9, <1>10, Zenon

(* A fresh client: nothing is labelled, cached or under way.               *)
LEMMA FreshSteady ==
  ASSUME Fresh, cons' \in Seq(Inputs), next' \in Nat, el'.head \in Seq(Cells), Runs(el'.head, cons'),
         next' <= Len(cons') => Len(el'.head) <= next',
         el'.payloads = {} \/ Len(el'.head) >= next' - 1
  PROVE  Anchored' /\ LabelsPlaced' /\ Findable'
<1>1. /\ exec'.pc = "idle" /\ cl'.head = Genesis /\ cl'.safe = Genesis /\ cl'.fin = Genesis /\ final'.pc = "idle"
      /\ \A h \in 0..MaxELChain : hashes'[h] = NoBlock
  BY Zenon DEF Fresh, IdleExec, IdleFinal
<1>2. Runs(Genesis, cons') /\ Ancestor(Genesis, cons') /\ Len(Genesis) <= next' /\ Len(Genesis) <= Len(Genesis)
  BY DEF Runs, Ancestor, Genesis
<1>3. Anchored'
  BY <1>1, <1>2, Zenon DEF Anchored
<1>4. LabelsPlaced'
  BY <1>1, <1>2, Zenon DEF LabelsPlaced, Placed
<1>5. Findable'
  BY <1>1, Zenon DEF Findable
<1> QED BY <1>3, <1>4, <1>5, Zenon

LEMMA RestartNodeSteady ==
  ASSUME EngineTypes, Steady, RestartNode
  PROVE  Anchored' /\ LabelsPlaced' /\ Findable'
<1>1. /\ Fresh /\ UNCHANGED <<el, cons>>
      /\ next' = IF Len(el.head) < Len(cons) THEN Len(el.head) + 1 ELSE Len(cons) + 1
  BY Zenon DEF RestartNode
<1>2. cons \in Seq(Inputs) /\ Runs(el.head, cons) /\ el.head \in Seq(Cells)
  BY ChainTypes, Zenon DEF Steady, Anchored
<1>3. next' \in Nat /\ (next' <= Len(cons) => Len(el.head) <= next') /\ Len(el.head) >= next' - 1
  BY <1>1, ChainTypes
<1> QED BY <1>1, <1>2, <1>3, FreshSteady, Zenon

LEMMA RollbackSteady ==
  ASSUME EngineTypes, Steady, RollbackCmd
  PROVE  Anchored' /\ LabelsPlaced' /\ Findable'
<1>1. Fresh /\ cons' = ParentOf(cons) /\ next' = Len(cons) /\ Len(el.head) >= Len(cons)
  BY Zenon DEF RollbackCmd
<1>2. cons \in Seq(Inputs) /\ cons \in Seq(Cells) /\ Runs(el.head, cons) /\ el.head \in Seq(Cells) /\ el \in ELs
      /\ el.head \in ELBlocks
  BY ChainTypes, Zenon DEF Steady, Anchored, EngineTypes, ELBlocks
<1>3. cons # <<>> /\ Len(cons) \in Nat /\ Len(cons) - 1 \in Nat /\ Len(cons) - 1 <= Len(el.head)
  BY Fields DEF RollbackCmd, Rollbackable, EngineTypes
<1>4. cons' \in Seq(Inputs) /\ Len(cons') = Len(cons) - 1
  BY <1>1, <1>2, <1>3, ParentOfs, Zenon
<1>5. next' \in Nat /\ ~ next' <= Len(cons')
  BY <1>1, <1>3, <1>4
<1>6. \/ el'.head = el.head
      \/ el'.head = SubSeq(el.head, 1, Len(cons) - 1)
  <2>1. SubSeq(el.head, 1, Len(cons) - 1) \in ELBlocks
    BY <1>2, <1>3, Prefixes, Zenon DEF ELBlocks
  <2>2. \/ el' = [el EXCEPT !.head = el.head]
        \/ el' = [el EXCEPT !.head = SubSeq(el.head, 1, Len(cons) - 1)]
    BY Zenon DEF RollbackCmd
  <2> QED BY <2>1, <2>2, <1>2, ElStep, Zenon
<1>7. Runs(el'.head, cons) /\ el'.head \in Seq(Cells) /\ Len(el'.head) >= Len(cons) - 1
  <2>1. /\ Runs(SubSeq(el.head, 1, Len(cons) - 1), cons) /\ SubSeq(el.head, 1, Len(cons) - 1) \in Seq(Cells)
        /\ Len(SubSeq(el.head, 1, Len(cons) - 1)) = Len(cons) - 1
    BY <1>2, <1>3, RunsPrefix, Prefixes, Zenon
  <2>2. Len(cons) - 1 >= Len(cons) - 1 /\ Len(el.head) >= Len(cons) - 1
    BY <1>1, <1>3, ChainTypes
  <2> QED BY <2>1, <2>2, <1>2, <1>6, Zenon
<1>8. Runs(el'.head, cons')
  BY <1>1, <1>2, <1>3, <1>7, RunsShorter, Zenon
<1>9. Len(el'.head) >= next' - 1
  BY <1>1, <1>7, Zenon
<1> QED BY <1>1, <1>4, <1>5, <1>7, <1>8, <1>9, FreshSteady, Zenon

LEMMA RestartELSteady ==
  ASSUME EngineTypes, Steady, RestartEL
  PROVE  Anchored' /\ LabelsPlaced' /\ Findable'
<1>1. UNCHANGED <<cl, hashes, cons, next, cand, exec, final>>
  BY Zenon DEF RestartEL
<1>2. Input' = Input
  BY <1>1, Zenon DEF Input
<1>3. PICK n \in {Len(el.head), Len(el.head) - 1} :
        n >= 0 /\ el' = [head |-> SubSeq(el.head, 1, n), known |-> {SubSeq(el.head, 1, k) : k \in 0..n}, payloads |-> {}]
  BY Zenon DEF RestartEL
<1>4. n \in Nat /\ n <= Len(el.head)
  BY <1>3, ChainTypes
<1>5. el'.head = SubSeq(el.head, 1, n) /\ el'.payloads = {}
  BY <1>3
<1>6. Len(el'.head) = n /\ \A i \in 1..n : el'.head[i] = el.head[i]
  <2>1. Len(SubSeq(el.head, 1, n)) = n /\ \A i \in 1..n : SubSeq(el.head, 1, n)[i] = el.head[i]
    BY <1>4, ChainTypes, Prefixes
  <2> QED BY <1>5, <2>1, Zenon
<1>7. Runs(el'.head, cons)
  BY <1>4, <1>5, ChainTypes, RunsPrefix, Zenon DEF Steady, Anchored
<1>8. /\ \A m \in Nat : Len(el.head) <= m => Len(el'.head) <= m
      /\ Len(el'.head) >= next => Len(el.head) >= next /\ el'.head[next] = el.head[next]
  BY <1>4, <1>6, ChainTypes
<1>9. Anchored'
  BY <1>1, <1>2, <1>7, <1>8, ChainTypes, Zenon DEF Steady, Anchored
<1>10. LabelsPlaced'
  BY <1>1, Zenon DEF Steady, LabelsPlaced
<1>11. Findable'
  BY <1>1, <1>2, <1>5, <1>8, Zenon DEF Steady, Findable
<1> QED BY <1>9, <1>10, <1>11, Zenon

(* Between executions the input may be replaced and records pruned.        *)
LEMMA IdleSteady ==
  ASSUME EngineTypes, Steady, UNCHANGED <<el, cl, hashes, cons, next, exec, final>>, exec.pc = "idle" \/ cand' = cand
  PROVE  Anchored' /\ LabelsPlaced' /\ Findable'
<1>1. exec.pc = "idle" \/ Input' = Input
  BY Zenon DEF Input
<1>2. Anchored'
  BY <1>1, Zenon DEF Steady, Anchored
<1>3. LabelsPlaced'
  BY Zenon DEF Steady, LabelsPlaced
<1>4. Findable'
  BY <1>1, Zenon DEF Steady, Findable
<1> QED BY <1>2, <1>3, <1>4, Zenon

LEMMA SteadyStep ==
  ASSUME EngineTypes, Steady, [GNext]_gVars, Undisturbed'
  PROVE  Anchored' /\ LabelsPlaced' /\ Findable'
<1>1. CASE Decide
  BY <1>1, IdleSteady, Zenon DEF Decide
<1>2. CASE Reconcile
  BY <1>2, ReconcileSteady, Zenon DEF Undisturbed, Own
<1>3. CASE Return
  BY <1>3, ReplaySteady, CommitSteady, Zenon
<1>4. CASE PruneExec
  BY <1>4, IdleSteady, Zenon DEF PruneExec
<1>5. CASE UNCHANGED gVars
  BY <1>5, IdleSteady, Zenon DEF gVars
<1> QED
  BY <1>1, <1>2, <1>3, <1>4, <1>5, SendHeadSteady, BuildSteady, PayloadSteady, SendFinalSteady, SavePromotedSteady,
     FinalLookupSteady, FinalLabelSteady, FinalSendSteady, RestartNodeSteady, RestartELSteady, RollbackSteady, Zenon
  DEF GNext

LEMMA LabelsInit ==
  ASSUME GInit
  PROVE  Anchored /\ LabelsPlaced /\ Findable
<1>1. /\ el.head = Genesis /\ el.payloads = {} /\ cl.head = Genesis /\ cl.safe = Genesis /\ cl.fin = Genesis
      /\ cons = <<>> /\ next = 1 /\ exec.pc = "idle" /\ final.pc = "idle"
      /\ \A h \in 0..MaxELChain : hashes[h] = NoBlock
  BY Zenon DEF GInit, IdleExec, IdleFinal
<1>2. cons \in Seq(Inputs) /\ Runs(Genesis, cons) /\ ~ next <= Len(cons)
  BY <1>1 DEF Runs, Genesis
<1>3. Ancestor(Genesis, cons) /\ Len(Genesis) <= next /\ Len(Genesis) <= Len(Genesis)
  BY <1>1 DEF Ancestor, Genesis
<1>4. Anchored
  BY <1>1, <1>2, Zenon DEF Anchored
<1>5. LabelsPlaced
  BY <1>1, <1>3, Zenon DEF LabelsPlaced, Placed
<1>6. Findable
  BY <1>1, Zenon DEF Findable
<1> QED BY <1>4, <1>5, <1>6, Zenon

LEMMA PlacedOnHead ==
  ASSUME EngineTypes, Anchored, LabelsPlaced, cl.head # Genesis
  PROVE  /\ Ancestor(cl.safe, cl.head) /\ Ancestor(cl.fin, cl.head)
         /\ Ancestor(cl.fin, cl.safe) \/ Len(cl.safe) \in 1..(FinalizedBlockLag - SafeBlockLag)
<1>1. /\ Ancestor(cl.safe, cons) /\ Len(cl.safe) <= Len(cl.head) /\ Ancestor(cl.fin, cons) /\ Len(cl.fin) <= Len(cl.head)
      /\ Runs(cl.head, cons) /\ (Len(cl.fin) <= Len(cl.safe) \/ Len(cl.safe) \in 1..(FinalizedBlockLag - SafeBlockLag))
  BY Zenon DEF Anchored, LabelsPlaced, Placed
<1>2. cl.safe \in Seq(Cells) /\ cl.fin \in Seq(Cells) /\ cl.head \in Seq(Cells) /\ cons \in Seq(Cells)
  BY ChainTypes, Zenon
<1>3. Ancestor(cl.safe, cl.head) /\ Ancestor(cl.fin, cl.head)
  BY <1>1, <1>2, AncestorRuns, Zenon
<1>4. Len(cl.fin) <= Len(cl.safe) => Ancestor(cl.fin, cl.safe)
  BY <1>1, <1>2, AncestorOrder, Zenon
<1> QED BY <1>1, <1>3, <1>4, Zenon

-----------------------------------------------------------------------------
(* What ExecuteTxs returns is the execution of exactly the transactions of *)
(* the block on the committed chain, unless the EL had a block of the same *)
(* second at the height or a payload on a parent rolled back since         *)
(* (execution.go reconcileExecutionAtHeight).                              *)
THEOREM ResultsAreExact == GSpec => []ResultExact
<1>1. GInv /\ [GNext]_gVars => GInv'
  BY TypesStep, OwnStep, FaithfulStep, Zenon DEF GInv
<1>2. GInv => ResultExact
  BY Zenon DEF GInv, Own, Working, ResultExact
<1> QED BY EngineInit, <1>1, <1>2, PTL DEF GSpec

(* Safe and finalized are ancestors of the head the client tracks, and     *)
(* finalized is one of safe but in the first blocks, while ExecuteTxs and  *)
(* SetFinal move the labels in turn, unless a forkchoice was overtaken or  *)
(* the cache kept another attempt (execution.go setFinalWithHeight).       *)
THEOREM LabelsStayOnChain == GSpec => []LabelsOnChain
<1>1. GInit => LInv
  BY EngineInit, LabelsInit, Zenon DEF LInv
<1>2. LInv /\ [GNext]_gVars => LInv'
  <2> SUFFICES ASSUME LInv, [GNext]_gVars PROVE LInv'
    BY Zenon
  <2>1. GInv'
    BY TypesStep, OwnStep, FaithfulStep, Zenon DEF LInv, GInv
  <2>2. ASSUME Undisturbed' PROVE Anchored' /\ LabelsPlaced' /\ Findable'
    <3>1. Undisturbed /\ Own
      BY <2>2, OwnStep, Zenon DEF LInv, GInv, Undisturbed, Own
    <3>2. EngineTypes /\ Steady
      BY <3>1, Zenon DEF LInv, GInv, Steady
    <3> QED BY <2>2, <3>2, SteadyStep, Zenon
  <2> QED BY <2>1, <2>2, Zenon DEF LInv
<1>3. LInv => LabelsOnChain
  BY PlacedOnHead, Zenon DEF LInv, GInv, LabelsOnChain
<1> QED BY <1>1, <1>2, <1>3, PTL DEF GSpec
=============================================================================
