---------------------------- MODULE DASubmission ----------------------------
(***************************************************************************)
(* An aggregator posting its blocks to the DA layer                        *)
(* (block/internal/submitting, block/internal/cache): the executor adds    *)
(* blocks to the store, one loop starts a goroutine for headers and one    *)
(* for data, each submits a window of pending items, retries, records what *)
(* was accepted, and the inclusion loop (DAInclusion) finalizes the blocks *)
(* found on DA.  Crashes, stops, failing and half-successful submissions   *)
(* are part of it.                                                         *)
(*                                                                         *)
(* Blocks are named by their heights.  A scenario is a record              *)
(*   strategy  the batching strategy,                                      *)
(*   stored    the blocks already in the store,                            *)
(*   foreign   the heights whose header another key signed,                *)
(*   top       the height the chain reaches (a bound),                     *)
(*   faults, crashes   how many failing calls and restarts may happen.     *)
(***************************************************************************)
EXTENDS DAInclusion, FiniteSetsExt

CONSTANTS
  SubScenarios,          \* see above
  EmptyBlocks,           \* the heights of blocks without transactions
  Size,                  \* kind -> height -> marshalled size
  MaxBlobBytes,          \* largest submission
  Delay,                 \* BatchMaxDelay, in ticks of the model's clock
  MaxSubmitAttempts,     \* as configured
  Limit, CheckInterval   \* MaxPendingHeadersAndData, pendingCheckInterval

ASSUME DASubmissionAssumption ==
  /\ MaxSubmitAttempts \in Nat \ {0} /\ CheckInterval \in Nat \ {0}
  /\ Limit \in Nat /\ Delay \in Nat
  /\ \A i \in DOMAIN SubScenarios :
       {SubScenarios[i].stored, SubScenarios[i].top} \subseteq 0..MaxHeight

VARIABLES
  scn,                   \* the number of the scenario
  height,                \* height of the store
  counter,               \* pendingCheckCounter, modulo CheckInterval
  last, lastDisk,        \* last submitted height by kind, in memory and on disk
  sub,                   \* the submission goroutine of each kind
  adv,                   \* the height advancePastEmptyData is about to persist, or 0
  since,                 \* ticks since the last submission, by kind
  env, envLast, resigned,\* envelope cache, lastSubmittedHeight; history
  posted,                \* what is on DA: [k, h, da]
  onDA,                  \* the DA layer's height
  sUp, halted,           \* process up; stopped by a critical error
  sFaults, sCrashes,     \* counts against the scenario
  crashed                \* history: a crash has happened

subVars == <<scn, height, counter, last, lastDisk, sub, adv, since, env, envLast, resigned,
             posted, onDA, sUp, halted, sFaults, sCrashes, crashed>>
dasVars == <<subVars, inclVars>>

Kinds == {"header", "data"}
Sc == SubScenarios[scn]
Blocks == 1..MaxHeight
IsEmpty(h) == h \in EmptyBlocks
CacheKey(k, h) == <<k, h>>
IdleSub == [pc |-> "idle", items |-> {}, got |-> {}, marked |-> {}, at |-> 0, try |-> 0,
            backoff |-> 0, from |-> 0]

\* Items are submitted in height order: the first n of them.
FirstOf(items, n) == {h \in items : Cardinality({x \in items : x <= h}) <= n}
TotalSize(k, items) == MapThenSumSet(LAMBDA h : Size[k][h], items)

------------------------------------------------------------------------------
SubInit ==
  /\ scn \in DOMAIN SubScenarios
  /\ height = Sc.stored /\ counter = 0
  /\ last = [k \in Kinds |-> 0] /\ lastDisk = [k \in Kinds |-> 0]
  /\ sub = [k \in Kinds |-> IdleSub] /\ adv = 0
  /\ since = [k \in Kinds |-> 0]
  /\ env = {} /\ envLast = 0 /\ resigned = FALSE
  /\ posted = {} /\ onDA = 0
  /\ sUp = TRUE /\ halted = FALSE /\ sFaults = 0 /\ sCrashes = 0 /\ crashed = FALSE
  /\ InclusionInit

Running == sUp /\ ~halted
numPending(k) == height - last[k]

\* The height advancePastEmptyData reaches in one call.
PastEmptyData ==
  Max({last["data"]} \cup {h \in (last["data"] + 1)..height : \A x \in (last["data"] + 1)..h : IsEmpty(x)})

PendingLimitReached(dataAt) ==
  height - last["header"] >= Limit \/ height - dataAt >= Limit

\* ProduceBlock looks at the limit only every CheckInterval calls when the
\* limit is larger than that; a call that is refused counts too.
Produce ==
  /\ Running /\ height < Sc.top
  /\ LET check == Limit > 0 /\ (Limit <= CheckInterval \/ (counter + 1) % CheckInterval = 0)
     IN /\ counter' = IF Limit > 0 THEN (counter + 1) % CheckInterval ELSE counter
        /\ IF check
             THEN /\ last' = [last EXCEPT !["data"] = PastEmptyData]
                  /\ lastDisk' = IF PastEmptyData > last["data"]
                                   THEN [lastDisk EXCEPT !["data"] = PastEmptyData] ELSE lastDisk
             ELSE UNCHANGED <<last, lastDisk>>
        /\ height' = IF check /\ PendingLimitReached(PastEmptyData) THEN height ELSE height + 1
  /\ UNCHANGED <<scn, sub, adv, since, env, envLast, resigned, posted, onDA, sUp,
                 halted, sFaults, sCrashes, crashed, inclVars>>

\* Time passes, for the strategies that look at it.
Tick ==
  /\ Running /\ Sc.strategy \in {"time", "adaptive"} /\ \E k \in Kinds : since[k] < Delay
  /\ since' = [k \in Kinds |-> Lesser(Delay, since[k] + 1)]
  /\ UNCHANGED <<scn, height, counter, last, lastDisk, sub, adv, env, envLast, resigned,
                 posted, onDA, sUp, halted, sFaults, sCrashes, crashed, inclVars>>

\* NumPendingData of the submission loop: the watermark is raised past the next
\* empty block in memory, and written afterwards.
AdvanceMemory ==
  /\ Running /\ adv = 0
  /\ last["data"] < height /\ IsEmpty(last["data"] + 1)
  /\ last' = [last EXCEPT !["data"] = @ + 1]
  /\ adv' = last["data"] + 1
  /\ UNCHANGED <<scn, height, counter, lastDisk, sub, since, env, envLast, resigned, posted, onDA, sUp, halted, sFaults, sCrashes, crashed, inclVars>>
AdvanceDisk ==
  /\ Running /\ adv # 0
  /\ lastDisk' = [lastDisk EXCEPT !["data"] = adv]
  /\ adv' = 0
  /\ UNCHANGED <<scn, height, counter, last, sub, since, env, envLast, resigned, posted, onDA, sUp, halted, sFaults, sCrashes, crashed, inclVars>>

------------------------------------------------------------------------------
\* getPending: every stored height above the watermark.
getPending(k) == (last[k] + 1)..height

\* GetPendingHeaders; GetPendingData leaves empty blocks out.
Pending(k) == IF k = "header" THEN getPending(k) ELSE {h \in getPending(k) : ~IsEmpty(h)}

\* mutant: the delay must be exceeded.
ShouldSubmit_Exceeded(k, items) ==
  /\ items # {}
  /\ Sc.strategy = "immediate" \/ since[k] > Delay

\* The four strategies; thresholds of 80% of the largest blob, one item at least.
ShouldSubmit(k, items) ==
  LET full == 10 * TotalSize(k, items) >= 8 * MaxBlobBytes
      late == since[k] >= Delay
  IN /\ items # {}
     /\ CASE Sc.strategy = "immediate" -> TRUE
          [] Sc.strategy = "size" -> full
          [] Sc.strategy = "time" -> late
          [] Sc.strategy = "adaptive" -> full \/ late

\* limitBatchBySize: the longest prefix within the limit, empty when the first
\* item alone is too large.
limitBatchBySize(k, items) ==
  UNION {p \in {FirstOf(items, n) : n \in 1..Cardinality(items)} : TotalSize(k, p) <= MaxBlobBytes}

\* getCachedEnvelope: a cached envelope counts while its height is not submitted.
Cached(h) == h > envLast /\ h \in env

\* createDAEnvelopes signs what the cache does not hold.
ToSign(items) == {h \in items : ~Cached(h)}

\* signAndCacheEnvelope refuses a header whose signer is not this node's key,
\* and the ones after it stay unsigned.
Signable(items) == {h \in items : \A x \in items : x <= h => x \notin Sc.foreign}

\* signData signs the blocks that have transactions.
SignedData(items) == {h \in items : ~IsEmpty(h)}

\* One turn of the loop for a kind: TryLock, fetch, decide, sign, cut to size.
Begin(k) ==
  /\ Running /\ adv = 0 /\ sub[k].pc = "idle" /\ numPending(k) > 0
  /\ \E items \in {Pending(k)} :
      /\ ShouldSubmit(k, items)
      /\ LET batch == limitBatchBySize(k, IF k = "data" THEN SignedData(items) ELSE items)
             mine == Signable(ToSign(items))
             signed == k = "data" \/ mine = ToSign(items)
         IN /\ env' = IF k = "header" THEN env \cup {h \in mine : h > envLast} ELSE env
            /\ resigned' = (resigned \/ (k = "header" /\ mine \cap env # {}))
            /\ halted' = (signed /\ batch = {})
            /\ sub' = IF signed /\ batch # {}
                        THEN [sub EXCEPT ![k] = [IdleSub EXCEPT !.pc = "try", !.items = batch]]
                        ELSE sub
  /\ UNCHANGED <<scn, height, counter, last, lastDisk, adv, since, envLast, posted, onDA, sUp, sFaults, sCrashes, crashed, inclVars>>

\* retryState.Next with backoffs of 1 (MinBackoff) to 4 (MaxBackoff).
NextBackoff(reason, b) ==
  CASE reason = "success" -> 1
    [] reason = "mempool" -> 4
    [] OTHER -> IF b = 0 THEN 1 ELSE Lesser(4, 2 * b)

\* The retry loop goes on with items, or gives up until the loop comes again.
Retried(k, items, reason) ==
  LET s == sub[k]
  IN /\ sub' = [sub EXCEPT ![k] = IF s.try + 1 < MaxSubmitAttempts
                  THEN [IdleSub EXCEPT !.pc = "try", !.items = items, !.try = s.try + 1,
                                       !.backoff = NextBackoff(reason, s.backoff)]
                  ELSE IdleSub]
     /\ UNCHANGED since

Lands(k, items) ==
  /\ posted' = posted \cup {[k |-> k, h |-> h, da |-> onDA + 1] : h \in items}
  /\ onDA' = onDA + 1

MayFail == sFaults < Sc.faults /\ sFaults' = sFaults + 1

\* DA accepted got, at the height at.
Marking(s, got, at) == [s EXCEPT !.pc = "mark", !.got = got, !.at = at]

\* DA accepts the window, or with a fault only a prefix of it.
Submit(k) ==
  /\ Running /\ sub[k].pc = "try"
  /\ \/ Lands(k, sub[k].items) /\ UNCHANGED sFaults
        /\ sub' = [sub EXCEPT ![k] = Marking(@, sub[k].items, onDA + 1)]
     \/ \E n \in 1..(Cardinality(sub[k].items) - 1) :
          /\ MayFail /\ Lands(k, FirstOf(sub[k].items, n))
          /\ sub' = [sub EXCEPT ![k] = Marking(@, FirstOf(sub[k].items, n), onDA + 1)]
  /\ UNCHANGED <<scn, height, counter, last, lastDisk, adv, since, env, envLast, resigned,
                 sUp, halted, sCrashes, crashed, inclVars>>

\* The call fails, or succeeds and is reported as failed, and is retried.
SubmitFails(k) ==
  /\ Running /\ sub[k].pc = "try" /\ MayFail
  /\ \/ UNCHANGED <<posted, onDA>>
     \/ Lands(k, sub[k].items)
  /\ \E reason \in {"failure", "mempool"} : Retried(k, sub[k].items, reason)
  /\ UNCHANGED <<scn, height, counter, last, lastDisk, adv, env, envLast, resigned, sUp, halted, sCrashes, crashed, inclVars>>

\* DA finds the submission too big: half of it is tried, a single item halts.
SubmitTooBig(k) ==
  /\ Running /\ sub[k].pc = "try" /\ MayFail
  /\ LET n == Cardinality(sub[k].items)
     IN IF n = 1
          THEN halted' = TRUE /\ sub' = [sub EXCEPT ![k] = IdleSub] /\ UNCHANGED since
          ELSE Retried(k, FirstOf(sub[k].items, n \div 2), "too_big") /\ UNCHANGED halted
  /\ UNCHANGED <<scn, height, counter, last, lastDisk, adv, env, envLast, resigned, posted, onDA, sUp, sCrashes, crashed, inclVars>>

------------------------------------------------------------------------------
\* mutant: the whole window is taken for accepted.
Accepted_Window(s) == s.items

\* One more item is marked.
Marked(s, h) == [s EXCEPT !.marked = @ \cup {h}]

\* All marked, the goroutine reads the watermark it is about to compare.
Swapping(s, n) == [s EXCEPT !.pc = "cas", !.from = n, !.marked = {}]

\* The first SubmittedCount items of the window.
Accepted(s) == s.got

SetHeaderDAIncluded(h, at) == setDAIncluded(hc, CacheKey("header", h), at, h)
SetDataDAIncluded(h, at) == setDAIncluded(dc, CacheKey("data", h), at, h)

\* postSubmit: the accepted items are marked included, one after the other; the
\* inclusion loop may read the caches between two marks.  AppendDAHint skips
\* heights the store holds, as all of these are, and changes nothing (P2PStore).
MarkIncluded(k) ==
  LET s == sub[k]
      left == Accepted(s) \ s.marked
      h == Min(left)
  IN /\ Running /\ s.pc = "mark"
     /\ hc' = IF k = "header" THEN SetHeaderDAIncluded(h, s.at) ELSE hc
     /\ dc' = IF k = "data" THEN SetDataDAIncluded(h, s.at) ELSE dc
     /\ sub' = IF left = {h}
                 THEN [sub EXCEPT ![k] = Swapping(@, last[k])]
                 ELSE [sub EXCEPT ![k] = Marked(@, h)]
     /\ UNCHANGED <<scn, height, counter, last, lastDisk, adv, since, env, envLast, resigned,
                    posted, onDA, sUp, halted, sFaults, sCrashes, crashed,
                    snap, incl, inclDisk, toDA, genesisDA, ipc, final>>

\* mutant: the watermark is raised to the end of the window.
NewLast_Window(s) == Max(s.items)

NewLast(s) == Max(s.got)

\* What follows a recorded success: the rest of the window, or the end.
Continued(k) ==
  LET rest == sub[k].items \ sub[k].got
  IN IF rest # {} THEN Retried(k, rest, "success")
     ELSE /\ sub' = [sub EXCEPT ![k] = IdleSub]
          /\ since' = [since EXCEPT ![k] = 0]

\* setLastSubmittedHeight: the value read with the marks is compared and
\* swapped; when another goroutine came first the update is dropped.
RaiseLast(k) ==
  LET s == sub[k]
      won == NewLast(s) > s.from /\ last[k] = s.from
  IN /\ Running /\ s.pc = "cas"
     /\ last' = IF won THEN [last EXCEPT ![k] = NewLast(s)] ELSE last
     /\ envLast' = IF k = "header" THEN NewLast(s) ELSE envLast
     /\ IF won THEN sub' = [sub EXCEPT ![k] = [@ EXCEPT !.pc = "write"]] /\ UNCHANGED since
        ELSE Continued(k)
     /\ UNCHANGED <<scn, height, counter, lastDisk, adv, env, resigned, posted, onDA,
                    sUp, halted, sFaults, sCrashes, crashed, inclVars>>

\* A failed write of the watermark is only logged.
WriteLast(k) ==
  /\ Running /\ sub[k].pc = "write"
  /\ \/ lastDisk' = [lastDisk EXCEPT ![k] = NewLast(sub[k])] /\ UNCHANGED sFaults
     \/ MayFail /\ UNCHANGED lastDisk
  /\ Continued(k)
  /\ UNCHANGED <<scn, height, counter, last, adv, env, envLast, resigned, posted, onDA,
                 sUp, halted, sCrashes, crashed, inclVars>>

------------------------------------------------------------------------------
\* The inclusion loop; finalizing may fail.
IncludeBlocks ==
  /\ Running
  /\ \/ InclCheck(height, IsEmpty(incl + 1)) /\ UNCHANGED sFaults
     \/ InclMap(IsEmpty(incl + 1)) /\ UNCHANGED sFaults
     \/ InclFinal(TRUE) /\ UNCHANGED sFaults
     \/ InclFinal(FALSE) /\ MayFail
     \/ InclPersist /\ UNCHANGED sFaults
  /\ UNCHANGED <<scn, height, counter, last, lastDisk, sub, adv, since, env, envLast,
                 resigned, posted, onDA, sUp, halted, sCrashes, crashed>>

ForgetMemory ==
  /\ sUp' = FALSE /\ sCrashes' = sCrashes + 1
  /\ sub' = [k \in Kinds |-> IdleSub] /\ adv' = 0 /\ counter' = 0
  /\ since' = [k \in Kinds |-> 0] /\ env' = {} /\ envLast' = 0
  /\ last' = lastDisk
  /\ hc' = NewCache /\ dc' = NewCache /\ incl' = inclDisk /\ ipc' = "idle"
  /\ UNCHANGED <<scn, height, lastDisk, resigned, posted, onDA, halted, sFaults,
                 inclDisk, toDA, genesisDA, final>>

CrashSub ==
  /\ sUp /\ sCrashes < Sc.crashes
  /\ ForgetMemory /\ crashed' = TRUE /\ UNCHANGED snap

\* Stop cancels the goroutines where they are and saves the caches.
StopSub ==
  /\ sUp /\ sCrashes < Sc.crashes
  /\ ForgetMemory /\ SaveToStore /\ UNCHANGED crashed

\* A fresh process: watermarks and caches from disk.
StartSub ==
  /\ ~sUp /\ sUp' = TRUE
  /\ InclRestart(RestoredCaches, snap)
  /\ UNCHANGED <<scn, height, counter, last, lastDisk, sub, adv, since, env, envLast,
                 resigned, posted, onDA, halted, sFaults, sCrashes, crashed>>

Work(k) == Begin(k) \/ Submit(k) \/ MarkIncluded(k) \/ RaiseLast(k) \/ WriteLast(k)
Loop == AdvanceMemory \/ AdvanceDisk

SubNext ==
  \/ Produce \/ Tick \/ Loop
  \/ \E k \in Kinds : Work(k) \/ SubmitFails(k) \/ SubmitTooBig(k)
  \/ IncludeBlocks \/ CrashSub \/ StopSub \/ StartSub

\* The loops, the two goroutines and the clock are scheduled; a submission is
\* not refused for ever (failures are bounded by the scenario).
SubSpec ==
  /\ SubInit /\ [][SubNext]_dasVars
  /\ WF_dasVars(Produce) /\ WF_dasVars(Tick) /\ WF_dasVars(Loop) /\ WF_dasVars(StartSub)
  /\ \A k \in Kinds : WF_dasVars(Work(k))
  /\ WF_dasVars(IncludeBlocks)
------------------------------------------------------------------------------
OnDA(k, h) == \E p \in posted : p.k = k /\ p.h = h

\* Every variable keeps its type and the backoff its bounds.
SubTypeOK ==
  /\ height \in 0..MaxHeight /\ counter \in 0..(CheckInterval - 1)
  /\ \A k \in Kinds : /\ last[k] \in 0..height /\ lastDisk[k] \in 0..height
                      /\ since[k] \in 0..Delay
                      /\ sub[k].pc \in {"idle", "try", "mark", "cas", "write"}
                      /\ sub[k].backoff \in {0, 1, 2, 4} /\ sub[k].try < MaxSubmitAttempts
                      /\ sub[k].items \subseteq Blocks /\ sub[k].got \subseteq sub[k].items

\* Everything up to a submission watermark, in memory or on disk, is on the DA
\* layer or has nothing to post: partial successes, halved windows, retries,
\* races on the watermark and restarts skip no block.
WatermarkHonest ==
  \A k \in Kinds : \A h \in 1..Max({last[k], lastDisk[k]}) :
    OnDA(k, h) \/ (k = "data" /\ IsEmpty(h))

\* An inclusion mark and the DA heights recorded for a final block
\* name a DA height at which the item really is.
MarksTruthful ==
  /\ \A h \in Blocks, k \in Kinds :
       LET at == getDAIncludedByHeight(IF k = "header" THEN hc ELSE dc, h)
       IN at # 0 => [k |-> k, h |-> h, da |-> at] \in posted
  /\ \A h \in 1..final :
       /\ [k |-> "header", h |-> h, da |-> toDA[h][1]] \in posted
       /\ IsEmpty(h) \/ [k |-> "data", h |-> h, da |-> toDA[h][2]] \in posted

\* A retried window reuses the envelopes it signed: no header is signed twice
\* for DA in the life of a process.
EnvelopeSignedOnce == ~resigned

\* Block production pauses at the limit of pending headers and data: in a process
\* that is not restarted (a restart may return to an older watermark) no more
\* blocks than that wait for DA.
PendingBounded == sCrashes = 0 => height - last["header"] <= Max({Limit, Sc.stored})

\* Every block is posted and finalized in the end, whatever fails, with a graceful
\* restart in between; not promised with the size strategy, which may wait for
\* more, after a crash, or for headers of another key.
EventuallySubmitted ==
  <>[](Sc.strategy # "size" /\ Sc.foreign = {} => final = Sc.top \/ halted \/ crashed)

=============================================================================
