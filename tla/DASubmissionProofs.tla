------------------------- MODULE DASubmissionProofs -------------------------
(***************************************************************************)
(* Proofs about the submission of blocks to the DA layer (DASubmission),   *)
(* for any scenarios, sizes, strategies, limits and numbers of faults and  *)
(* restarts: no watermark passes a block that is not on DA, and no         *)
(* inclusion mark and no DA height of a final block is wrong.              *)
(*                                                                         *)
(* The predicates below take the set p of what is on DA and the height top *)
(* of the store as parameters; both only grow.                             *)
(***************************************************************************)
EXTENDS DASubmission, TLAPS

(* A block a kind owes nothing for, and a height up to which that is so.   *)
Settled(p, k, h) == (\E x \in p : x.k = k /\ x.h = h) \/ (k = "data" /\ IsEmpty(h))
SettledTo(p, top, k, n) == n \in 0..top /\ \A h \in 1..n : Settled(p, k, h)

(* The beginning of a window.                                              *)
Prefix(f, items) ==
  /\ f \subseteq items
  /\ \A g \in f : \A h \in items : h <= g => h \in f

(* A window leaves out only settled blocks: whatever else is at or below   *)
(* one of its items is in it.                                              *)
Window(p, top, k, items) ==
  /\ items \subseteq 1..top
  /\ \A i \in items : \A h \in 1..i : h \in items \/ Settled(p, k, h)

(* What DA accepted is the beginning of the window, at the height reported. *)
TakenByDA(p, k, s) ==
  /\ s.got # {} /\ Prefix(s.got, s.items)
  /\ \A g \in s.got : [k |-> k, h |-> g, da |-> s.at] \in p

(* A goroutine at work; while it marks, there is an item left to mark.     *)
Working(p, top, k, s) ==
  /\ s.got \subseteq s.items
  /\ s.pc # "idle" => s.items # {}
  /\ Window(p, top, k, s.items)
  /\ s.pc \in {"mark", "cas", "write"} => TakenByDA(p, k, s)
  /\ s.pc = "mark" => s.marked \subseteq s.got /\ s.marked # s.got
  /\ s.pc # "mark" => s.marked = {}

(* A cache of a kind: the hash registered for a height is a key of that    *)
(* height, and an inclusion mark names a DA height that holds the item.    *)
IsCache(c) ==
  c = [hashes |-> c.hashes, daIncluded |-> c.daIncluded,
       hashByHeight |-> c.hashByHeight, maxDAHeight |-> c.maxDAHeight]
TrueCache(p, k, c) ==
  /\ IsCache(c)
  /\ \A h \in DOMAIN c.hashByHeight : c.hashByHeight[h][2] = h
  /\ \A x \in DOMAIN c.daIncluded :
       [k |-> k, h |-> x[2], da |-> c.daIncluded[x]] \in p

(* The entries of a snapshot, and the DA heights recorded for a block.     *)
TrueSnapshot(p, k, entries) ==
  \A e \in entries : [k |-> k, h |-> e[1], da |-> e[2]] \in p
TrueRecord(p, h, at) ==
  /\ [k |-> "header", h |-> h, da |-> at[1]] \in p
  /\ IsEmpty(h) \/ [k |-> "data", h |-> h, da |-> at[2]] \in p

SubRecords == [pc : {"idle", "try", "mark", "cas", "write"}, items : SUBSET Nat,
               got : SUBSET Nat, marked : SUBSET Nat, at : Nat,
               try : 0..(MaxSubmitAttempts - 1), backoff : {0, 1, 2, 4}, from : Nat]

(* The goroutines' records, counters and clocks.                           *)
SubShape ==
  /\ scn \in DOMAIN SubScenarios /\ height \in 0..MaxHeight
  /\ counter \in 0..(CheckInterval - 1) /\ onDA \in Nat
  /\ last \in [Kinds -> Nat] /\ lastDisk \in [Kinds -> Nat]
  /\ since \in [Kinds -> 0..Delay]
  /\ sub \in [Kinds -> SubRecords]

(* What a watermark covers, in memory, on disk and on its way there.       *)
Watermarks ==
  /\ \A k \in Kinds : /\ SettledTo(posted, height, k, last[k])
                      /\ SettledTo(posted, height, k, lastDisk[k])
  /\ SettledTo(posted, height, "data", adv)

Windows == \A k \in Kinds : Working(posted, height, k, sub[k])

Caches ==
  /\ TrueCache(posted, "header", hc) /\ TrueCache(posted, "data", dc)
  /\ TrueSnapshot(posted, "header", snap.h) /\ TrueSnapshot(posted, "data", snap.d)

(* The inclusion loop: it works on the block after the watermark, which may *)
(* be final already when the process stopped before the watermark was      *)
(* persisted.                                                              *)
LoopControl ==
  /\ incl \in 0..height /\ inclDisk = incl
  /\ final \in {incl, incl + 1} /\ final <= height
  /\ ipc \in {"idle", "map", "final", "persist"}
  /\ ipc # "idle" => incl + 1 <= height
  /\ ipc = "persist" => final = incl + 1

Records ==
  /\ DOMAIN toDA = 1..MaxHeight
  /\ toDA = [h \in 1..MaxHeight |-> <<toDA[h][1], toDA[h][2]>>]
  /\ \A h \in 1..final : TrueRecord(posted, h, toDA[h])
  /\ ipc = "final" => TrueRecord(posted, incl + 1, toDA[incl + 1])

SubInv == SubShape /\ Watermarks /\ Windows /\ Caches /\ LoopControl /\ Records

-----------------------------------------------------------------------------
(* What the step lemmas need of finite sets of heights: a set has a        *)
(* greatest and a least element, and what limitBatchBySize and a halving   *)
(* keep of a window is a beginning of it.  ExtremaHold and BeginningsHold  *)
(* prove both at the end, where the theorems about finite sets come in:    *)
(* with those in scope from the start every leaf would be slower.          *)
Extrema ==
  /\ \A n \in Nat : \A S \in SUBSET (0..n) : S # {} => Max(S) \in S
  /\ \A S \in SUBSET Nat : S # {} => Min(S) \in S
Beginnings ==
  \A top \in Nat : \A items \in SUBSET (1..top) :
    /\ Cardinality(items) \in Nat
    /\ items # {} => Cardinality(items) # 0
    /\ \A n \in Nat : /\ Prefix(FirstOf(items, n), items)
                      /\ items # {} /\ n >= 1 => FirstOf(items, n) # {}
    /\ \A k : Prefix(limitBatchBySize(k, items), items)

LEMMA MaxOf ==
  ASSUME Extrema, NEW n \in Nat, NEW S \in SUBSET (0..n), S # {}
  PROVE  Max(S) \in S
  BY Zenon DEF Extrema

LEMMA MinOf ==
  ASSUME Extrema, NEW S \in SUBSET Nat, S # {}
  PROVE  Min(S) \in S
  BY Zenon DEF Extrema

LEMMA FirstOfPrefix ==
  ASSUME Beginnings, NEW top \in Nat, NEW items \in SUBSET (1..top), NEW n \in Nat
  PROVE  /\ Prefix(FirstOf(items, n), items)
         /\ items # {} /\ n >= 1 => FirstOf(items, n) # {}
  BY Zenon DEF Beginnings

LEMMA LimitPrefix ==
  ASSUME Beginnings, NEW top \in Nat, NEW items \in SUBSET (1..top), NEW k
  PROVE  Prefix(limitBatchBySize(k, items), items)
  BY Zenon DEF Beginnings

LEMMA WindowSize ==
  ASSUME Beginnings, NEW top \in Nat, NEW items \in SUBSET (1..top)
  PROVE  Cardinality(items) \in Nat /\ (items # {} => Cardinality(items) # 0)
  BY Zenon DEF Beginnings

-----------------------------------------------------------------------------
(* What is settled stays so as DA and the chain grow.                      *)
LEMMA SettledGrows ==
  ASSUME NEW p, NEW q, p \subseteq q, NEW top \in Nat, NEW up \in Nat, top <= up,
         NEW k, NEW n, SettledTo(p, top, k, n)
  PROVE  SettledTo(q, up, k, n)
  BY DEF SettledTo, Settled

LEMMA WorkingGrows ==
  ASSUME NEW p, NEW q, p \subseteq q, NEW top \in Nat, NEW up \in Nat, top <= up,
         NEW k, NEW s, Working(p, top, k, s)
  PROVE  Working(q, up, k, s)
<1>1. Window(q, up, k, s.items)
  BY DEF Working, Window, Settled
<1>2. TakenByDA(p, k, s) => TakenByDA(q, k, s)
  BY Zenon DEF TakenByDA
<1> QED BY <1>1, <1>2, Zenon DEF Working

LEMMA MarksGrow ==
  ASSUME NEW p, NEW q, p \subseteq q, NEW k
  PROVE  /\ \A c : TrueCache(p, k, c) => TrueCache(q, k, c)
         /\ \A e : TrueSnapshot(p, k, e) => TrueSnapshot(q, k, e)
         /\ \A h, at : TrueRecord(p, h, at) => TrueRecord(q, h, at)
  BY Zenon DEF TrueCache, TrueSnapshot, TrueRecord

(* A beginning of a window is a window, and so is what it leaves.          *)
LEMMA WindowPrefix ==
  ASSUME NEW p, NEW top \in Nat, NEW k, NEW items, Window(p, top, k, items),
         NEW f, Prefix(f, items)
  PROVE  Window(p, top, k, f)
  BY DEF Window, Prefix

LEMMA WindowRest ==
  ASSUME NEW p, NEW top \in Nat, NEW k, NEW s, Window(p, top, k, s.items),
         TakenByDA(p, k, s)
  PROVE  Window(p, top, k, s.items \ s.got)
<1>1. \A g \in s.got : Settled(p, k, g)
  BY Zenon DEF TakenByDA, Settled
<1> QED BY <1>1, Zenon DEF Window

(* Everything up to the last accepted item is settled.                     *)
LEMMA RaisedSettled ==
  ASSUME Extrema, NEW p, NEW top \in Nat, NEW k, NEW s, Window(p, top, k, s.items),
         TakenByDA(p, k, s)
  PROVE  SettledTo(p, top, k, NewLast(s)) /\ NewLast(s) \in Nat
<1>1. s.got \in SUBSET (0..top) /\ s.got # {} /\ s.got \subseteq s.items
  BY DEF Window, TakenByDA, Prefix
<1>2. NewLast(s) \in s.got /\ NewLast(s) \in 0..top
  BY <1>1, MaxOf, Zenon DEF NewLast
<1>3. \A g \in s.got : Settled(p, k, g)
  BY Zenon DEF TakenByDA, Settled
<1>4. \A h \in 1..NewLast(s) : h \in s.items => h \in s.got
  BY <1>2 DEF TakenByDA, Prefix
<1>5. \A h \in 1..NewLast(s) : h \in s.items \/ Settled(p, k, h)
  BY <1>1, <1>2, Zenon DEF Window
<1> QED BY <1>2, <1>3, <1>4, <1>5 DEF SettledTo

-----------------------------------------------------------------------------
(* The operations of a cache keep its marks true.                          *)
LEMMA CacheUpdate ==
  ASSUME NEW c, IsCache(c), NEW a, NEW b, NEW m
  PROVE  [c EXCEPT !.daIncluded = a, !.hashByHeight = b, !.maxDAHeight = m]
           = [hashes |-> c.hashes, daIncluded |-> a, hashByHeight |-> b, maxDAHeight |-> m]
<1> DEFINE s == c.hashes  d == c.daIncluded  t == c.hashByHeight  n == c.maxDAHeight
<1>1. c = [hashes |-> s, daIncluded |-> d, hashByHeight |-> t, maxDAHeight |-> n]
  BY Zenon DEF IsCache
<1> HIDE DEF s, d, t, n
<1>2. [c EXCEPT !.daIncluded = a, !.hashByHeight = b, !.maxDAHeight = m]
        = [hashes |-> s, daIncluded |-> a, hashByHeight |-> b, maxDAHeight |-> m]
  <2> DEFINE c1 == [c EXCEPT !.daIncluded = a]
             c2 == [c1 EXCEPT !.hashByHeight = b]
  <2>1. c1 = [hashes |-> s, daIncluded |-> a, hashByHeight |-> t, maxDAHeight |-> n]
    BY <1>1
  <2>2. [c EXCEPT !.daIncluded = a, !.hashByHeight = b, !.maxDAHeight = m]
          = [c2 EXCEPT !.maxDAHeight = m]
    BY Zenon
  <2> HIDE DEF c1
  <2>3. c2 = [hashes |-> s, daIncluded |-> a, hashByHeight |-> b, maxDAHeight |-> n]
    BY <2>1
  <2> HIDE DEF c2
  <2> QED BY <2>2, <2>3
<1> QED BY <1>2, Zenon DEF s

LEMMA MaxUpdate ==
  ASSUME NEW c, IsCache(c), NEW m
  PROVE  [c EXCEPT !.maxDAHeight = m]
           = [hashes |-> c.hashes, daIncluded |-> c.daIncluded,
              hashByHeight |-> c.hashByHeight, maxDAHeight |-> m]
<1> DEFINE s == c.hashes  d == c.daIncluded  t == c.hashByHeight  n == c.maxDAHeight
<1>1. c = [hashes |-> s, daIncluded |-> d, hashByHeight |-> t, maxDAHeight |-> n]
  BY Zenon DEF IsCache
<1> HIDE DEF s, d, t, n
<1>2. [c EXCEPT !.maxDAHeight = m]
        = [hashes |-> s, daIncluded |-> d, hashByHeight |-> t, maxDAHeight |-> m]
  BY <1>1
<1> QED BY <1>2, Zenon DEF s, d, t

LEMMA MarkIsTrue ==
  ASSUME NEW p, NEW k, NEW c, TrueCache(p, k, c), NEW h, NEW at,
         [k |-> k, h |-> h, da |-> at] \in p
  PROVE  TrueCache(p, k, setDAIncluded(c, CacheKey(k, h), at, h))
<1> DEFINE hash == CacheKey(k, h)
           d == setDAIncluded(c, hash, at, h)
           prev == IF h \in DOMAIN c.hashByHeight /\ c.hashByHeight[h] # hash
                     THEN Drop(c.daIncluded, c.hashByHeight[h])
                     ELSE c.daIncluded
           m == IF c.maxDAHeight > at THEN c.maxDAHeight ELSE at
<1>1. hash[2] = h
  BY Zenon DEF CacheKey
<1> HIDE DEF hash
<1>2. d = [hashes |-> c.hashes, daIncluded |-> Put(prev, hash, at),
           hashByHeight |-> Put(c.hashByHeight, h, hash), maxDAHeight |-> m]
  <2> DEFINE a == Put(prev, hash, at)  b == Put(c.hashByHeight, h, hash)
  <2>1. d = [c EXCEPT !.daIncluded = a, !.hashByHeight = b, !.maxDAHeight = m]
    BY Zenon DEF setDAIncluded
  <2> HIDE DEF d, a, b, m
  <2>2. d = [hashes |-> c.hashes, daIncluded |-> a, hashByHeight |-> b, maxDAHeight |-> m]
    <3>1. IsCache(c)
      BY Zenon DEF TrueCache
    <3>2. \A x, y, z : [c EXCEPT !.daIncluded = x, !.hashByHeight = y, !.maxDAHeight = z]
                         = [hashes |-> c.hashes, daIncluded |-> x, hashByHeight |-> y, maxDAHeight |-> z]
      BY <3>1, CacheUpdate, Zenon
    <3> QED BY <2>1, <3>2, Zenon
  <2> QED BY <2>2, Zenon DEF a, b
<1>3. \A x \in DOMAIN prev : [k |-> k, h |-> x[2], da |-> prev[x]] \in p
  BY Zenon DEF TrueCache, Drop, Restrict
<1> HIDE DEF d, prev, m
<1>4. \A x \in DOMAIN d.daIncluded : [k |-> k, h |-> x[2], da |-> d.daIncluded[x]] \in p
  BY <1>1, <1>2, <1>3, Zenon DEF Put
<1>5. \A x \in DOMAIN d.hashByHeight : d.hashByHeight[x][2] = x
  BY <1>1, <1>2, Zenon DEF Put, TrueCache
<1>6. TrueCache(p, k, d)
  BY <1>2, <1>4, <1>5, Zenon DEF TrueCache, IsCache
<1> QED BY <1>6, Zenon DEF d, hash

LEMMA DeleteKeepsTrue ==
  ASSUME NEW p, NEW k, NEW c, TrueCache(p, k, c), NEW h
  PROVE  TrueCache(p, k, deleteAllForHeight(c, h))
  BY Zenon DEF TrueCache, IsCache, deleteAllForHeight, Drop, Restrict

LEMMA MaxKeepsTrue ==
  ASSUME NEW p, NEW k, NEW c, TrueCache(p, k, c), NEW at
  PROVE  TrueCache(p, k, setMaxDAHeight(c, at))
  BY MaxUpdate, Zenon DEF TrueCache, setMaxDAHeight, IsCache

LEMMA NewCacheTrue ==
  ASSUME NEW p, NEW k
  PROVE  TrueCache(p, k, NewCache)
  BY Zenon DEF TrueCache, IsCache, NewCache, EmptyMap

LEMMA RestoreIsTrue ==
  ASSUME NEW p, NEW k, NEW entries, TrueSnapshot(p, k, entries), NEW n
  PROVE  TrueCache(p, k, RestoreFromStore(NewCache, entries, n))
<1> DEFINE live == {e \in entries : e[1] > n}
           keys == {HeightPlaceholderKey(e[1]) : e \in live}
           at(h) == (CHOOSE e \in live : e[1] = h)[2]
           d == RestoreFromStore(NewCache, entries, n)
           marks == [x \in DOMAIN NewCache.daIncluded \cup keys |->
                       IF x \in keys THEN at(x[2]) ELSE NewCache.daIncluded[x]]
           hashes == [h \in DOMAIN NewCache.hashByHeight \cup {e[1] : e \in live} |->
                        IF \E e \in live : e[1] = h THEN HeightPlaceholderKey(h)
                        ELSE NewCache.hashByHeight[h]]
<1>1. \E m : d = [NewCache EXCEPT !.daIncluded = marks, !.hashByHeight = hashes, !.maxDAHeight = m]
  BY Zenon DEF RestoreFromStore
<1>2. PICK m : d = [NewCache EXCEPT !.daIncluded = marks, !.hashByHeight = hashes,
                                    !.maxDAHeight = m]
  BY <1>1, Zenon
<1> HIDE DEF d, live, at, marks, hashes
<1>a. IsCache(NewCache)
  BY Zenon DEF NewCache, IsCache
<1>b. d = [hashes |-> NewCache.hashes, daIncluded |-> marks, hashByHeight |-> hashes,
           maxDAHeight |-> m]
  <2>1. \A x, y, z : [NewCache EXCEPT !.daIncluded = x, !.hashByHeight = y, !.maxDAHeight = z]
                       = [hashes |-> NewCache.hashes, daIncluded |-> x, hashByHeight |-> y,
                          maxDAHeight |-> z]
    BY <1>a, CacheUpdate, Zenon
  <2> QED BY <1>2, <2>1, Zenon
<1>c. DOMAIN NewCache.daIncluded = {} /\ DOMAIN NewCache.hashByHeight = {}
  BY Zenon DEF NewCache, EmptyMap
<1>3. \A h : HeightPlaceholderKey(h)[2] = h
  BY Zenon DEF HeightPlaceholderKey
<1>4. \A e \in live : [k |-> k, h |-> e[1], da |-> at(e[1])] \in p
  BY Zenon DEF TrueSnapshot, at, live
<1>5. \A x \in keys : \E e \in live : x[2] = e[1]
  BY <1>3, Zenon
<1>6. \A x \in DOMAIN d.daIncluded : [k |-> k, h |-> x[2], da |-> d.daIncluded[x]] \in p
  BY <1>b, <1>c, <1>4, <1>5, Zenon DEF marks
<1>7. \A h \in DOMAIN d.hashByHeight : d.hashByHeight[h][2] = h
  BY <1>b, <1>c, <1>3 DEF hashes
<1>8. TrueCache(p, k, d)
  BY <1>b, <1>6, <1>7, Zenon DEF TrueCache, IsCache
<1> QED BY <1>8, Zenon DEF d

LEMMA ReadIsTrue ==
  ASSUME NEW p, NEW k, NEW c, TrueCache(p, k, c), NEW h, getDAIncludedByHeight(c, h) # 0
  PROVE  [k |-> k, h |-> h, da |-> getDAIncludedByHeight(c, h)] \in p
  BY Zenon DEF TrueCache, getDAIncludedByHeight

LEMMA SnapshotIsTrue ==
  ASSUME NEW p, NEW k, NEW c, TrueCache(p, k, c)
  PROVE  TrueSnapshot(p, k, persistSnapshot(c))
  BY ReadIsTrue DEF TrueSnapshot, persistSnapshot

-----------------------------------------------------------------------------
(* What a step keeps that leaves the variables of a part alone; DA and the *)
(* chain may grow.                                                         *)
Grows == posted \subseteq posted' /\ height <= height' /\ height' \in 0..MaxHeight

LEMMA Tops ==
  ASSUME SubShape, Grows
  PROVE  height \in Nat /\ height' \in Nat /\ height <= height' /\ posted \subseteq posted'
  BY DAInclusionAssumption DEF SubShape, Grows

LEMMA CachesStay ==
  ASSUME SubInv, Grows, UNCHANGED <<hc, dc, snap>>
  PROVE  Caches'
<1>1. Caches /\ posted \subseteq posted' /\ hc' = hc /\ dc' = dc /\ snap' = snap
  BY Zenon DEF SubInv, Grows
<1> QED BY <1>1, MarksGrow, Zenon DEF Caches

LEMMA LoopStays ==
  ASSUME SubInv, Grows, UNCHANGED <<incl, inclDisk, toDA, ipc, final>>
  PROVE  LoopControl' /\ Records'
<1>1. /\ incl' = incl /\ inclDisk' = inclDisk /\ toDA' = toDA /\ ipc' = ipc /\ final' = final
      /\ LoopControl /\ Records
  BY Zenon DEF SubInv
<1>2. height \in Nat /\ height' \in Nat /\ height <= height'
  BY Tops, Zenon DEF SubInv
<1>3. LoopControl'
  BY <1>1, <1>2 DEF LoopControl
<1>4. Records'
  BY <1>1, MarksGrow, Zenon DEF Records, Grows
<1> QED BY <1>3, <1>4, Zenon

LEMMA WatermarksStay ==
  ASSUME SubInv, Grows, UNCHANGED <<last, lastDisk, adv>>
  PROVE  Watermarks'
<1>1. Watermarks /\ last' = last /\ lastDisk' = lastDisk /\ adv' = adv
  BY Zenon DEF SubInv
<1> QED BY <1>1, Tops, SettledGrows, Zenon DEF Watermarks, SubInv

LEMMA WindowsStay ==
  ASSUME SubInv, Grows, UNCHANGED sub
  PROVE  Windows'
<1>1. Windows /\ sub' = sub
  BY Zenon DEF SubInv
<1> QED BY <1>1, Tops, WorkingGrows, Zenon DEF Windows, SubInv

(* One goroutine moves.                                                    *)
LEMMA OneMoves ==
  ASSUME SubInv, Grows, NEW k \in Kinds, NEW s \in SubRecords, sub' = [sub EXCEPT ![k] = s],
         Working(posted', height', k, s)
  PROVE  Windows' /\ sub' \in [Kinds -> SubRecords]
<1>1. sub \in [Kinds -> SubRecords] /\ Windows
  BY Zenon DEF SubInv, SubShape
<1>2. \A j \in Kinds : sub'[j] = IF j = k THEN s ELSE sub[j]
  BY <1>1, Zenon
<1>3. \A j \in Kinds : Working(posted', height', j, sub[j])
  BY <1>1, Tops, WorkingGrows, Zenon DEF Windows, SubInv
<1>4. Windows'
  BY <1>2, <1>3, Zenon DEF Windows
<1> QED BY <1>1, <1>4, Zenon

LEMMA IdleWorks ==
  ASSUME NEW p, NEW top \in Nat, NEW k
  PROVE  IdleSub \in SubRecords /\ Working(p, top, k, IdleSub)
<1>1. 0 \in 0..(MaxSubmitAttempts - 1)
  BY DASubmissionAssumption
<1>2. IdleSub \in SubRecords
  BY <1>1, Zenon DEF IdleSub, SubRecords
<1>3. IdleSub.pc = "idle" /\ IdleSub.items = {} /\ IdleSub.got = {} /\ IdleSub.marked = {}
  BY Zenon DEF IdleSub
<1> QED BY <1>2, <1>3, Zenon DEF Working, Window

(* A goroutine about to submit a window.                                   *)
LEMMA TryWorks ==
  ASSUME NEW p, NEW top \in Nat, NEW k, NEW items \in SUBSET Nat, items # {},
         Window(p, top, k, items), NEW n \in 0..(MaxSubmitAttempts - 1), NEW b \in {0, 1, 2, 4}
  PROVE  LET s == [pc |-> "try", items |-> items, got |-> {}, marked |-> {}, at |-> 0,
                   try |-> n, backoff |-> b, from |-> 0]
         IN s \in SubRecords /\ Working(p, top, k, s)
<1> DEFINE s == [pc |-> "try", items |-> items, got |-> {}, marked |-> {}, at |-> 0,
                 try |-> n, backoff |-> b, from |-> 0]
<1>1. s \in SubRecords
  BY Zenon DEF SubRecords
<1>2. s.pc = "try" /\ s.items = items /\ s.got = {} /\ s.marked = {}
  BY Zenon
<1> HIDE DEF s
<1>3. Working(p, top, k, s)
  BY <1>2, Zenon DEF Working
<1> QED BY <1>1, <1>3, Zenon DEF s

LEMMA TryRecord ==
  ASSUME NEW items, NEW n, NEW b
  PROVE  /\ [IdleSub EXCEPT !.pc = "try", !.items = items]
              = [pc |-> "try", items |-> items, got |-> {}, marked |-> {}, at |-> 0,
                 try |-> 0, backoff |-> 0, from |-> 0]
         /\ [IdleSub EXCEPT !.pc = "try", !.items = items, !.try = n, !.backoff = b]
              = [pc |-> "try", items |-> items, got |-> {}, marked |-> {}, at |-> 0,
                 try |-> n, backoff |-> b, from |-> 0]
<1> DEFINE s1 == [IdleSub EXCEPT !.pc = "try"]
           s2 == [s1 EXCEPT !.items = items]
           s3 == [s2 EXCEPT !.try = n]
<1>1. s1 = [pc |-> "try", items |-> {}, got |-> {}, marked |-> {}, at |-> 0,
            try |-> 0, backoff |-> 0, from |-> 0]
  BY DEF IdleSub
<1>2. /\ [IdleSub EXCEPT !.pc = "try", !.items = items] = s2
      /\ [IdleSub EXCEPT !.pc = "try", !.items = items, !.try = n, !.backoff = b]
           = [s3 EXCEPT !.backoff = b]
  BY Zenon
<1> HIDE DEF s1
<1>3. s2 = [pc |-> "try", items |-> items, got |-> {}, marked |-> {}, at |-> 0,
            try |-> 0, backoff |-> 0, from |-> 0]
  BY <1>1
<1> HIDE DEF s2
<1>4. s3 = [pc |-> "try", items |-> items, got |-> {}, marked |-> {}, at |-> 0,
            try |-> n, backoff |-> 0, from |-> 0]
  BY <1>3
<1> HIDE DEF s3
<1> QED BY <1>2, <1>3, <1>4

LEMMA BackoffBounds ==
  ASSUME NEW b \in {0, 1, 2, 4}, NEW reason
  PROVE  NextBackoff(reason, b) \in {0, 1, 2, 4}
  BY DEF NextBackoff, Lesser

LEMMA RetriedKeeps ==
  ASSUME SubInv, Grows, NEW k \in Kinds, NEW items \in SUBSET Nat, items # {},
         Window(posted', height', k, items), NEW reason, Retried(k, items, reason)
  PROVE  Windows' /\ sub' \in [Kinds -> SubRecords] /\ since' = since
<1>0. sub[k] \in SubRecords /\ height' \in Nat /\ since' = since
  BY Tops, Zenon DEF SubInv, SubShape, Retried
<1>1. sub[k].try \in 0..(MaxSubmitAttempts - 1) /\ sub[k].backoff \in {0, 1, 2, 4}
  BY <1>0, Zenon DEF SubRecords
<1>2. CASE sub[k].try + 1 < MaxSubmitAttempts
  <2> DEFINE n == sub[k].try + 1
             b == NextBackoff(reason, sub[k].backoff)
             s == [pc |-> "try", items |-> items, got |-> {}, marked |-> {}, at |-> 0,
                   try |-> n, backoff |-> b, from |-> 0]
  <2>1. sub' = [sub EXCEPT ![k] = s]
    <3>1. sub' = [sub EXCEPT ![k] = [IdleSub EXCEPT !.pc = "try", !.items = items, !.try = n,
                                                    !.backoff = b]]
      BY <1>2, Zenon DEF Retried
    <3> HIDE DEF n, b
    <3>2. [IdleSub EXCEPT !.pc = "try", !.items = items, !.try = n, !.backoff = b] = s
      BY TryRecord, Zenon
    <3> HIDE DEF s
    <3> QED BY <3>1, <3>2, Zenon
  <2>2. n \in 0..(MaxSubmitAttempts - 1) /\ b \in {0, 1, 2, 4}
    BY <1>1, <1>2, BackoffBounds, DASubmissionAssumption
  <2> HIDE DEF n, b
  <2>3. s \in SubRecords /\ Working(posted', height', k, s)
    BY <1>0, <2>2, TryWorks, Zenon
  <2> HIDE DEF s
  <2> QED BY <1>0, <2>1, <2>3, OneMoves, Zenon
<1>3. CASE ~(sub[k].try + 1 < MaxSubmitAttempts)
  <2>1. sub' = [sub EXCEPT ![k] = IdleSub]
    BY <1>3, Zenon DEF Retried
  <2> QED BY <1>0, <2>1, IdleWorks, OneMoves, Zenon
<1> QED BY <1>2, <1>3, Zenon

(* What follows a recorded success.                                        *)
LEMMA ContinuedKeeps ==
  ASSUME SubInv, NEW k \in Kinds, TakenByDA(posted, k, sub[k]), Continued(k),
         UNCHANGED <<posted, height>>
  PROVE  Windows' /\ sub' \in [Kinds -> SubRecords] /\ since' \in [Kinds -> 0..Delay]
<1>0. /\ sub[k] \in SubRecords /\ since \in [Kinds -> 0..Delay] /\ height \in 0..MaxHeight
      /\ Window(posted, height, k, sub[k].items)
  BY Zenon DEF SubInv, SubShape, Windows, Working
<1>1. Grows /\ height \in Nat
  BY <1>0, DAInclusionAssumption DEF Grows
<1> DEFINE rest == sub[k].items \ sub[k].got
<1>2. rest \in SUBSET Nat /\ Window(posted', height', k, rest)
  BY <1>0, <1>1, WindowRest, Zenon DEF SubRecords
<1>3. CASE rest # {}
  <2>1. Retried(k, rest, "success")
    BY <1>3, Zenon DEF Continued
  <2> HIDE DEF rest
  <2> QED BY <1>0, <1>1, <1>2, <1>3, <2>1, RetriedKeeps, Zenon
<1>4. CASE rest = {}
  <2>1. sub' = [sub EXCEPT ![k] = IdleSub] /\ since' = [since EXCEPT ![k] = 0]
    BY <1>4, Zenon DEF Continued
  <2>2. since' \in [Kinds -> 0..Delay]
    BY <1>0, <2>1, DASubmissionAssumption
  <2> QED BY <1>1, <2>1, <2>2, IdleWorks, OneMoves, Zenon
<1> QED BY <1>3, <1>4, Zenon

-----------------------------------------------------------------------------
LEMMA SubInitInv == SubInit => SubInv
<1> SUFFICES ASSUME SubInit PROVE SubInv
  BY Zenon
<1> USE DASubmissionAssumption, DAInclusionAssumption
<1>1. height \in 0..MaxHeight /\ scn \in DOMAIN SubScenarios
  BY Zenon DEF SubInit, Sc
<1>2. SubShape
  <2>1. IdleSub \in SubRecords
    BY IdleWorks, Zenon
  <2> QED BY <1>1, <2>1 DEF SubInit, SubShape
<1>3. Watermarks
  BY <1>1 DEF SubInit, Watermarks, SettledTo
<1>4. Windows
  BY <1>1, IdleWorks DEF SubInit, Windows
<1>5. Caches
  <2>1. hc = NewCache /\ dc = NewCache /\ snap.h = {} /\ snap.d = {}
    BY Zenon DEF SubInit, InclusionInit
  <2> QED BY <2>1, NewCacheTrue, Zenon DEF Caches, TrueSnapshot
<1>6. LoopControl
  BY <1>1 DEF SubInit, InclusionInit, LoopControl
<1>7. Records
  BY <1>1 DEF SubInit, InclusionInit, Records
<1> QED BY <1>2, <1>3, <1>4, <1>5, <1>6, <1>7, Zenon DEF SubInv

(* advancePastEmptyData passes only blocks that have nothing to post.      *)
LEMMA PastEmptySettled ==
  ASSUME Extrema, SubInv
  PROVE  SettledTo(posted, height, "data", PastEmptyData) /\ PastEmptyData \in Nat
<1> DEFINE from == last["data"]
           S == {from} \cup {h \in (from + 1)..height : \A x \in (from + 1)..h : IsEmpty(x)}
<1>1. height \in Nat /\ SettledTo(posted, height, "data", from)
  BY DAInclusionAssumption DEF SubInv, SubShape, Watermarks, Kinds
<1>2. from \in 0..height /\ S \in SUBSET (0..height) /\ S # {}
  BY <1>1 DEF SettledTo
<1>3. PastEmptyData = Max(S)
  BY Zenon DEF PastEmptyData
<1>4. Max(S) \in S
  <2> HIDE DEF S
  <2> QED BY <1>1, <1>2, MaxOf, Zenon
<1>5. \A h \in S : SettledTo(posted, height, "data", h)
  <2>1. SUFFICES ASSUME NEW h \in S, h # from PROVE SettledTo(posted, height, "data", h)
    BY <1>1, Zenon
  <2>2. h \in (from + 1)..height /\ \A x \in (from + 1)..h : IsEmpty(x)
    BY <2>1, Zenon
  <2>3. \A x \in 1..h : x \in 1..from \/ x \in (from + 1)..h
    BY <1>2, <2>2
  <2> QED BY <1>1, <1>2, <2>2, <2>3, Zenon DEF SettledTo, Settled
<1> HIDE DEF S
<1>6. PastEmptyData \in S /\ PastEmptyData \in 0..height
  BY <1>2, <1>3, <1>4, Zenon
<1> QED BY <1>1, <1>5, <1>6

LEMMA ModBounds ==
  ASSUME NEW a \in Nat, NEW n \in Nat \ {0}
  PROVE  a % n \in 0..(n - 1)
  OBVIOUS

LEMMA ProduceKeeps ==
  ASSUME Extrema, SubInv, Produce
  PROVE  SubInv'
<1> DEFINE check == Limit > 0 /\ (Limit <= CheckInterval \/ (counter + 1) % CheckInterval = 0)
           past == PastEmptyData
<1>1. /\ height < Sc.top
      /\ counter' = IF Limit > 0 THEN (counter + 1) % CheckInterval ELSE counter
      /\ IF check THEN /\ last' = [last EXCEPT !["data"] = past]
                       /\ lastDisk' = IF past > last["data"]
                                        THEN [lastDisk EXCEPT !["data"] = past] ELSE lastDisk
         ELSE last' = last /\ lastDisk' = lastDisk
      /\ height' = IF check /\ PendingLimitReached(past) THEN height ELSE height + 1
      /\ scn' = scn /\ sub' = sub /\ adv' = adv /\ since' = since /\ posted' = posted
      /\ onDA' = onDA
      /\ hc' = hc /\ dc' = dc /\ snap' = snap /\ incl' = incl /\ inclDisk' = inclDisk
      /\ toDA' = toDA /\ ipc' = ipc /\ final' = final
  BY Zenon DEF Produce, inclVars
<1>2. SubShape /\ Watermarks
  BY Zenon DEF SubInv
<1>3. Grows
  <2>1. Sc.top \in 0..MaxHeight /\ height \in 0..MaxHeight
    BY <1>2, DASubmissionAssumption, Zenon DEF SubShape, Sc
  <2> QED BY <1>1, <2>1, DAInclusionAssumption DEF Grows
<1>4. past \in Nat /\ SettledTo(posted', height', "data", past)
  BY <1>2, <1>3, Tops, PastEmptySettled, SettledGrows, Zenon
<1>5. \A k \in Kinds : /\ SettledTo(posted', height', k, last[k])
                       /\ SettledTo(posted', height', k, lastDisk[k])
  BY <1>2, <1>3, Tops, SettledGrows, Zenon DEF Watermarks
<1>6. SettledTo(posted', height', "data", adv)
  BY <1>2, <1>3, Tops, SettledGrows, Zenon DEF Watermarks
<1> HIDE DEF check, past
<1>7. last \in [Kinds -> Nat] /\ lastDisk \in [Kinds -> Nat]
  BY <1>2, Zenon DEF SubShape
<1>8. last' \in [Kinds -> Nat] /\ lastDisk' \in [Kinds -> Nat]
  BY <1>1, <1>4, <1>7, Zenon
<1>9. Watermarks'
  <2>1. \A k \in Kinds : last'[k] = last[k] \/ (k = "data" /\ last'[k] = past)
    BY <1>1, <1>7, Zenon
  <2>2. \A k \in Kinds : lastDisk'[k] = lastDisk[k] \/ (k = "data" /\ lastDisk'[k] = past)
    BY <1>1, <1>7, Zenon
  <2> QED BY <1>1, <1>4, <1>5, <1>6, <2>1, <2>2, Zenon DEF Watermarks
<1>10. SubShape'
  <2>1. counter' \in 0..(CheckInterval - 1)
    BY <1>1, <1>2, ModBounds, DASubmissionAssumption DEF SubShape
  <2> QED BY <1>1, <1>2, <1>3, <1>8, <2>1, Zenon DEF SubShape, Grows
<1> QED BY <1>1, <1>3, <1>9, <1>10, WindowsStay, CachesStay, LoopStays, Zenon DEF SubInv

LEMMA TickKeeps == ASSUME SubInv, Tick PROVE SubInv'
<1>1. /\ since' = [k \in Kinds |-> Lesser(Delay, since[k] + 1)]
      /\ UNCHANGED <<scn, height, counter, last, lastDisk, sub, adv, posted, onDA, inclVars>>
  BY Zenon DEF Tick
<1>2. SubShape
  BY Zenon DEF SubInv
<1>3. Grows
  BY <1>1, <1>2, DAInclusionAssumption DEF SubShape, Grows
<1>4. \A k \in Kinds : Lesser(Delay, since[k] + 1) \in 0..Delay
  BY <1>2, DASubmissionAssumption DEF SubShape, Lesser
<1>5. SubShape'
  BY <1>1, <1>2, <1>4, Zenon DEF SubShape
<1> QED BY <1>1, <1>3, <1>5, WatermarksStay, WindowsStay, CachesStay, LoopStays, Zenon
        DEF SubInv, inclVars

LEMMA LoopKeeps ==
  ASSUME Extrema, SubInv, Loop
  PROVE  SubInv'
<1>1. /\ UNCHANGED <<scn, height, counter, sub, since, posted, onDA, inclVars>>
      /\ \/ /\ adv = 0 /\ last["data"] < height /\ IsEmpty(last["data"] + 1)
            /\ last' = [last EXCEPT !["data"] = @ + 1] /\ adv' = last["data"] + 1
            /\ lastDisk' = lastDisk
         \/ /\ lastDisk' = [lastDisk EXCEPT !["data"] = adv] /\ adv' = 0 /\ last' = last
  BY Zenon DEF Loop, AdvanceMemory, AdvanceDisk
<1>2. SubShape /\ Watermarks /\ height \in Nat
  BY DAInclusionAssumption DEF SubInv, SubShape
<1>3. Grows
  BY <1>1, <1>2 DEF SubShape, Grows
<1>4. "data" \in Kinds /\ last \in [Kinds -> Nat] /\ lastDisk \in [Kinds -> Nat]
  BY <1>2, Zenon DEF Kinds, SubShape
<1>5. adv \in Nat
  BY <1>2 DEF Watermarks, SettledTo
<1>6. SubShape'
  BY <1>1, <1>2, <1>4, <1>5 DEF SubShape
<1>7. SettledTo(posted, height, "data", 0)
  BY <1>2 DEF SettledTo
<1>8. CASE lastDisk' = lastDisk /\ adv' = last["data"] + 1
           /\ last["data"] < height /\ IsEmpty(last["data"] + 1)
           /\ last' = [last EXCEPT !["data"] = @ + 1]
  <2>1. SettledTo(posted, height, "data", last["data"] + 1)
    <3>1. SettledTo(posted, height, "data", last["data"])
      BY <1>2, <1>4, Zenon DEF Watermarks
    <3>2. \A h \in 1..(last["data"] + 1) : h \in 1..last["data"] \/ h = last["data"] + 1
      BY <1>4
    <3> QED BY <1>2, <1>4, <1>8, <3>1, <3>2 DEF SettledTo, Settled
  <2>2. \A k \in Kinds : last'[k] = IF k = "data" THEN last["data"] + 1 ELSE last[k]
    BY <1>4, <1>8, Zenon
  <2>3. Watermarks'
    BY <1>1, <1>2, <1>8, <2>1, <2>2, Zenon DEF Watermarks
  <2> QED BY <1>1, <1>3, <1>6, <2>3, WindowsStay, CachesStay, LoopStays, Zenon DEF SubInv, inclVars
<1>9. CASE lastDisk' = [lastDisk EXCEPT !["data"] = adv] /\ adv' = 0 /\ last' = last
  <2>1. \A k \in Kinds : lastDisk'[k] = IF k = "data" THEN adv ELSE lastDisk[k]
    BY <1>4, <1>9, Zenon
  <2>2. Watermarks'
    BY <1>1, <1>2, <1>7, <1>9, <2>1, Zenon DEF Watermarks
  <2> QED BY <1>1, <1>3, <1>6, <2>2, WindowsStay, CachesStay, LoopStays, Zenon DEF SubInv, inclVars
<1> QED BY <1>1, <1>8, <1>9, Zenon

(* The pending items of a kind are a window.                               *)
LEMMA PendingWindow ==
  ASSUME SubInv, NEW k \in Kinds
  PROVE  /\ Window(posted, height, k, Pending(k)) /\ Pending(k) \in SUBSET (1..height)
         /\ k = "data" => SignedData(Pending(k)) = Pending(k)
<1>1. height \in Nat /\ last[k] \in Nat /\ SettledTo(posted, height, k, last[k])
  BY DAInclusionAssumption DEF SubInv, SubShape, Watermarks
<1>2. Pending(k) \in SUBSET (1..height)
  BY <1>1 DEF Pending, getPending
<1>3. ASSUME NEW i \in Pending(k), NEW h \in 1..i
      PROVE  h \in Pending(k) \/ Settled(posted, k, h)
  <2>1. h \in 1..last[k] \/ h \in (last[k] + 1)..height
    BY <1>1, <1>2, <1>3
  <2>2. h \in (last[k] + 1)..height => h \in Pending(k) \/ (k = "data" /\ IsEmpty(h))
    BY Zenon DEF Pending, getPending, Kinds
  <2> QED BY <1>1, <2>1, <2>2, Zenon DEF SettledTo, Settled
<1>4. k = "data" => SignedData(Pending(k)) = Pending(k)
  BY Zenon DEF SignedData, Pending
<1> QED BY <1>2, <1>3, <1>4, Zenon DEF Window

LEMMA BeginKeeps ==
  ASSUME Beginnings, SubInv, NEW k \in Kinds, Begin(k)
  PROVE  SubInv'
<1> DEFINE items == Pending(k)
           batch == limitBatchBySize(k, IF k = "data" THEN SignedData(items) ELSE items)
           s == [pc |-> "try", items |-> batch, got |-> {}, marked |-> {}, at |-> 0,
                 try |-> 0, backoff |-> 0, from |-> 0]
<1>1. /\ UNCHANGED <<scn, height, counter, last, lastDisk, adv, since, posted, onDA, inclVars>>
      /\ \/ sub' = sub
         \/ batch # {} /\ sub' = [sub EXCEPT ![k] = [IdleSub EXCEPT !.pc = "try", !.items = batch]]
  BY Zenon DEF Begin
<1>2. SubShape /\ height \in 0..MaxHeight /\ height \in Nat
  BY DAInclusionAssumption DEF SubInv, SubShape
<1>3. Grows
  BY <1>1, <1>2 DEF Grows
<1>4. Prefix(batch, items)
  <2>1. items \in SUBSET (1..height) /\ (k = "data" => SignedData(items) = items)
    BY PendingWindow, Zenon
  <2>2. batch = limitBatchBySize(k, items)
    BY <2>1, Zenon
  <2> HIDE DEF items, batch
  <2> QED BY <1>2, <2>1, <2>2, LimitPrefix, Zenon
<1>5. Window(posted', height', k, batch) /\ batch \in SUBSET Nat
  <2>1. Window(posted, height, k, items)
    BY PendingWindow, Zenon
  <2> HIDE DEF items, batch
  <2>2. Window(posted, height, k, batch)
    BY <1>2, <1>4, <2>1, WindowPrefix, Zenon
  <2> QED BY <1>1, <1>2, <2>2 DEF Window
<1> HIDE DEF batch
<1>6. Windows' /\ sub' \in [Kinds -> SubRecords]
  <2>1. CASE sub' = sub
    BY <1>2, <1>3, <2>1, WindowsStay, Zenon DEF SubShape
  <2>2. CASE batch # {} /\ sub' = [sub EXCEPT ![k] = [IdleSub EXCEPT !.pc = "try", !.items = batch]]
    <3>1. [IdleSub EXCEPT !.pc = "try", !.items = batch] = s
      BY TryRecord, Zenon
    <3>2. 0 \in 0..(MaxSubmitAttempts - 1) /\ height' \in Nat
      BY <1>1, <1>2, DASubmissionAssumption
    <3>3. s \in SubRecords /\ Working(posted', height', k, s)
      BY <1>5, <2>2, <3>2, TryWorks, Zenon
    <3> HIDE DEF s
    <3> QED BY <1>3, <2>2, <3>1, <3>3, OneMoves, Zenon
  <2> QED BY <1>1, <2>1, <2>2, Zenon
<1>7. SubShape'
  BY <1>1, <1>2, <1>6, Zenon DEF SubShape
<1> QED BY <1>1, <1>3, <1>6, <1>7, WatermarksStay, CachesStay, LoopStays, Zenon DEF SubInv, inclVars

-----------------------------------------------------------------------------
(* Updates of a goroutine's record.                                        *)
LEMMA SubFields ==
  ASSUME NEW r \in SubRecords
  PROVE  r = [pc |-> r.pc, items |-> r.items, got |-> r.got, marked |-> r.marked, at |-> r.at,
              try |-> r.try, backoff |-> r.backoff, from |-> r.from]
  BY Zenon DEF SubRecords

LEMMA MarkRecord ==
  ASSUME NEW r \in SubRecords, NEW g \in SUBSET Nat, NEW a \in Nat,
         NEW s, s = Marking(r, g, a)
  PROVE  /\ s \in SubRecords
         /\ s.pc = "mark" /\ s.got = g /\ s.at = a /\ s.items = r.items /\ s.marked = r.marked
<1> DEFINE s1 == [r EXCEPT !.pc = "mark"]
           s2 == [s1 EXCEPT !.got = g]
<1>1. s = [s2 EXCEPT !.at = a]
  BY Zenon DEF Marking
<1>2. /\ s1 \in SubRecords
      /\ s1.pc = "mark" /\ s1.items = r.items /\ s1.marked = r.marked
  BY SubFields, Zenon DEF SubRecords
<1> HIDE DEF s1
<1>3. /\ s2 \in SubRecords
      /\ s2.pc = "mark" /\ s2.items = r.items /\ s2.marked = r.marked /\ s2.got = g
  BY <1>2, SubFields, Zenon DEF SubRecords
<1> HIDE DEF s2
<1> QED BY <1>1, <1>3, SubFields DEF SubRecords

LEMMA CasRecord ==
  ASSUME NEW r \in SubRecords, NEW n \in Nat,
         NEW s, s = Swapping(r, n)
  PROVE  /\ s \in SubRecords
         /\ s.pc = "cas" /\ s.got = r.got /\ s.at = r.at /\ s.items = r.items /\ s.marked = {}
<1> DEFINE s1 == [r EXCEPT !.pc = "cas"]
           s2 == [s1 EXCEPT !.from = n]
<1>1. s = [s2 EXCEPT !.marked = {}]
  BY Zenon DEF Swapping
<1>2. /\ s1 \in SubRecords
      /\ s1.pc = "cas" /\ s1.items = r.items /\ s1.got = r.got /\ s1.at = r.at
  BY SubFields, Zenon DEF SubRecords
<1> HIDE DEF s1
<1>3. /\ s2 \in SubRecords
      /\ s2.pc = "cas" /\ s2.items = r.items /\ s2.got = r.got /\ s2.at = r.at
  BY <1>2, SubFields, Zenon DEF SubRecords
<1> HIDE DEF s2
<1> QED BY <1>1, <1>3, SubFields, Zenon DEF SubRecords

LEMMA MarkedRecord ==
  ASSUME NEW r \in SubRecords, NEW h \in Nat, NEW s, s = Marked(r, h)
  PROVE  /\ s \in SubRecords /\ s.marked = r.marked \cup {h}
         /\ s.pc = r.pc /\ s.got = r.got /\ s.at = r.at /\ s.items = r.items
<1> DEFINE m == r.marked \cup {h}
<1>1. m \in SUBSET Nat
  BY Zenon DEF SubRecords
<1>2. s = [r EXCEPT !.marked = m]
  BY Zenon DEF Marked
<1> HIDE DEF m
<1>3. /\ s \in SubRecords /\ s.marked = m
      /\ s.pc = r.pc /\ s.got = r.got /\ s.at = r.at /\ s.items = r.items
  BY <1>1, <1>2, SubFields, Zenon DEF SubRecords
<1> QED BY <1>3, Zenon DEF m

LEMMA WriteRecord ==
  ASSUME NEW r \in SubRecords, NEW s, s = [r EXCEPT !.pc = "write"]
  PROVE  /\ s \in SubRecords
         /\ s.pc = "write" /\ s.got = r.got /\ s.at = r.at /\ s.items = r.items
         /\ s.marked = r.marked
  BY SubFields, Zenon DEF SubRecords

(* A kind's goroutine, with its window.                                    *)
LEMMA ItsWindow ==
  ASSUME SubInv, NEW k \in Kinds
  PROVE  /\ sub[k] \in SubRecords /\ height \in Nat /\ height \in 0..MaxHeight
         /\ Working(posted, height, k, sub[k])
         /\ Window(posted, height, k, sub[k].items)
         /\ sub[k].items \in SUBSET (1..height) /\ sub[k].items \in SUBSET Nat
         /\ sub[k].got \in SUBSET Nat /\ onDA \in Nat
  BY DAInclusionAssumption DEF SubInv, SubShape, Windows, Working, Window, SubRecords

LEMMA LandsGrows ==
  ASSUME SubInv, NEW k \in Kinds, NEW items, Lands(k, items), UNCHANGED height
  PROVE  /\ Grows /\ onDA' \in Nat
         /\ \A g \in items : [k |-> k, h |-> g, da |-> onDA + 1] \in posted'
  BY ItsWindow DEF Lands, Grows

LEMMA SubmitKeeps ==
  ASSUME Beginnings, SubInv, NEW k \in Kinds, Submit(k)
  PROVE  SubInv'
<1> DEFINE new(g) == Marking(sub[k], g, onDA + 1)
           Part(g) == /\ Lands(k, g) /\ Prefix(g, sub[k].items) /\ g # {}
                      /\ sub' = [sub EXCEPT ![k] = new(g)]
<1>1. /\ sub[k].pc = "try"
      /\ UNCHANGED <<scn, height, counter, last, lastDisk, adv, since, inclVars>>
  BY Zenon DEF Submit
<1>2. /\ sub[k] \in SubRecords /\ Working(posted, height, k, sub[k])
      /\ sub[k].items # {} /\ sub[k].marked = {} /\ SubShape
  BY <1>1, ItsWindow, Zenon DEF Working, SubInv
<1>3. PICK g : Part(g)
  <2>1. Prefix(sub[k].items, sub[k].items)
    BY Zenon DEF Prefix
  <2>2. CASE Lands(k, sub[k].items) /\ sub' = [sub EXCEPT ![k] = new(sub[k].items)]
    BY <1>2, <2>1, <2>2, Zenon
  <2>3. ASSUME NEW n \in 1..(Cardinality(sub[k].items) - 1), Lands(k, FirstOf(sub[k].items, n)),
               sub' = [sub EXCEPT ![k] = new(FirstOf(sub[k].items, n))]
        PROVE  \E g : Part(g)
    <3>1. n \in Nat /\ n >= 1
      BY <2>3
    <3>2. Prefix(FirstOf(sub[k].items, n), sub[k].items) /\ FirstOf(sub[k].items, n) # {}
      BY <1>2, <3>1, ItsWindow, FirstOfPrefix, Zenon
    <3> QED BY <2>3, <3>2, Zenon
  <2> QED BY <2>2, <2>3, Zenon DEF Submit
<1>4. g \in SUBSET Nat /\ g \subseteq sub[k].items
  BY <1>3, ItsWindow, Zenon DEF Prefix
<1>5. /\ Grows /\ onDA' \in Nat
      /\ \A x \in g : [k |-> k, h |-> x, da |-> onDA + 1] \in posted'
  BY <1>1, <1>3, LandsGrows, Zenon
<1>6. PICK s : s = new(g)
  BY Zenon
<1>7. /\ s \in SubRecords /\ s.pc = "mark" /\ s.got = g /\ s.at = onDA + 1
      /\ s.items = sub[k].items /\ s.marked = {}
  <2>1. onDA + 1 \in Nat
    BY <1>2 DEF SubShape
  <2> QED BY <1>2, <1>4, <1>6, <2>1, MarkRecord
<1>8. Working(posted', height', k, s)
  <2>1. Window(posted', height', k, s.items)
    <3>1. Working(posted', height', k, sub[k])
      BY <1>2, <1>5, Tops, WorkingGrows, Zenon
    <3> QED BY <1>7, <3>1, Zenon DEF Working
  <2>2. TakenByDA(posted', k, s)
    BY <1>3, <1>5, <1>7, Zenon DEF TakenByDA
  <2> QED BY <1>2, <1>3, <1>4, <1>7, <2>1, <2>2, Zenon DEF Working
<1>9. Windows' /\ sub' \in [Kinds -> SubRecords]
  BY <1>3, <1>5, <1>6, <1>7, <1>8, OneMoves, Zenon
<1>10. SubShape'
  BY <1>1, <1>2, <1>5, <1>9, Zenon DEF SubShape
<1> QED BY <1>1, <1>5, <1>9, <1>10, WatermarksStay, CachesStay, LoopStays, Zenon DEF SubInv, inclVars

LEMMA SubmitFailsKeeps == ASSUME SubInv, NEW k \in Kinds, SubmitFails(k) PROVE SubInv'
<1>1. /\ sub[k].pc = "try"
      /\ UNCHANGED <<scn, height, counter, last, lastDisk, adv, inclVars>>
      /\ UNCHANGED <<posted, onDA>> \/ Lands(k, sub[k].items)
  BY Zenon DEF SubmitFails
<1>2. PICK reason : Retried(k, sub[k].items, reason)
  BY Zenon DEF SubmitFails
<1>3. /\ Working(posted, height, k, sub[k]) /\ sub[k].items # {} /\ sub[k].items \in SUBSET Nat
      /\ SubShape
  BY <1>1, ItsWindow, Zenon DEF Working, SubInv
<1>4. Grows /\ onDA' \in Nat
  <2>1. CASE UNCHANGED <<posted, onDA>>
    BY <1>1, <2>1, ItsWindow DEF Grows
  <2>2. CASE Lands(k, sub[k].items)
    BY <1>1, <2>2, LandsGrows, Zenon
  <2> QED BY <1>1, <2>1, <2>2, Zenon
<1>5. Window(posted', height', k, sub[k].items)
  BY <1>3, <1>4, Tops, WorkingGrows, Zenon DEF Working
<1>6. Windows' /\ sub' \in [Kinds -> SubRecords] /\ since' = since
  BY <1>2, <1>3, <1>4, <1>5, RetriedKeeps, Zenon
<1>7. SubShape'
  BY <1>1, <1>3, <1>4, <1>6, Zenon DEF SubShape
<1> QED BY <1>1, <1>4, <1>6, <1>7, WatermarksStay, CachesStay, LoopStays, Zenon DEF SubInv, inclVars

LEMMA SubmitTooBigKeeps ==
  ASSUME Beginnings, SubInv, NEW k \in Kinds, SubmitTooBig(k)
  PROVE  SubInv'
<1> DEFINE n == Cardinality(sub[k].items)
           half == FirstOf(sub[k].items, n \div 2)
<1>1. /\ sub[k].pc = "try"
      /\ UNCHANGED <<scn, height, counter, last, lastDisk, adv, posted, onDA, inclVars>>
      /\ \/ sub' = [sub EXCEPT ![k] = IdleSub] /\ since' = since
         \/ n # 1 /\ Retried(k, half, "too_big")
  BY Zenon DEF SubmitTooBig
<1>2. /\ Window(posted, height, k, sub[k].items) /\ sub[k].items # {}
      /\ sub[k].items \in SUBSET (1..height) /\ height \in Nat /\ SubShape
  BY <1>1, ItsWindow, Zenon DEF Working, SubInv
<1>3. Grows
  BY <1>1, ItsWindow DEF Grows
<1>4. Windows' /\ sub' \in [Kinds -> SubRecords] /\ since' = since
  <2>1. CASE sub' = [sub EXCEPT ![k] = IdleSub] /\ since' = since
    BY <1>1, <1>2, <1>3, <2>1, IdleWorks, OneMoves, Zenon
  <2>2. CASE n # 1 /\ Retried(k, half, "too_big")
    <3>1. n \in Nat /\ n # 0
      BY <1>2, WindowSize, Zenon
    <3> HIDE DEF n
    <3>2. n \div 2 \in Nat /\ n \div 2 >= 1
      BY <2>2, <3>1
    <3>3. Prefix(half, sub[k].items) /\ half # {}
      BY <1>2, <3>2, FirstOfPrefix, Zenon
    <3> HIDE DEF half
    <3>4. Window(posted', height', k, half) /\ half \in SUBSET Nat
      <4>1. Window(posted, height, k, half)
        BY <1>2, <3>3, WindowPrefix, Zenon
      <4> QED BY <1>1, <1>2, <4>1 DEF Window
    <3> QED BY <1>3, <2>2, <3>3, <3>4, RetriedKeeps, Zenon
  <2> QED BY <1>1, <2>1, <2>2, Zenon
<1>5. SubShape'
  BY <1>1, <1>2, <1>4, Zenon DEF SubShape
<1> QED BY <1>1, <1>3, <1>4, <1>5, WatermarksStay, CachesStay, LoopStays, Zenon DEF SubInv, inclVars

-----------------------------------------------------------------------------
LEMMA MarkIncludedKeeps ==
  ASSUME Extrema, SubInv, NEW k \in Kinds, MarkIncluded(k)
  PROVE  SubInv'
<1> DEFINE r == sub[k]
           left == r.got \ r.marked
           h == Min(left)
<1>1. /\ r.pc = "mark"
      /\ hc' = IF k = "header" THEN SetHeaderDAIncluded(h, r.at) ELSE hc
      /\ dc' = IF k = "data" THEN SetDataDAIncluded(h, r.at) ELSE dc
      /\ sub' = IF left = {h} THEN [sub EXCEPT ![k] = Swapping(@, last[k])]
                ELSE [sub EXCEPT ![k] = Marked(@, h)]
      /\ UNCHANGED <<scn, height, counter, last, lastDisk, adv, since, posted, onDA>>
      /\ UNCHANGED <<snap, incl, inclDisk, toDA, ipc, final>>
  BY Zenon DEF MarkIncluded, Accepted
<1>2. /\ r \in SubRecords /\ Working(posted, height, k, r) /\ r.got \in SUBSET Nat
      /\ SubShape /\ Caches /\ sub \in [Kinds -> SubRecords]
  BY ItsWindow, Zenon DEF SubInv, SubShape
<1>3. Grows
  BY <1>1, ItsWindow DEF Grows
<1> HIDE DEF r
<1>4. /\ TakenByDA(posted, k, r) /\ r.marked \subseteq r.got /\ r.marked # r.got
      /\ Window(posted, height, k, r.items) /\ r.items # {} /\ r.got \subseteq r.items
  BY <1>1, <1>2, Zenon DEF Working
<1>5. h \in left /\ left \in SUBSET Nat
  <2>1. left \in SUBSET Nat /\ left # {}
    BY <1>2, <1>4, Zenon
  <2> HIDE DEF left
  <2> QED BY <2>1, MinOf, Zenon
<1> HIDE DEF h
<1>6. [k |-> k, h |-> h, da |-> r.at] \in posted
  BY <1>4, <1>5, Zenon DEF TakenByDA
<1>7. Caches'
  <2>1. TrueCache(posted, "header", hc')
    <3>1. CASE k = "header"
      BY <1>1, <1>2, <1>6, <3>1, MarkIsTrue, Zenon DEF Caches, SetHeaderDAIncluded
    <3>2. CASE k # "header"
      BY <1>1, <1>2, <3>2, Zenon DEF Caches
    <3> QED BY <3>1, <3>2, Zenon
  <2>2. TrueCache(posted, "data", dc')
    <3>1. CASE k = "data"
      BY <1>1, <1>2, <1>6, <3>1, MarkIsTrue, Zenon DEF Caches, SetDataDAIncluded
    <3>2. CASE k # "data"
      BY <1>1, <1>2, <3>2, Zenon DEF Caches
    <3> QED BY <3>1, <3>2, Zenon
  <2>3. posted' = posted /\ snap' = snap
    BY <1>1, Zenon
  <2> QED BY <1>2, <2>1, <2>2, <2>3, Zenon DEF Caches
<1>8. Windows' /\ sub' \in [Kinds -> SubRecords]
  <2>1. CASE left = {h}
    <3>1. PICK s : s = Swapping(r, last[k])
      BY Zenon
    <3>2. sub' = [sub EXCEPT ![k] = s]
      BY <1>1, <2>1, <3>1, Zenon DEF r
    <3>3. last[k] \in Nat
      BY <1>2, Zenon DEF SubShape
    <3>4. /\ s \in SubRecords /\ s.pc = "cas" /\ s.got = r.got /\ s.at = r.at
          /\ s.items = r.items /\ s.marked = {}
      BY <1>2, <3>1, <3>3, CasRecord
    <3>5. TakenByDA(posted, k, s)
      BY <1>4, <3>4, Zenon DEF TakenByDA
    <3>6. Working(posted, height, k, s)
      BY <1>4, <3>4, <3>5, Zenon DEF Working
    <3> QED BY <1>1, <1>3, <3>2, <3>4, <3>6, OneMoves, Zenon
  <2>2. CASE left # {h}
    <3> DEFINE m == r.marked \cup {h}
    <3>1. PICK s : s = Marked(r, h)
      BY Zenon
    <3>2. sub' = [sub EXCEPT ![k] = s]
      BY <1>1, <2>2, <3>1, Zenon DEF r
    <3>3. m \in SUBSET Nat /\ m \subseteq r.got /\ m # r.got
      BY <1>2, <1>4, <1>5, <2>2, Zenon
    <3>4. /\ s \in SubRecords /\ s.pc = "mark" /\ s.got = r.got /\ s.at = r.at
          /\ s.items = r.items /\ s.marked = m
      BY <1>1, <1>2, <1>5, <3>1, MarkedRecord
    <3> HIDE DEF m
    <3>5. TakenByDA(posted, k, s)
      BY <1>4, <3>4, Zenon DEF TakenByDA
    <3>6. Working(posted, height, k, s)
      BY <1>4, <3>3, <3>4, <3>5, Zenon DEF Working
    <3> QED BY <1>1, <1>3, <3>2, <3>4, <3>6, OneMoves, Zenon
  <2> QED BY <2>1, <2>2, Zenon
<1>9. SubShape'
  BY <1>1, <1>2, <1>8, Zenon DEF SubShape
<1> QED BY <1>1, <1>3, <1>7, <1>8, <1>9, WatermarksStay, LoopStays, Zenon DEF SubInv

(* The last accepted item is a watermark that covers only settled blocks.  *)
LEMMA NewLastSettled ==
  ASSUME Extrema, SubInv, NEW k \in Kinds, sub[k].pc \in {"mark", "cas", "write"}
  PROVE  /\ TakenByDA(posted, k, sub[k])
         /\ SettledTo(posted, height, k, NewLast(sub[k])) /\ NewLast(sub[k]) \in Nat
  BY ItsWindow, RaisedSettled, Zenon DEF Working

LEMMA RaiseLastKeeps ==
  ASSUME Extrema, SubInv, NEW k \in Kinds, RaiseLast(k)
  PROVE  SubInv'
<1> DEFINE n == NewLast(sub[k])
           won == n > sub[k].from /\ last[k] = sub[k].from
<1>1. /\ sub[k].pc = "cas"
      /\ last' = IF won THEN [last EXCEPT ![k] = n] ELSE last
      /\ IF won THEN sub' = [sub EXCEPT ![k] = [@ EXCEPT !.pc = "write"]] /\ since' = since
         ELSE Continued(k)
      /\ UNCHANGED <<scn, height, counter, lastDisk, adv, posted, onDA, inclVars>>
  BY Zenon DEF RaiseLast
<1>2. /\ TakenByDA(posted, k, sub[k]) /\ SettledTo(posted, height, k, n) /\ n \in Nat
      /\ sub[k] \in SubRecords /\ Working(posted, height, k, sub[k])
      /\ SubShape /\ Watermarks
  BY <1>1, NewLastSettled, ItsWindow, Zenon DEF SubInv
<1>3. Grows
  BY <1>1, ItsWindow DEF Grows
<1> HIDE DEF n, won
<1>4. last \in [Kinds -> Nat]
  BY <1>2, Zenon DEF SubShape
<1>5. last' \in [Kinds -> Nat] /\ \A j \in Kinds : last'[j] = last[j] \/ (j = k /\ last'[j] = n)
  BY <1>1, <1>2, <1>4, Zenon
<1>6. Watermarks'
  BY <1>1, <1>2, <1>5, Zenon DEF Watermarks
<1>7. Windows' /\ sub' \in [Kinds -> SubRecords] /\ since' \in [Kinds -> 0..Delay]
  <2>1. CASE won
    <3>1. PICK s : s = [sub[k] EXCEPT !.pc = "write"]
      BY Zenon
    <3>2. sub' = [sub EXCEPT ![k] = s] /\ since' = since
      BY <1>1, <2>1, <3>1, Zenon
    <3>3. /\ s \in SubRecords /\ s.pc = "write" /\ s.got = sub[k].got /\ s.at = sub[k].at
          /\ s.items = sub[k].items /\ s.marked = sub[k].marked
      BY <1>2, <3>1, WriteRecord, Zenon
    <3>4. TakenByDA(posted, k, s)
      BY <1>2, <3>3, Zenon DEF TakenByDA
    <3>5. Working(posted, height, k, s)
      BY <1>1, <1>2, <3>3, <3>4, Zenon DEF Working
    <3>6. Working(posted', height', k, s)
      BY <1>1, <3>5, Zenon
    <3> QED BY <1>2, <1>3, <3>2, <3>3, <3>6, OneMoves, Zenon DEF SubShape
  <2>2. CASE ~won
    BY <1>1, <1>2, <2>2, ContinuedKeeps, Zenon
  <2> QED BY <2>1, <2>2, Zenon
<1>8. SubShape'
  BY <1>1, <1>2, <1>5, <1>7, Zenon DEF SubShape
<1> QED BY <1>1, <1>3, <1>6, <1>7, <1>8, CachesStay, LoopStays, Zenon DEF SubInv, inclVars

LEMMA WriteLastKeeps ==
  ASSUME Extrema, SubInv, NEW k \in Kinds, WriteLast(k)
  PROVE  SubInv'
<1> DEFINE n == NewLast(sub[k])
<1>1. /\ sub[k].pc = "write"
      /\ lastDisk' = [lastDisk EXCEPT ![k] = n] \/ lastDisk' = lastDisk
      /\ Continued(k)
      /\ UNCHANGED <<scn, height, counter, last, adv, posted, onDA, inclVars>>
  BY Zenon DEF WriteLast
<1>2. /\ TakenByDA(posted, k, sub[k]) /\ SettledTo(posted, height, k, n) /\ n \in Nat
      /\ SubShape /\ Watermarks
  BY <1>1, NewLastSettled, Zenon DEF SubInv
<1>3. Grows
  BY <1>1, ItsWindow DEF Grows
<1> HIDE DEF n
<1>4. lastDisk \in [Kinds -> Nat]
  BY <1>2, Zenon DEF SubShape
<1>5. /\ lastDisk' \in [Kinds -> Nat]
      /\ \A j \in Kinds : lastDisk'[j] = lastDisk[j] \/ (j = k /\ lastDisk'[j] = n)
  BY <1>1, <1>2, <1>4, Zenon
<1>6. Watermarks'
  BY <1>1, <1>2, <1>5, Zenon DEF Watermarks
<1>7. Windows' /\ sub' \in [Kinds -> SubRecords] /\ since' \in [Kinds -> 0..Delay]
  BY <1>1, <1>2, ContinuedKeeps, Zenon
<1>8. SubShape'
  BY <1>1, <1>2, <1>5, <1>7, Zenon DEF SubShape
<1> QED BY <1>1, <1>3, <1>6, <1>7, <1>8, CachesStay, LoopStays, Zenon DEF SubInv, inclVars

-----------------------------------------------------------------------------
(* The inclusion loop, whose steps leave the goroutines alone.             *)
LEMMA LoopOnly ==
  ASSUME SubInv, UNCHANGED <<scn, height, counter, last, lastDisk, sub, adv, since, posted, onDA>>
  PROVE  SubShape' /\ Watermarks' /\ Windows'
<1>1. SubShape /\ SubShape'
  BY Zenon DEF SubInv, SubShape
<1>2. Grows
  BY <1>1, DAInclusionAssumption DEF Grows, SubShape
<1> QED BY <1>1, <1>2, WatermarksStay, WindowsStay, Zenon

LEMMA InclMapKeeps ==
  ASSUME SubInv, InclMap(IsEmpty(incl + 1)), UNCHANGED <<height, posted>>
  PROVE  Caches' /\ LoopControl' /\ Records'
<1> DEFINE n == incl + 1
           onH == getDAIncludedByHeight(hc, n)
           onD == IF IsEmpty(n) THEN onH ELSE getDAIncludedByHeight(dc, n)
<1>1. /\ ipc = "map"
      /\ \/ /\ onH = 0 \/ onD = 0
            /\ toDA' = IF onH = 0 THEN toDA ELSE [toDA EXCEPT ![n][1] = onH]
            /\ ipc' = "idle"
         \/ /\ onH # 0 /\ onD # 0
            /\ toDA' = [toDA EXCEPT ![n] = <<onH, onD>>]
            /\ ipc' = "final"
      /\ UNCHANGED <<hc, dc, snap, incl, inclDisk, final, height, posted>>
  BY Zenon DEF InclMap
<1>2. Caches /\ LoopControl /\ Records /\ height \in 0..MaxHeight
  BY Zenon DEF SubInv, SubShape
<1>3. incl \in Nat /\ n \in 1..MaxHeight /\ incl + 1 <= height
  BY <1>1, <1>2, DAInclusionAssumption DEF LoopControl
<1>4. Caches' /\ LoopControl'
  BY <1>1, <1>2, <1>3, Zenon DEF Caches, LoopControl
<1>5. onH # 0 => [k |-> "header", h |-> n, da |-> onH] \in posted
  BY <1>2, ReadIsTrue, Zenon DEF Caches
<1>6. onD # 0 => IsEmpty(n) \/ [k |-> "data", h |-> n, da |-> onD] \in posted
  BY <1>2, ReadIsTrue, Zenon DEF Caches
<1>7. toDA = [h \in 1..MaxHeight |-> <<toDA[h][1], toDA[h][2]>>]
  BY <1>2, Zenon DEF Records
<1> HIDE DEF onH, onD, n
<1>8. CASE toDA' = toDA /\ ipc' = "idle"
  BY <1>1, <1>2, <1>4, <1>8, Zenon DEF Records
<1>9. CASE onH # 0 /\ toDA' = [toDA EXCEPT ![n][1] = onH] /\ ipc' = "idle"
  <2>1. toDA' = [h \in 1..MaxHeight |-> IF h = n THEN <<onH, toDA[n][2]>> ELSE toDA[h]]
    <3>1. toDA[n] = <<toDA[n][1], toDA[n][2]>>
      BY <1>3, <1>7, Zenon
    <3>2. [toDA[n] EXCEPT ![1] = onH] = <<onH, toDA[n][2]>>
      BY <3>1
    <3> QED BY <1>3, <1>7, <1>9, <3>2, Zenon
  <2>2. \A h \in 1..final : TrueRecord(posted, h, toDA'[h])
    <3>1. SUFFICES ASSUME NEW h \in 1..final PROVE TrueRecord(posted, h, toDA'[h])
      BY Zenon
    <3>2. TrueRecord(posted, h, toDA[h]) /\ h \in 1..MaxHeight
      <4>1. final \in Nat /\ final <= MaxHeight
        BY <1>2, DAInclusionAssumption DEF LoopControl
      <4>2. h \in 1..MaxHeight
        BY <4>1, DAInclusionAssumption
      <4>3. TrueRecord(posted, h, toDA[h])
        BY <1>2, Zenon DEF Records
      <4> QED BY <4>2, <4>3, Zenon
    <3> QED BY <1>5, <1>9, <2>1, <3>2 DEF TrueRecord
  <2>3. toDA' = [h \in 1..MaxHeight |-> <<toDA'[h][1], toDA'[h][2]>>]
    BY <1>3, <1>7, <2>1, Zenon
  <2> QED BY <1>1, <1>4, <1>9, <2>2, <2>3, Zenon DEF Records
<1>10. CASE /\ onH # 0 /\ onD # 0 /\ toDA' = [toDA EXCEPT ![n] = <<onH, onD>>]
            /\ ipc' = "final"
  <2>1. toDA' = [h \in 1..MaxHeight |-> IF h = n THEN <<onH, onD>> ELSE toDA[h]]
    BY <1>3, <1>7, <1>10, Zenon
  <2>2. TrueRecord(posted, n, toDA'[n])
    BY <1>3, <1>5, <1>6, <1>10, <2>1 DEF TrueRecord
  <2>3. \A h \in 1..final : TrueRecord(posted, h, toDA'[h])
    <3>1. SUFFICES ASSUME NEW h \in 1..final PROVE TrueRecord(posted, h, toDA'[h])
      BY Zenon
    <3>2. TrueRecord(posted, h, toDA[h]) /\ h \in 1..MaxHeight
      <4>1. final \in Nat /\ final <= MaxHeight
        BY <1>2, DAInclusionAssumption DEF LoopControl
      <4>2. h \in 1..MaxHeight
        BY <4>1, DAInclusionAssumption
      <4>3. TrueRecord(posted, h, toDA[h])
        BY <1>2, Zenon DEF Records
      <4> QED BY <4>2, <4>3, Zenon
    <3> QED BY <2>1, <2>2, <3>2, Zenon
  <2>4. toDA' = [h \in 1..MaxHeight |-> <<toDA'[h][1], toDA'[h][2]>>]
    BY <1>3, <1>7, <2>1, Zenon
  <2> QED BY <1>1, <1>4, <1>10, <2>2, <2>3, <2>4, Zenon DEF Records, n
<1> QED BY <1>1, <1>8, <1>9, <1>10, Zenon

LEMMA IncludeBlocksKeeps == ASSUME SubInv, IncludeBlocks PROVE SubInv'
<1>1. /\ UNCHANGED <<scn, height, counter, last, lastDisk, sub, adv, since, posted, onDA>>
      /\ \/ InclCheck(height, IsEmpty(incl + 1)) \/ InclMap(IsEmpty(incl + 1))
         \/ InclFinal(TRUE) \/ InclFinal(FALSE) \/ InclPersist
  BY Zenon DEF IncludeBlocks
<1>2. SubShape' /\ Watermarks' /\ Windows'
  BY <1>1, LoopOnly, Zenon
<1>3. /\ Caches /\ LoopControl /\ Records /\ height \in 0..MaxHeight
      /\ height' = height /\ posted' = posted
  BY <1>1, Zenon DEF SubInv, SubShape
<1>4. CASE InclCheck(height, IsEmpty(incl + 1))
  <2>1. /\ ipc' = "map" /\ incl + 1 <= height
        /\ UNCHANGED <<hc, dc, snap, incl, inclDisk, toDA, final>>
    BY <1>4, Zenon DEF InclCheck
  <2>2. Caches' /\ LoopControl' /\ Records'
    BY <1>3, <2>1, Zenon DEF Caches, LoopControl, Records
  <2> QED BY <1>2, <2>2, Zenon DEF SubInv
<1>5. CASE InclMap(IsEmpty(incl + 1))
  BY <1>2, <1>3, <1>5, InclMapKeeps, Zenon DEF SubInv
<1>6. CASE InclFinal(TRUE)
  <2>1. /\ ipc = "final" /\ final' = incl + 1 /\ ipc' = "persist"
        /\ UNCHANGED <<hc, dc, snap, incl, inclDisk, toDA>>
    BY <1>6, Zenon DEF InclFinal
  <2>2. Caches' /\ LoopControl'
    BY <1>3, <2>1, Zenon DEF Caches, LoopControl
  <2>3. \A h \in 1..final' : h \in 1..final \/ h = incl + 1
    BY <1>3, <2>1, DAInclusionAssumption DEF LoopControl
  <2>4. Records'
    BY <1>3, <2>1, <2>3, Zenon DEF Records
  <2> QED BY <1>2, <2>2, <2>4, Zenon DEF SubInv
<1>7. CASE InclFinal(FALSE)
  <2>1. ipc' = "idle" /\ UNCHANGED <<hc, dc, snap, incl, inclDisk, toDA, final>>
    BY <1>7, Zenon DEF InclFinal
  <2>2. Caches' /\ LoopControl' /\ Records'
    BY <1>3, <2>1, Zenon DEF Caches, LoopControl, Records
  <2> QED BY <1>2, <2>2, Zenon DEF SubInv
<1>8. CASE InclPersist
  <2>1. /\ ipc = "persist" /\ inclDisk' = incl + 1 /\ incl' = incl + 1
        /\ hc' = deleteAllForHeight(hc, incl + 1) /\ dc' = deleteAllForHeight(dc, incl + 1)
        /\ ipc' = "idle" /\ UNCHANGED <<snap, toDA, final>>
    BY <1>8, Zenon DEF InclPersist
  <2>2. Caches'
    BY <1>3, <2>1, DeleteKeepsTrue, Zenon DEF Caches
  <2>3. LoopControl'
    BY <1>3, <2>1, DAInclusionAssumption DEF LoopControl
  <2>4. Records'
    BY <1>3, <2>1, Zenon DEF Records
  <2> QED BY <1>2, <2>2, <2>3, <2>4, Zenon DEF SubInv
<1> QED BY <1>1, <1>4, <1>5, <1>6, <1>7, <1>8, Zenon

-----------------------------------------------------------------------------
(* A process ends: what it had in memory is gone, its disk stays true.     *)
LEMMA EndKeeps ==
  ASSUME SubInv, ForgetMemory, snap' = snap \/ SaveToStore
  PROVE  SubInv'
<1>1. /\ sub' = [k \in Kinds |-> IdleSub] /\ adv' = 0 /\ counter' = 0
      /\ since' = [k \in Kinds |-> 0] /\ last' = lastDisk
      /\ hc' = NewCache /\ dc' = NewCache /\ incl' = inclDisk /\ ipc' = "idle"
      /\ UNCHANGED <<scn, height, lastDisk, posted, onDA, inclDisk, toDA, final>>
  BY Zenon DEF ForgetMemory
<1>2. /\ SubShape /\ Watermarks /\ Caches /\ LoopControl /\ Records
      /\ height \in Nat /\ IdleSub \in SubRecords
  BY IdleWorks, DAInclusionAssumption DEF SubInv, SubShape
<1>3. SubShape'
  BY <1>1, <1>2, DASubmissionAssumption DEF SubShape
<1>4. Watermarks'
  <2>1. SettledTo(posted, height, "data", 0)
    BY <1>2 DEF SettledTo
  <2> QED BY <1>1, <1>2, <2>1, Zenon DEF Watermarks
<1>5. Windows'
  BY <1>1, <1>2, IdleWorks, Zenon DEF Windows
<1>6. Caches'
  <2>1. TrueSnapshot(posted, "header", snap'.h) /\ TrueSnapshot(posted, "data", snap'.d)
    <3>1. CASE snap' = snap
      BY <1>2, <3>1, Zenon DEF Caches
    <3>2. CASE SaveToStore
      <4>1. snap'.h = persistSnapshot(hc) /\ snap'.d = persistSnapshot(dc)
        BY <3>2, Zenon DEF SaveToStore
      <4> QED BY <1>2, <4>1, SnapshotIsTrue, Zenon DEF Caches
    <3> QED BY <3>1, <3>2, Zenon
  <2> QED BY <1>1, <2>1, NewCacheTrue, Zenon DEF Caches
<1>7. LoopControl' /\ Records'
  BY <1>1, <1>2, Zenon DEF LoopControl, Records
<1> QED BY <1>3, <1>4, <1>5, <1>6, <1>7, Zenon DEF SubInv

LEMMA StartSubKeeps == ASSUME SubInv, StartSub PROVE SubInv'
<1>1. /\ UNCHANGED <<scn, height, counter, last, lastDisk, sub, adv, since, posted, onDA>>
      /\ hc' = RestoredCaches[1] /\ dc' = RestoredCaches[2] /\ snap' = snap
      /\ incl' = inclDisk /\ ipc' = "idle" /\ UNCHANGED <<inclDisk, toDA, final>>
  BY Zenon DEF StartSub, InclRestart
<1>2. SubShape' /\ Watermarks' /\ Windows'
  BY <1>1, LoopOnly, Zenon
<1>3. Caches /\ LoopControl /\ Records
  BY Zenon DEF SubInv
<1>4. TrueCache(posted, "header", RestoredCaches[1]) /\ TrueCache(posted, "data", RestoredCaches[2])
  <2> DEFINE h == RestoreFromStore(NewCache, snap.h, inclDisk)
             d == RestoreFromStore(NewCache, snap.d, inclDisk)
  <2>1. TrueCache(posted, "header", h) /\ TrueCache(posted, "data", d)
    BY <1>3, RestoreIsTrue, Zenon DEF Caches
  <2>2. RestoredCaches = IF inclDisk = 0 THEN <<h, d>>
                         ELSE <<setMaxDAHeight(h, toDA[inclDisk][1]),
                                setMaxDAHeight(d, toDA[inclDisk][2])>>
    BY Zenon DEF RestoredCaches
  <2> HIDE DEF h, d
  <2>3. /\ TrueCache(posted, "header", setMaxDAHeight(h, toDA[inclDisk][1]))
        /\ TrueCache(posted, "data", setMaxDAHeight(d, toDA[inclDisk][2]))
    BY <2>1, MaxKeepsTrue, Zenon
  <2> QED BY <2>1, <2>2, <2>3, Zenon
<1>5. Caches'
  BY <1>1, <1>3, <1>4, Zenon DEF Caches
<1>6. LoopControl' /\ Records'
  BY <1>1, <1>3, Zenon DEF LoopControl, Records
<1> QED BY <1>2, <1>5, <1>6, Zenon DEF SubInv

-----------------------------------------------------------------------------
LEMMA StepKeeps ==
  ASSUME Extrema, Beginnings, SubInv, [SubNext]_dasVars
  PROVE  SubInv'
<1>1. CASE Produce
  BY <1>1, ProduceKeeps, Zenon
<1>2. CASE Tick
  BY <1>2, TickKeeps, Zenon
<1>3. CASE Loop
  BY <1>3, LoopKeeps, Zenon
<1>4. ASSUME NEW k \in Kinds, Work(k) PROVE SubInv'
  BY <1>4, BeginKeeps, SubmitKeeps, MarkIncludedKeeps, RaiseLastKeeps, WriteLastKeeps, Zenon DEF Work
<1>5. ASSUME NEW k \in Kinds, SubmitFails(k) PROVE SubInv'
  BY <1>5, SubmitFailsKeeps, Zenon
<1>6. ASSUME NEW k \in Kinds, SubmitTooBig(k) PROVE SubInv'
  BY <1>6, SubmitTooBigKeeps, Zenon
<1>7. CASE IncludeBlocks
  BY <1>7, IncludeBlocksKeeps, Zenon
<1>8. CASE CrashSub
  BY <1>8, EndKeeps, Zenon DEF CrashSub
<1>9. CASE StopSub
  BY <1>9, EndKeeps, Zenon DEF StopSub
<1>10. CASE StartSub
  BY <1>10, StartSubKeeps, Zenon
<1>11. CASE UNCHANGED dasVars
  <2>1. /\ UNCHANGED <<scn, height, counter, last, lastDisk, sub, adv, since, posted, onDA>>
        /\ UNCHANGED <<hc, dc, snap, incl, inclDisk, toDA, ipc, final>>
    BY <1>11, Zenon DEF dasVars, subVars, inclVars
  <2>2. SubShape' /\ Watermarks' /\ Windows'
    BY <2>1, LoopOnly, Zenon
  <2>3. Caches' /\ LoopControl' /\ Records'
    BY <2>1, Zenon DEF SubInv, Caches, LoopControl, Records
  <2> QED BY <2>2, <2>3, Zenon DEF SubInv
<1> QED BY <1>1, <1>2, <1>3, <1>4, <1>5, <1>6, <1>7, <1>8, <1>9, <1>10, <1>11, Zenon DEF SubNext

LEMMA TypesFollow ==
  ASSUME SubInv
  PROVE  SubTypeOK
<1>1. height \in 0..MaxHeight /\ counter \in 0..(CheckInterval - 1)
  BY Zenon DEF SubInv, SubShape
<1>2. ASSUME NEW k \in Kinds
      PROVE  /\ last[k] \in 0..height /\ lastDisk[k] \in 0..height /\ since[k] \in 0..Delay
             /\ sub[k].pc \in {"idle", "try", "mark", "cas", "write"}
             /\ sub[k].backoff \in {0, 1, 2, 4} /\ sub[k].try < MaxSubmitAttempts
             /\ sub[k].items \subseteq Blocks /\ sub[k].got \subseteq sub[k].items
  <2>1. last[k] \in 0..height /\ lastDisk[k] \in 0..height /\ since[k] \in 0..Delay
    BY Zenon DEF SubInv, SubShape, Watermarks, SettledTo
  <2>2. sub[k] \in SubRecords /\ sub[k].items \in SUBSET (1..height) /\ Working(posted, height, k, sub[k])
    BY ItsWindow, Zenon
  <2>3. /\ sub[k].pc \in {"idle", "try", "mark", "cas", "write"}
        /\ sub[k].backoff \in {0, 1, 2, 4} /\ sub[k].try \in 0..(MaxSubmitAttempts - 1)
    BY <2>2, Zenon DEF SubRecords
  <2>4. sub[k].try < MaxSubmitAttempts
    BY <2>3, DASubmissionAssumption
  <2>5. sub[k].items \subseteq Blocks
    BY <1>1, <2>2, DAInclusionAssumption DEF Blocks
  <2> QED BY <2>1, <2>2, <2>3, <2>4, <2>5, Zenon DEF Working
<1> QED BY <1>1, <1>2, Zenon DEF SubTypeOK

LEMMA HonestyFollows ==
  ASSUME Extrema, SubInv
  PROVE  WatermarkHonest
<1> SUFFICES ASSUME NEW k \in Kinds, NEW h \in 1..Max({last[k], lastDisk[k]})
             PROVE  OnDA(k, h) \/ (k = "data" /\ IsEmpty(h))
  BY Zenon DEF WatermarkHonest
<1>1. /\ SettledTo(posted, height, k, last[k]) /\ SettledTo(posted, height, k, lastDisk[k])
      /\ height \in Nat
  BY ItsWindow, Zenon DEF SubInv, Watermarks
<1>2. {last[k], lastDisk[k]} \in SUBSET (0..height) /\ {last[k], lastDisk[k]} # {}
  BY <1>1, Zenon DEF SettledTo
<1>3. Max({last[k], lastDisk[k]}) \in {last[k], lastDisk[k]}
  BY <1>1, <1>2, MaxOf, Zenon
<1>4. Settled(posted, k, h)
  BY <1>1, <1>3, Zenon DEF SettledTo
<1> QED BY <1>4, Zenon DEF Settled, OnDA

LEMMA TruthFollows ==
  ASSUME SubInv
  PROVE  MarksTruthful
<1>1. ASSUME NEW h \in Blocks, NEW k \in Kinds,
             getDAIncludedByHeight(IF k = "header" THEN hc ELSE dc, h) # 0
      PROVE  [k |-> k, h |-> h,
              da |-> getDAIncludedByHeight(IF k = "header" THEN hc ELSE dc, h)] \in posted
  <2>1. TrueCache(posted, "header", hc) /\ TrueCache(posted, "data", dc)
    BY Zenon DEF SubInv, Caches
  <2>2. CASE k = "header"
    BY <1>1, <2>1, <2>2, ReadIsTrue, Zenon
  <2>3. CASE k = "data"
    BY <1>1, <2>1, <2>3, ReadIsTrue, Zenon
  <2> QED BY <2>2, <2>3, Zenon DEF Kinds
<1>2. \A h \in 1..final : TrueRecord(posted, h, toDA[h])
  BY Zenon DEF SubInv, Records
<1> QED BY <1>1, <1>2, Zenon DEF MarksTruthful, TrueRecord

-----------------------------------------------------------------------------
INSTANCE FiniteSetTheorems

(* A set of naturals has a least element and, if bounded, a greatest one. *)
LEMMA LeastOf ==
  ASSUME NEW S \in SUBSET Nat, S # {}
  PROVE  \E m \in S : \A x \in S : m <= x
<1> DEFINE R == {ss \in Nat \X Nat : ss[1] < ss[2]}
<1>1. IsWellFoundedOn(R, Nat)
  BY NatLessThanWellFounded, Zenon DEF OpToRel
<1>2. \A x, y \in Nat : x < y => <<x, y>> \in R
  BY Zenon
<1> HIDE DEF R
<1>3. PICK m \in S : \A x \in S : ~ (<<x, m>> \in R)
  BY <1>1, WFMin, Zenon
<1>4. \A x \in S : ~ (x < m)
  BY <1>2, <1>3, Zenon
<1> QED BY <1>4

LEMMA GreatestOf ==
  ASSUME NEW S \in SUBSET Nat, S # {}, NEW n \in Nat, \A x \in S : x <= n
  PROVE  \E m \in S : \A x \in S : m >= x
<1> DEFINE Bounds == {b \in Nat : \A x \in S : x <= b}
<1>1. n \in Bounds /\ Bounds \in SUBSET Nat
  BY Zenon
<1>2. PICK m \in Bounds : \A b \in Bounds : m <= b
  <2> HIDE DEF Bounds
  <2> QED BY <1>1, LeastOf, Zenon
<1>3. m \in S
  <2>1. SUFFICES ASSUME m \notin S PROVE FALSE
    BY Zenon
  <2>2. \A x \in S : x <= m - 1
    BY <2>1
  <2>3. PICK x \in S : TRUE
    BY Zenon
  <2>4. m - 1 \in Bounds
    BY <2>2, <2>3
  <2> QED
    BY <1>2, <2>4
<1> QED
  BY <1>2, <1>3, Zenon

LEMMA MaxExists ==
  ASSUME NEW n \in Nat, NEW S \in SUBSET (0..n), S # {}
  PROVE  Max(S) \in S /\ \A x \in S : x <= Max(S)
<1>1. S \in SUBSET Nat /\ \A x \in S : x <= n
  OBVIOUS
<1>2. \E m \in S : \A x \in S : m >= x
  BY <1>1, GreatestOf, Zenon
<1>3. Max(S) \in S /\ \A x \in S : Max(S) >= x
  BY <1>2, Zenon DEF Max
<1> QED BY <1>1, <1>3, Zenon

LEMMA MinExists ==
  ASSUME NEW S \in SUBSET Nat, S # {}
  PROVE  Min(S) \in S
<1>1. \E m \in S : \A x \in S : m <= x
  BY LeastOf, Zenon
<1> QED BY <1>1, Zenon DEF Min

LEMMA FiniteWindow ==
  ASSUME NEW top \in Nat, NEW items \in SUBSET (1..top)
  PROVE  IsFiniteSet(items) /\ items \in SUBSET Nat
<1>1. IsFiniteSet(1..top)
  BY FS_Interval
<1>2. IsFiniteSet(items)
  BY <1>1, FS_Subset, Zenon
<1> QED BY <1>2

(* The first n items are a beginning of the items, and there is one.       *)
LEMMA FirstOfCut ==
  ASSUME NEW top \in Nat, NEW items \in SUBSET (1..top), NEW n \in Nat
  PROVE  /\ Prefix(FirstOf(items, n), items)
         /\ items # {} /\ n >= 1 => FirstOf(items, n) # {}
<1> DEFINE Upto(h) == {x \in items : x <= h}
<1>0. IsFiniteSet(items) /\ \A h : IsFiniteSet(Upto(h)) /\ Cardinality(Upto(h)) \in Nat
  <2>1. IsFiniteSet(items)
    BY FiniteWindow, Zenon
  <2>2. \A h : Upto(h) \subseteq items
    BY Zenon
  <2> QED BY <2>1, <2>2, FS_Subset, FS_CardinalityType, Zenon
<1>1. \A g, h \in items : h <= g => Cardinality(Upto(h)) <= Cardinality(Upto(g))
  <2>1. SUFFICES ASSUME NEW g \in items, NEW h \in items, h <= g
                 PROVE  Cardinality(Upto(h)) <= Cardinality(Upto(g))
    BY Zenon
  <2>2. Upto(h) \subseteq Upto(g)
    <3>1. \A x \in items : x \in Nat
      BY FiniteWindow, Zenon
    <3>2. \A x \in items : x <= h => x <= g
      BY <2>1, <3>1
    <3> QED BY <3>2, Zenon
  <2> HIDE DEF Upto
  <2> QED BY <1>0, <2>2, FS_Subset, Zenon
<1>2. FirstOf(items, n) = {h \in items : Cardinality(Upto(h)) <= n}
  BY Zenon DEF FirstOf
<1>3. Prefix(FirstOf(items, n), items)
  <2> HIDE DEF Upto
  <2>1. SUFFICES ASSUME NEW g \in FirstOf(items, n), NEW h \in items, h <= g
                 PROVE  h \in FirstOf(items, n)
    BY <1>2, Zenon DEF Prefix
  <2>2. Cardinality(Upto(h)) <= Cardinality(Upto(g)) /\ Cardinality(Upto(g)) <= n
    BY <1>1, <1>2, <2>1, Zenon
  <2> QED BY <1>0, <1>2, <2>2
<1>4. ASSUME items # {}, n >= 1 PROVE FirstOf(items, n) # {}
  <2>1. PICK m \in items : \A x \in items : m <= x
    BY <1>4, LeastOf, FiniteWindow, Zenon
  <2>2. Upto(m) = {m}
    <3>1. \A x \in items : x \in Nat
      BY FiniteWindow, Zenon
    <3>2. \A x \in items : x <= m <=> x = m
      BY <2>1, <3>1
    <3> QED BY <3>2, Zenon
  <2>3. Cardinality(Upto(m)) = 1
    BY <2>2, FS_Singleton, Zenon
  <2> HIDE DEF Upto
  <2> QED BY <1>2, <1>4, <2>3, Zenon
<1> QED BY <1>3, <1>4, Zenon

(* limitBatchBySize cuts a window to a beginning of it.                    *)
LEMMA LimitCut ==
  ASSUME NEW top \in Nat, NEW items \in SUBSET (1..top), NEW k
  PROVE  Prefix(limitBatchBySize(k, items), items)
<1>1. Cardinality(items) \in Nat
  BY FiniteWindow, FS_CardinalityType, Zenon
<1>2. \A n \in 1..Cardinality(items) : Prefix(FirstOf(items, n), items)
  BY <1>1, FirstOfCut
<1> QED BY <1>2, Zenon DEF limitBatchBySize, Prefix

LEMMA ExtremaHold == Extrema
  BY MaxExists, MinExists, Zenon DEF Extrema

LEMMA BeginningsHold == Beginnings
<1> SUFFICES ASSUME NEW top \in Nat, NEW items \in SUBSET (1..top)
             PROVE  /\ Cardinality(items) \in Nat
                    /\ items # {} => Cardinality(items) # 0
                    /\ \A n \in Nat : /\ Prefix(FirstOf(items, n), items)
                                      /\ items # {} /\ n >= 1 => FirstOf(items, n) # {}
                    /\ \A k : Prefix(limitBatchBySize(k, items), items)
  BY Zenon DEF Beginnings
<1>1. Cardinality(items) \in Nat /\ (items # {} => Cardinality(items) # 0)
  BY FiniteWindow, FS_CardinalityType, FS_EmptySet, Zenon
<1> QED BY <1>1, FirstOfCut, LimitCut, Zenon

LEMMA SubInvStep == SubInv /\ [SubNext]_dasVars => SubInv'
  BY ExtremaHold, BeginningsHold, StepKeeps, Zenon

LEMMA SubInvHolds == SubSpec => []SubInv
  BY SubInitInv, SubInvStep, PTL DEF SubSpec

-----------------------------------------------------------------------------
(* Every variable of the submitter keeps its type, the watermarks stay     *)
(* within the chain and the backoff within its bounds.                     *)
THEOREM SubmissionTypes == SubSpec => []SubTypeOK
<1>1. SubInv => SubTypeOK
  BY TypesFollow, Zenon
<1> QED BY <1>1, SubInvHolds, PTL

(* Every block up to a submission watermark, in memory or on disk, is on   *)
(* the DA layer or has nothing to post, whatever windows were cut, halved  *)
(* or accepted in part and wherever a process stopped.                     *)
THEOREM WatermarksAreHonest == SubSpec => []WatermarkHonest
<1>1. SubInv => WatermarkHonest
  BY HonestyFollows, ExtremaHold, Zenon
<1> QED BY <1>1, SubInvHolds, PTL

(* An inclusion mark of the caches and the DA heights recorded for a final *)
(* block name DA heights at which the block's header and data are.         *)
THEOREM MarksAreTruthful == SubSpec => []MarksTruthful
<1>1. SubInv => MarksTruthful
  BY TruthFollows, Zenon
<1> QED BY <1>1, SubInvHolds, PTL
=============================================================================
