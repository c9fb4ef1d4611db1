------------------------------ MODULE P2PStore ------------------------------
(***************************************************************************)
(* The store adapter that go-header's P2P machinery reads and writes       *)
(* (pkg/store/store_adapter.go): a bounded cache of items received but not *)
(* yet persisted, in front of the node's own store, with a subscription    *)
(* that lets readers wait for a height, and the DA hints of the items.     *)
(*                                                                         *)
(* An item is its height: one chain is considered, so the cache's index by *)
(* hash is the cache itself.  The node's store holds the heights from      *)
(* lowest + 1 to stored; it grows by the node's own commits, without a     *)
(* word to the adapter.  go-header itself is external: it appends, reads   *)
(* and waits.                                                              *)
(***************************************************************************)
EXTENDS Integers, FiniteSets, FiniteSetsExt

CONSTANTS
  Heights,             \* 1..n
  Hinted,              \* the heights whose items carry a DA hint
  Appenders,           \* goroutines that call Append
  Getters,             \* goroutines that call GetByHeight
  Watchers,            \* goroutines that call Height and Head
  maxPendingCacheSize,
  MaxGets              \* bound: calls of GetByHeight

ASSUME P2PStoreAssumption ==
  /\ Cardinality(Heights) \in Nat \ {0} /\ Heights = 1..Cardinality(Heights)
  /\ maxPendingCacheSize \in Nat \ {0}

VARIABLES
  stored, lowest,      \* the node's store: highest height, highest pruned height
  items,               \* pendingCache.items: heights
  initialized,         \* the adapter holds, or was given, a first item
  hints,               \* pendingCache.daHints: the heights with a hint
  queued, diskHint,    \* the hints on their way to, and in, the store's metadata
  subHeight,           \* heightSub.height
  waiters,             \* heightSub.heightChs: <<getter, height>>
  app,                 \* Appenders -> [pc, h]
  get,                 \* Getters -> [pc, h]
  watch,               \* Watchers -> [pc, h]
  gets                 \* calls of GetByHeight so far

hintVars == <<hints, queued, diskHint>>
pVars == <<hintVars, stored, lowest, items, initialized, subHeight, waiters, app, get, watch, gets>>

IdleApp == [pc |-> "idle", h |-> 0]
IdleGet == [pc |-> "idle", h |-> 0]
IdleWatch == [pc |-> "idle", h |-> 0]

\* NewStoreAdapter and Start over a store of some height.
PInit ==
  /\ stored \in {0, 1} /\ lowest = 0
  /\ items = {} /\ hints = {} /\ queued = {} /\ diskHint = {} /\ initialized = (stored > 0)
  /\ subHeight = stored /\ waiters = {}
  /\ app = [a \in Appenders |-> IdleApp]
  /\ get = [g \in Getters |-> IdleGet]
  /\ watch = [w \in Watchers |-> IdleWatch]
  /\ gets = 0

------------------------------------------------------------------------------
\* The store getters, of headers and of data alike.
InStore(h) == lowest < h /\ h <= stored
\* getByHeightNoWait, and HasAt of the adapter.
HasAt(h) == InStore(h) \/ h \in items
\* pendingCache.maxHeight, kept by add, delete and pruneIf.
MaxPending == IF items = {} THEN 0 ELSE Max(items)

\* Head and Height: the higher of store and cache.
HeadHeight == IF MaxPending > stored THEN MaxPending ELSE stored

\* StoreTail: the height after the last pruned one, then the cached first item, then
\* the first height found on the way up; 0 when nothing is held.
StoreTail ==
  LET start == lowest + 1
      above == {h \in Heights : start < h /\ h <= subHeight /\ HasAt(h)}
  IN CASE subHeight = 0 /\ stored = 0 -> 0
       [] InStore(start) -> start
       [] ~InStore(start) /\ 1 \in items -> 1
       [] ~InStore(start) /\ 1 \notin items /\ above # {} -> Min(above)
       [] OTHER -> 0

\* notifyUpTo: waiters up to the height are woken.
Woken(h) == {w \in waiters : w[2] <= h}
Wake(h) ==
  /\ waiters' = waiters \ Woken(h)
  /\ get' = [g \in Getters |-> IF \E w \in Woken(h) : w[1] = g
                               THEN [get[g] EXCEPT !.pc = "again"] ELSE get[g]]

------------------------------------------------------------------------------
\* Append of an item: one that the store has is skipped, with its hint.
AppendBegin(a) ==
  /\ app[a].pc = "idle"
  /\ \E h \in Heights :
       ~InStore(h) /\ app' = [app EXCEPT ![a] = [pc |-> "space", h |-> h]]
  /\ UNCHANGED <<stored, lowest, items, hintVars, subHeight, waiters, get, watch, gets, initialized>>

HasSpace(is) == Cardinality(is) < maxPendingCacheSize

\* mutant: the next height counts as persisted too.
prunePersisted_TooFar(is) == {h \in is : h > stored + 1}

\* prunePersisted: what the store has reached is dropped from the cache.
prunePersisted(is) == IF stored = 0 THEN is ELSE {h \in is : h > stored}

\* waitForSpace: a full cache is pruned; one still full is tried again later.
WaitForSpace(a) ==
  /\ app[a].pc = "space"
  /\ \/ HasSpace(items) /\ UNCHANGED <<items, hintVars>> /\ app' = [app EXCEPT ![a].pc = "add"]
     \/ /\ ~HasSpace(items)
        /\ items' = prunePersisted(items)
        /\ hints' = hints \ (items \ prunePersisted(items)) /\ UNCHANGED <<queued, diskHint>>
        /\ app' = IF HasSpace(prunePersisted(items)) THEN [app EXCEPT ![a].pc = "add"] ELSE app
  /\ UNCHANGED <<stored, lowest, subHeight, waiters, get, watch, gets, initialized>>

\* SetDAHint: a metadata write, which the node's store queues.
SetDAHint(h) == queued' = queued \cup {h}

\* pendingCache.add and the hint on its way to disk.
AddPending(a) ==
  /\ app[a].pc = "add"
  /\ items' = items \cup {app[a].h}
  /\ IF app[a].h \in Hinted
       THEN hints' = hints \cup {app[a].h} /\ SetDAHint(app[a].h)
       ELSE UNCHANGED <<hints, queued>>
  /\ app' = [app EXCEPT ![a].pc = "height"]
  /\ UNCHANGED <<stored, lowest, diskHint, subHeight, waiters, get, watch, gets, initialized>>

\* SetHeight: the height is stored, then the waiters are notified.
AppendHeight(a) ==
  /\ app[a].pc = "height"
  /\ IF app[a].h > subHeight
       THEN subHeight' = app[a].h /\ app' = [app EXCEPT ![a].pc = "notify"]
       ELSE app' = [app EXCEPT ![a] = IdleApp] /\ UNCHANGED subHeight
  /\ UNCHANGED <<stored, lowest, items, hintVars, waiters, get, watch, gets, initialized>>

AppendNotify(a) ==
  /\ app[a].pc = "notify"
  /\ Wake(app[a].h)
  /\ app' = [app EXCEPT ![a] = IdleApp]
  /\ UNCHANGED <<stored, lowest, items, hintVars, subHeight, watch, gets, initialized>>

------------------------------------------------------------------------------
\* Height and Head, whose answer may be old when it is stored as the height.
WatchRead(w) ==
  /\ watch[w].pc = "idle" /\ HeadHeight > 0
  /\ watch' = [watch EXCEPT ![w] = [pc |-> "set", h |-> HeadHeight]]
  /\ UNCHANGED <<stored, lowest, items, hintVars, subHeight, waiters, app, get, gets, initialized>>

WatchSet(w) ==
  /\ watch[w].pc = "set"
  /\ subHeight' = watch[w].h
  /\ watch' = [watch EXCEPT ![w].pc = "notify"]
  /\ UNCHANGED <<stored, lowest, items, hintVars, waiters, app, get, gets, initialized>>

WatchNotify(w) ==
  /\ watch[w].pc = "notify"
  /\ Wake(watch[w].h)
  /\ watch' = [watch EXCEPT ![w] = IdleWatch]
  /\ UNCHANGED <<stored, lowest, items, hintVars, subHeight, app, gets, initialized>>

------------------------------------------------------------------------------
\* GetByHeight: an attempt, a wait for the height, another attempt.
GetBegin(g) ==
  /\ get[g].pc = "idle" /\ gets < MaxGets /\ gets' = gets + 1
  /\ \E h \in Heights :
       get' = [get EXCEPT ![g] = IF HasAt(h) THEN IdleGet ELSE [pc |-> "fast", h |-> h]]
  /\ UNCHANGED <<stored, lowest, items, hintVars, subHeight, waiters, app, watch, initialized>>

\* The fast path of Wait.
WaitFast(g) ==
  /\ get[g].pc = "fast"
  /\ get' = [get EXCEPT ![g].pc = IF subHeight >= get[g].h THEN "again" ELSE "lock"]
  /\ UNCHANGED <<stored, lowest, items, hintVars, subHeight, waiters, app, watch, gets, initialized>>

\* mutant: the height is not looked at again under the lock.
WaitLocked_Unchecked(g) ==
  /\ get[g].pc = "lock"
  /\ waiters' = waiters \cup {<<g, get[g].h>>}
  /\ get' = [get EXCEPT ![g].pc = "wait"]
  /\ UNCHANGED <<stored, lowest, items, hintVars, subHeight, app, watch, gets, initialized>>

\* Under the lock: the second look and the registration.
WaitLocked(g) ==
  /\ get[g].pc = "lock"
  /\ IF subHeight >= get[g].h
       THEN get' = [get EXCEPT ![g].pc = "again"] /\ UNCHANGED waiters
       ELSE /\ waiters' = waiters \cup {<<g, get[g].h>>}
            /\ get' = [get EXCEPT ![g].pc = "wait"]
  /\ UNCHANGED <<stored, lowest, items, hintVars, subHeight, app, watch, gets, initialized>>

\* The second attempt: the item, or not found.
GetAgain(g) ==
  /\ get[g].pc = "again"
  /\ get' = [get EXCEPT ![g] = IdleGet]
  /\ UNCHANGED <<stored, lowest, items, hintVars, subHeight, waiters, app, watch, gets, initialized>>

\* The context ends: removeWaiter.
GetCanceled(g) ==
  /\ get[g].pc = "wait"
  /\ waiters' = waiters \ {<<g, get[g].h>>}
  /\ get' = [get EXCEPT ![g] = IdleGet]
  /\ UNCHANGED <<stored, lowest, items, hintVars, subHeight, app, watch, gets, initialized>>

------------------------------------------------------------------------------
\* Init: go-header gives an empty adapter its first, trusted item.
InitStore ==
  /\ ~initialized /\ initialized' = TRUE
  /\ \E h \in Heights :
       /\ items' = items \cup {h}
       /\ subHeight' = h /\ Wake(h)
  /\ UNCHANGED <<stored, lowest, hintVars, app, watch, gets>>

\* The queued metadata writes reach the disk.
FlushHints ==
  /\ queued # {} /\ queued' = {} /\ diskHint' = diskHint \cup queued
  /\ UNCHANGED <<stored, lowest, items, hints, subHeight, waiters, app, get, watch, gets, initialized>>

\* The node commits the next block; the pruner drops the lowest, hint included.
Commits ==
  /\ stored + 1 \in Heights /\ stored' = stored + 1
  /\ UNCHANGED <<lowest, items, hintVars, subHeight, waiters, app, get, watch, gets, initialized>>
Prunes ==
  /\ lowest + 1 < stored /\ lowest' = lowest + 1
  /\ diskHint' = diskHint \ {lowest + 1}
  /\ UNCHANGED <<stored, items, hints, queued, subHeight, waiters, app, get, watch, gets, initialized>>

PNext ==
  \/ \E a \in Appenders : AppendBegin(a) \/ WaitForSpace(a) \/ AddPending(a) \/ AppendHeight(a) \/ AppendNotify(a)
  \/ \E w \in Watchers : WatchRead(w) \/ WatchSet(w) \/ WatchNotify(w)
  \/ \E g \in Getters : GetBegin(g) \/ WaitFast(g) \/ WaitLocked(g) \/ GetAgain(g) \/ GetCanceled(g)
  \/ InitStore \/ FlushHints \/ Commits \/ Prunes

PSpec == PInit /\ [][PNext]_pVars
------------------------------------------------------------------------------
\* Types; a waiting reader, and no other, is registered with the subscription.
PTypeOK ==
  /\ items \subseteq Heights /\ stored \in 0..Cardinality(Heights) /\ lowest <= stored
  /\ waiters = {<<g, get[g].h>> : g \in {x \in Getters : get[x].pc = "wait"}}

\* A reader never keeps waiting for a height that the subscription has passed,
\* except while the notification is on its way: no wake-up is lost between the
\* look at the height and the registration.
NoWakeUpLost ==
  \A g \in Getters :
    get[g].pc = "wait" /\ subHeight >= get[g].h
      => \/ \E a \in Appenders : app[a].pc = "notify" /\ app[a].h >= get[g].h
         \/ \E w \in Watchers : watch[w].pc = "notify" /\ watch[w].h >= get[g].h

\* What was available by height stays so until the pruner takes it: pruning the
\* cache never drops an item that is not persisted.
StaysAvailable == [][\A h \in Heights : HasAt(h) => HasAt(h)' \/ h <= lowest']_pVars

\* The hint that came with an item is not lost before the pruner takes its height:
\* it is cached, on disk, or queued for it, also when the item has left the cache
\* (Append, prunePersisted).
HintHeld(h) == h \in hints \cup queued \cup diskHint
HintKept == [][\A h \in Heights : HintHeld(h) => HintHeld(h)' \/ h <= lowest']_pVars

\* The tail served to peers is the lowest height held that is not pruned: no peer
\* is told that the chain begins above an item that could be served.
TailLowest == StoreTail # 0 => HasAt(StoreTail) /\ \A h \in Heights : HasAt(h) /\ h > lowest => StoreTail <= h
=============================================================================
