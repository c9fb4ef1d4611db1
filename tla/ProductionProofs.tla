-------------------------- MODULE ProductionProofs --------------------------
(***************************************************************************)
(* Proofs about the production of a block and the store it is gossiped     *)
(* from.                                                                   *)
(*                                                                         *)
(* Block production over an execution layer (Executor), for any payloads   *)
(* and any bounds: the store and the execution layer agree, the committed  *)
(* state roots are honest, and no height is signed twice, over any number  *)
(* of crashes, lost execution blocks, failures and start-ups.              *)
(*                                                                         *)
(* The P2P store adapter (P2PStore), for any number of heights, appenders, *)
(* readers and watchers and any size of the cache: the subscription loses  *)
(* no wake-up, and the cache and the hints of an item outlive every        *)
(* pruning of the cache.                                                   *)
(***************************************************************************)
EXTENDS Executor, P2PStore, TLAPS

-----------------------------------------------------------------------------
(* The P2P store adapter.                                                  *)
INSTANCE WellFoundedInduction

Top == Cardinality(Heights)

(* The places of the goroutines, with the height each has in hand.         *)
Places ==
  /\ app \in [Appenders -> [pc : {"idle", "space", "add", "height", "notify"}, h : 0..Top]]
  /\ get \in [Getters -> [pc : {"idle", "fast", "lock", "wait", "again"}, h : 0..Top]]
  /\ watch \in [Watchers -> [pc : {"idle", "set", "notify"}, h : 0..Top]]
  /\ \A a \in Appenders : app[a].pc # "idle" => app[a].h \in Heights

Levels ==
  /\ stored \in 0..Top /\ lowest \in 0..Top /\ subHeight \in 0..Top
  /\ lowest <= stored /\ items \subseteq Heights /\ hints \subseteq Heights

(* A waiting reader is registered with the height it waits for.            *)
Registered == waiters = {<<g, get[g].h>> : g \in {x \in Getters : get[x].pc = "wait"}}

(* A hint in the cache is in the metadata too, or on its way there, as     *)
(* long as its height is not pruned: dropping it from the cache is safe.   *)
HintsBacked == \A h \in hints : h \in queued \cup diskHint \/ h <= lowest

PInv == Places /\ Levels /\ Registered /\ NoWakeUpLost /\ HintsBacked

-----------------------------------------------------------------------------
LEMMA TopType == Top \in Nat /\ Heights = 1..Top /\ 1 <= Top
  BY P2PStoreAssumption DEF Top

(* A set of naturals has a least element and, if bounded, a greatest one. *)
LEMMA LeastOf ==
  ASSUME NEW S \in SUBSET Nat, S # {}
  PROVE  \E m \in S : \A x \in S : m <= x
<1> DEFINE R == {ss \in Nat \X Nat : ss[1] < ss[2]}
<1>1. IsWellFoundedOn(R, Nat)
  BY NatLessThanWellFounded, Zenon DEF OpToRel
<1>2. \A x, y \in Nat : x < y => <<x, y>> \in R
  BY Zenon
<1> HIDE DEF R
<1>3. PICK m \in S : \A x \in S : ~ (<<x, m>> \in R)
  BY <1>1, WFMin, Zenon
<1>4. \A x \in S : ~ (x < m)
  BY <1>2, <1>3, Zenon
<1> QED BY <1>4

LEMMA GreatestOf ==
  ASSUME NEW S \in SUBSET Nat, S # {}, NEW n \in Nat, \A x \in S : x <= n
  PROVE  \E m \in S : \A x \in S : m >= x
<1> DEFINE Bounds == {b \in Nat : \A x \in S : x <= b}
<1>1. n \in Bounds /\ Bounds \in SUBSET Nat
  BY Zenon
<1>2. PICK m \in Bounds : \A b \in Bounds : m <= b
  <2> HIDE DEF Bounds
  <2> QED BY <1>1, LeastOf, Zenon
<1>3. m \in S
  <2>1. SUFFICES ASSUME m \notin S PROVE FALSE
    BY Zenon
  <2>2. \A x \in S : x <= m - 1
    BY <2>1
  <2>3. PICK x \in S : TRUE
    BY Zenon
  <2>4. m - 1 \in Bounds
    BY <2>2, <2>3
  <2> QED
    BY <1>2, <2>4
<1> QED
  BY <1>2, <1>3, Zenon
(* The head that Height answers is a height of the chain.                  *)
LEMMA MaxOfHeights ==
  ASSUME NEW S \in SUBSET Heights, S # {}
  PROVE  Max(S) \in S
<1>1. S \in SUBSET Nat /\ \A x \in S : x <= Top
  BY TopType
<1>2. \E m \in S : \A x \in S : m >= x
  BY <1>1, TopType, GreatestOf, Zenon
<1> QED
  BY <1>2, Zenon DEF Max

LEMMA HeadType ==
  ASSUME Levels
  PROVE  HeadHeight \in 0..Top
<1>1. items # {} => Max(items) \in Heights
  BY MaxOfHeights, Zenon DEF Levels
<1> HIDE DEF Max
<1> QED
  BY <1>1, TopType DEF Levels, HeadHeight, MaxPending

LEMMA InitInv == PInit => PInv
BY TopType DEF PInit, PInv, Places, Levels, Registered, NoWakeUpLost, HintsBacked, IdleApp, IdleGet, IdleWatch

-----------------------------------------------------------------------------
(* Notifying up to a height leaves exactly the readers that wait for more. *)
LEMMA WakeLeaves ==
  ASSUME Places, Registered, NEW h \in 0..Top, Wake(h)
  PROVE  /\ get' \in [Getters -> [pc : {"idle", "fast", "lock", "wait", "again"}, h : 0..Top]]
         /\ Registered'
         /\ \A g \in Getters : get'[g].pc = "wait" =>
              get[g].pc = "wait" /\ get'[g].h = get[g].h /\ get[g].h > h
<1> DEFINE Up == {g \in Getters : get[g].pc = "wait" /\ get[g].h <= h}
<1>1. \A g \in Getters : (\E w \in Woken(h) : w[1] = g) <=> g \in Up
  <2>1. ASSUME NEW g \in Getters, NEW w \in Woken(h), w[1] = g
        PROVE  g \in Up
    <3>1. PICK x \in Getters : get[x].pc = "wait" /\ w = <<x, get[x].h>>
      BY <2>1, Zenon DEF Woken, Registered
    <3>2. x = g /\ w[2] = get[g].h /\ w[2] <= h
      BY <2>1, <3>1, Zenon DEF Woken
    <3> QED BY <3>1, <3>2, Zenon
  <2>2. ASSUME NEW g \in Up
        PROVE  \E w \in Woken(h) : w[1] = g
    <3>1. <<g, get[g].h>> \in waiters
      BY <2>2, Zenon DEF Registered
    <3>2. <<g, get[g].h>> \in Woken(h)
      BY <2>2, <3>1, Zenon DEF Woken
    <3> QED BY <3>2, Zenon
  <2> QED BY <2>1, <2>2, Zenon
<1>2. get' = [g \in Getters |-> IF g \in Up THEN [get[g] EXCEPT !.pc = "again"] ELSE get[g]]
  BY <1>1, Zenon DEF Wake
<1>3. waiters' = {<<g, get[g].h>> : g \in {x \in Getters : get[x].pc = "wait" /\ ~(get[x].h <= h)}}
  BY DEF Wake, Woken, Registered
<1>4. \A g \in Getters : /\ g \in Up => get'[g].pc = "again" /\ get'[g].h = get[g].h
                         /\ g \notin Up => get'[g] = get[g]
  BY <1>2, Zenon DEF Places
<1>5. get' \in [Getters -> [pc : {"idle", "fast", "lock", "wait", "again"}, h : 0..Top]]
  BY <1>2 DEF Places
<1>6. \A g \in Getters : get'[g].pc = "wait" <=> get[g].pc = "wait" /\ ~(get[g].h <= h)
  BY <1>4, Zenon
<1>7. \A g \in Getters : get'[g].pc = "wait" => get'[g].h = get[g].h /\ get[g].h > h
  BY <1>4, <1>6, TopType DEF Places
<1>8. Registered'
  <2>1. {<<g, get[g].h>> : g \in {x \in Getters : get[x].pc = "wait" /\ ~(get[x].h <= h)}}
          = {<<g, get'[g].h>> : g \in {x \in Getters : get'[x].pc = "wait"}}
    BY <1>6, <1>7, Zenon
  <2> QED BY <1>3, <2>1, Zenon DEF Registered
<1> QED BY <1>5, <1>6, <1>7, <1>8, Zenon

-----------------------------------------------------------------------------
(* One lemma per goroutine, one step per action.                           *)
LEMMA AppenderInv ==
  ASSUME PInv, NEW a \in Appenders,
         AppendBegin(a) \/ WaitForSpace(a) \/ AddPending(a) \/ AppendHeight(a) \/ AppendNotify(a)
  PROVE  PInv'
<1> USE TopType DEF PInv
<1>1. CASE AppendBegin(a)
  <2>1. PICK h \in Heights : app' = [app EXCEPT ![a] = [pc |-> "space", h |-> h]]
    BY <1>1, Zenon DEF AppendBegin
  <2>2. /\ stored' = stored /\ lowest' = lowest /\ items' = items /\ subHeight' = subHeight
        /\ waiters' = waiters /\ get' = get /\ watch' = watch /\ app[a].pc = "idle"
        /\ hints' = hints /\ queued' = queued /\ diskHint' = diskHint
    BY <1>1, Zenon DEF AppendBegin, hintVars
  <2>3. Places'
    BY <2>1, <2>2 DEF Places
  <2>4. Levels' /\ Registered' /\ HintsBacked'
    BY <2>2, Zenon DEF Levels, Registered, HintsBacked
  <2>5. \A b \in Appenders : app[b].pc = "notify" => app'[b] = app[b]
    BY <2>1, <2>2, Zenon DEF Places
  <2>6. NoWakeUpLost'
    BY <2>2, <2>5, Zenon DEF NoWakeUpLost
  <2> QED BY <2>3, <2>4, <2>6, Zenon
<1>2. CASE WaitForSpace(a)
  <2>1. /\ stored' = stored /\ lowest' = lowest /\ subHeight' = subHeight /\ waiters' = waiters
        /\ get' = get /\ watch' = watch /\ queued' = queued /\ diskHint' = diskHint
        /\ items' \subseteq items /\ hints' \subseteq hints
        /\ app' = app \/ app' = [app EXCEPT ![a].pc = "add"]
    BY <1>2, Zenon DEF WaitForSpace, hintVars, prunePersisted
  <2>2. app[a].pc = "space"
    BY <1>2, Zenon DEF WaitForSpace
  <2>3. Places'
    <3>1. CASE app' = app
      BY <2>1, <3>1, Zenon DEF Places
    <3>2. CASE app' = [app EXCEPT ![a].pc = "add"]
      BY <2>1, <2>2, <3>2 DEF Places
    <3> QED BY <2>1, <3>1, <3>2, Zenon
  <2>4. Levels' /\ Registered' /\ HintsBacked'
    BY <2>1, Zenon DEF Levels, Registered, HintsBacked
  <2>5. NoWakeUpLost'
    BY <2>1, <2>2, Zenon DEF NoWakeUpLost, Places
  <2> QED BY <2>3, <2>4, <2>5, Zenon
<1>3. CASE AddPending(a)
  <2>1. /\ stored' = stored /\ lowest' = lowest /\ subHeight' = subHeight /\ waiters' = waiters
        /\ get' = get /\ watch' = watch /\ diskHint' = diskHint
        /\ items' = items \cup {app[a].h} /\ app' = [app EXCEPT ![a].pc = "height"]
        /\ app[a].pc = "add"
    BY <1>3, Zenon DEF AddPending
  <2>2. \/ hints' = hints /\ queued' = queued
        \/ hints' = hints \cup {app[a].h} /\ queued' = queued \cup {app[a].h}
    BY <1>3, Zenon DEF AddPending, SetDAHint
  <2>3. Places' /\ Levels'
    BY <2>1, <2>2 DEF Places, Levels
  <2>6. \A b \in Appenders : app[b].pc = "notify" => app'[b] = app[b]
    BY <2>1, Zenon DEF Places
  <2>4. Registered' /\ NoWakeUpLost'
    BY <2>1, <2>6 DEF Registered, NoWakeUpLost
  <2>5. HintsBacked'
    BY <2>1, <2>2, Zenon DEF HintsBacked
  <2> QED BY <2>3, <2>4, <2>5, Zenon
<1>4. CASE AppendHeight(a)
  <2>1. /\ stored' = stored /\ lowest' = lowest /\ items' = items /\ waiters' = waiters
        /\ get' = get /\ watch' = watch /\ hints' = hints /\ queued' = queued /\ diskHint' = diskHint
        /\ app[a].pc = "height"
        /\ \/ app[a].h > subHeight /\ subHeight' = app[a].h /\ app' = [app EXCEPT ![a].pc = "notify"]
           \/ app' = [app EXCEPT ![a] = IdleApp] /\ subHeight' = subHeight
    BY <1>4, Zenon DEF AppendHeight, hintVars
  <2>2. Places' /\ Levels'
    <3>1. Levels'
      BY <2>1, Zenon DEF Places, Levels
    <3>2. CASE app' = [app EXCEPT ![a].pc = "notify"]
      <4>1. app' \in [Appenders -> [pc : {"idle", "space", "add", "height", "notify"}, h : 0..Top]]
        BY <3>2, ZenonT(40) DEF Places
      <4>2. \A b \in Appenders : app'[b].h = app[b].h /\ (app'[b].pc # "idle" => app[b].pc # "idle")
        BY <2>1, <3>2, Zenon DEF Places
      <4> QED BY <2>1, <3>1, <4>1, <4>2, Zenon DEF Places
    <3>3. CASE app' = [app EXCEPT ![a] = IdleApp]
      BY <2>1, <3>1, <3>3 DEF Places, IdleApp
    <3> QED BY <2>1, <3>2, <3>3, Zenon
  <2>3. Registered' /\ HintsBacked'
    BY <2>1, Zenon DEF Registered, HintsBacked
  <2>4. CASE subHeight' = app[a].h /\ app' = [app EXCEPT ![a].pc = "notify"]
    <3>1. app'[a].pc = "notify" /\ app'[a].h = subHeight'
      BY <2>4 DEF Places
    <3>2. NoWakeUpLost'
      BY <2>1, <2>2, <3>1, Zenon DEF NoWakeUpLost, Places, Levels
    <3> QED BY <2>2, <2>3, <3>2, Zenon
  <2>5. CASE app' = [app EXCEPT ![a] = IdleApp] /\ subHeight' = subHeight
    <3>1. \A b \in Appenders : app[b].pc = "notify" => app'[b] = app[b]
      BY <2>1, <2>5, Zenon DEF Places
    <3>2. NoWakeUpLost'
      BY <2>1, <2>5, <3>1 DEF NoWakeUpLost
    <3> QED BY <2>2, <2>3, <3>2, Zenon
  <2> QED BY <2>1, <2>4, <2>5, Zenon
<1>5. CASE AppendNotify(a)
  <2>1. /\ stored' = stored /\ lowest' = lowest /\ items' = items /\ subHeight' = subHeight
        /\ watch' = watch /\ hints' = hints /\ queued' = queued /\ diskHint' = diskHint
        /\ app[a].pc = "notify" /\ Wake(app[a].h) /\ app' = [app EXCEPT ![a] = IdleApp]
    BY <1>5, Zenon DEF AppendNotify, hintVars
  <2>2. app[a].h \in 0..Top
    BY Zenon DEF Places
  <2>3. /\ get' \in [Getters -> [pc : {"idle", "fast", "lock", "wait", "again"}, h : 0..Top]]
        /\ Registered'
        /\ \A g \in Getters : get'[g].pc = "wait" =>
             get[g].pc = "wait" /\ get'[g].h = get[g].h /\ get[g].h > app[a].h
    BY <2>1, <2>2, WakeLeaves, Zenon
  <2>4. Places' /\ Levels' /\ HintsBacked'
    BY <2>1, <2>3 DEF Places, Levels, HintsBacked, IdleApp
  <2>5. \A b \in Appenders : b # a => app'[b] = app[b]
    BY <2>1, Zenon DEF Places
  <2>6. NoWakeUpLost'
    <3>1. SUFFICES ASSUME NEW g \in Getters, get'[g].pc = "wait", subHeight' >= get'[g].h
                   PROVE  \/ \E b \in Appenders : app'[b].pc = "notify" /\ app'[b].h >= get'[g].h
                          \/ \E w \in Watchers : watch'[w].pc = "notify" /\ watch'[w].h >= get'[g].h
      BY Zenon DEF NoWakeUpLost
    <3>2. get[g].pc = "wait" /\ get'[g].h = get[g].h /\ get[g].h > app[a].h
      BY <2>3, <3>1, Zenon
    <3>3. ~(app[a].h >= get[g].h)
      BY <2>2, <3>2 DEF Places
    <3> QED BY <2>1, <2>5, <3>1, <3>2, <3>3, Zenon DEF NoWakeUpLost
  <2> QED BY <2>3, <2>4, <2>6, Zenon
<1> QED BY <1>1, <1>2, <1>3, <1>4, <1>5, Zenon

LEMMA WatcherInv ==
  ASSUME PInv, NEW w \in Watchers, WatchRead(w) \/ WatchSet(w) \/ WatchNotify(w)
  PROVE  PInv'
<1> USE TopType DEF PInv
<1>1. CASE WatchRead(w)
  <2>1. HeadHeight \in 0..Top
    BY HeadType, Zenon
  <2>2. /\ stored' = stored /\ lowest' = lowest /\ items' = items /\ waiters' = waiters /\ subHeight' = subHeight
        /\ get' = get /\ app' = app /\ hints' = hints /\ queued' = queued /\ diskHint' = diskHint
        /\ watch[w].pc = "idle" /\ watch' = [watch EXCEPT ![w] = [pc |-> "set", h |-> HeadHeight]]
    BY <1>1, Zenon DEF WatchRead, hintVars
  <2> HIDE DEF HeadHeight
  <2>3. Places' /\ Levels' /\ Registered' /\ HintsBacked'
    BY <2>1, <2>2 DEF Places, Levels, Registered, HintsBacked
  <2>4. \A v \in Watchers : watch[v].pc = "notify" => watch'[v] = watch[v]
    BY <2>2, Zenon DEF Places
  <2>5. NoWakeUpLost'
    BY <2>2, <2>4, Zenon DEF NoWakeUpLost
  <2> QED BY <2>3, <2>5, Zenon
<1>2. CASE WatchSet(w)
  <2>1. /\ stored' = stored /\ lowest' = lowest /\ items' = items /\ waiters' = waiters
        /\ get' = get /\ app' = app /\ hints' = hints /\ queued' = queued /\ diskHint' = diskHint
        /\ subHeight' = watch[w].h /\ watch' = [watch EXCEPT ![w].pc = "notify"]
    BY <1>2, Zenon DEF WatchSet, hintVars
  <2>2. Places' /\ Levels' /\ Registered' /\ HintsBacked'
    <3>1. watch' \in [Watchers -> [pc : {"idle", "set", "notify"}, h : 0..Top]]
      BY <2>1, Zenon DEF Places
    <3>2. subHeight' \in 0..Top
      BY <2>1, Zenon DEF Places
    <3>3. Places' /\ Levels'
      BY <2>1, <3>1, <3>2, Zenon DEF Places, Levels
    <3>4. Registered' /\ HintsBacked'
      BY <2>1, Zenon DEF Registered, HintsBacked
    <3> QED BY <3>3, <3>4, Zenon
  <2>3. watch'[w].pc = "notify" /\ watch'[w].h = subHeight'
    BY <2>1, Zenon DEF Places
  <2>4. NoWakeUpLost'
    BY <2>3, Zenon DEF NoWakeUpLost
  <2> QED BY <2>2, <2>4, Zenon
<1>3. CASE WatchNotify(w)
  <2>1. /\ stored' = stored /\ lowest' = lowest /\ items' = items /\ subHeight' = subHeight
        /\ app' = app /\ hints' = hints /\ queued' = queued /\ diskHint' = diskHint
        /\ Wake(watch[w].h) /\ watch' = [watch EXCEPT ![w] = IdleWatch]
    BY <1>3, Zenon DEF WatchNotify, hintVars
  <2>2. watch[w].h \in 0..Top
    BY Zenon DEF Places
  <2>3. /\ get' \in [Getters -> [pc : {"idle", "fast", "lock", "wait", "again"}, h : 0..Top]]
        /\ Registered'
        /\ \A g \in Getters : get'[g].pc = "wait" =>
             get[g].pc = "wait" /\ get'[g].h = get[g].h /\ get[g].h > watch[w].h
    BY <2>1, <2>2, WakeLeaves, Zenon
  <2>4. Places' /\ Levels' /\ HintsBacked'
    BY <2>1, <2>3 DEF Places, Levels, HintsBacked, IdleWatch
  <2>5. \A v \in Watchers : v # w => watch'[v] = watch[v]
    BY <2>1, Zenon DEF Places
  <2>6. NoWakeUpLost'
    <3>1. SUFFICES ASSUME NEW g \in Getters, get'[g].pc = "wait", subHeight' >= get'[g].h
                   PROVE  \/ \E b \in Appenders : app'[b].pc = "notify" /\ app'[b].h >= get'[g].h
                          \/ \E v \in Watchers : watch'[v].pc = "notify" /\ watch'[v].h >= get'[g].h
      BY Zenon DEF NoWakeUpLost
    <3>2. get[g].pc = "wait" /\ get'[g].h = get[g].h /\ get[g].h > watch[w].h
      BY <2>3, <3>1, Zenon
    <3>3. ~(watch[w].h >= get[g].h)
      BY <2>2, <3>2 DEF Places
    <3> QED BY <2>1, <2>5, <3>1, <3>2, <3>3, Zenon DEF NoWakeUpLost
  <2> QED BY <2>3, <2>4, <2>6, Zenon
<1> QED BY <1>1, <1>2, <1>3, Zenon

LEMMA GetterInv ==
  ASSUME PInv, NEW g \in Getters,
         GetBegin(g) \/ WaitFast(g) \/ WaitLocked(g) \/ GetAgain(g) \/ GetCanceled(g)
  PROVE  PInv'
<1> USE TopType DEF PInv
<1>1. /\ stored' = stored /\ lowest' = lowest /\ items' = items /\ subHeight' = subHeight
      /\ app' = app /\ watch' = watch /\ hints' = hints /\ queued' = queued /\ diskHint' = diskHint
  BY Zenon DEF GetBegin, WaitFast, WaitLocked, GetAgain, GetCanceled, hintVars
<1>2. Levels' /\ HintsBacked'
  BY <1>1, Zenon DEF Levels, HintsBacked
<1>3. CASE GetBegin(g) \/ WaitFast(g) \/ GetAgain(g) \/ (WaitLocked(g) /\ subHeight >= get[g].h)
  <2>1. /\ waiters' = waiters /\ get[g].pc # "wait"
        /\ \E r \in [pc : {"idle", "fast", "lock", "again"}, h : 0..Top] : get' = [get EXCEPT ![g] = r]
    <3>1. CASE GetBegin(g)
      <4>1. PICK h \in Heights : get' = [get EXCEPT ![g] = IF HasAt(h) THEN IdleGet ELSE [pc |-> "fast", h |-> h]]
        BY <3>1, Zenon DEF GetBegin
      <4>2. (IF HasAt(h) THEN IdleGet ELSE [pc |-> "fast", h |-> h]) \in [pc : {"idle", "fast", "lock", "again"}, h : 0..Top]
        BY DEF IdleGet
      <4> QED BY <3>1, <4>1, <4>2, Zenon DEF GetBegin
    <3>2. CASE WaitFast(g) \/ (WaitLocked(g) /\ subHeight >= get[g].h)
      <4>1. get[g].h \in 0..Top
        BY Zenon DEF Places
      <4>2. get' = [get EXCEPT ![g].pc = "again"] \/ get' = [get EXCEPT ![g].pc = "lock"]
        BY <3>2, Zenon DEF WaitFast, WaitLocked
      <4>3. [get[g] EXCEPT !.pc = "again"] = [pc |-> "again", h |-> get[g].h]
            /\ [get[g] EXCEPT !.pc = "lock"] = [pc |-> "lock", h |-> get[g].h]
        BY DEF Places
      <4>4. \/ get' = [get EXCEPT ![g] = [pc |-> "again", h |-> get[g].h]]
            \/ get' = [get EXCEPT ![g] = [pc |-> "lock", h |-> get[g].h]]
        BY <4>2, <4>3, Zenon
      <4> QED BY <3>2, <4>1, <4>4, Zenon DEF WaitFast, WaitLocked
    <3>3. CASE GetAgain(g)
      <4>1. IdleGet \in [pc : {"idle", "fast", "lock", "again"}, h : 0..Top]
        BY DEF IdleGet
      <4> QED BY <3>3, <4>1, Zenon DEF GetAgain
    <3> QED BY <1>3, <3>1, <3>2, <3>3, Zenon
  <2>2. \A x \in Getters : (get'[x].pc = "wait" <=> get[x].pc = "wait")
                           /\ (get[x].pc = "wait" => get'[x] = get[x])
    BY <2>1, Zenon DEF Places
  <2>3. Places'
    BY <1>1, <2>1 DEF Places
  <2>4. Registered'
    BY <2>1, <2>2 DEF Registered
  <2>5. NoWakeUpLost'
    BY <1>1, <2>2, Zenon DEF NoWakeUpLost
  <2> QED BY <1>2, <2>3, <2>4, <2>5, Zenon
<1>4. CASE WaitLocked(g) /\ ~(subHeight >= get[g].h)
  <2>1. /\ waiters' = waiters \cup {<<g, get[g].h>>} /\ get' = [get EXCEPT ![g].pc = "wait"]
        /\ get[g].pc = "lock"
    BY <1>4, Zenon DEF WaitLocked
  <2>2. /\ get'[g].pc = "wait" /\ get'[g].h = get[g].h
        /\ \A x \in Getters : x # g => get'[x] = get[x]
    BY <2>1, Zenon DEF Places
  <2>3. Places'
    BY <1>1, <2>1, Zenon DEF Places
  <2>4. Registered'
    BY <2>1, <2>2 DEF Registered
  <2>5. NoWakeUpLost'
    BY <1>1, <1>4, <2>2, Zenon DEF NoWakeUpLost
  <2> QED BY <1>2, <2>3, <2>4, <2>5, Zenon
<1>5. CASE GetCanceled(g)
  <2>1. /\ waiters' = waiters \ {<<g, get[g].h>>} /\ get' = [get EXCEPT ![g] = IdleGet]
    BY <1>5, Zenon DEF GetCanceled
  <2>2. /\ get'[g].pc = "idle"
        /\ \A x \in Getters : x # g => get'[x] = get[x]
    BY <2>1, Zenon DEF Places, IdleGet
  <2>3. Places'
    BY <1>1, <2>1 DEF Places, IdleGet
  <2>4. Registered'
    BY <2>1, <2>2 DEF Registered
  <2>5. NoWakeUpLost'
    BY <1>1, <2>2, Zenon DEF NoWakeUpLost
  <2> QED BY <1>2, <2>3, <2>4, <2>5, Zenon
<1> QED BY <1>3, <1>4, <1>5, Zenon

LEMMA OthersInv ==
  ASSUME PInv, InitStore \/ FlushHints \/ Commits \/ Prunes
  PROVE  PInv'
<1> USE TopType DEF PInv
<1>1. CASE InitStore
  <2>1. PICK h \in Heights : items' = items \cup {h} /\ subHeight' = h /\ Wake(h)
    BY <1>1, Zenon DEF InitStore
  <2>2. /\ stored' = stored /\ lowest' = lowest /\ app' = app /\ watch' = watch
        /\ hints' = hints /\ queued' = queued /\ diskHint' = diskHint
    BY <1>1, Zenon DEF InitStore, hintVars
  <2>3. h \in 0..Top
    OBVIOUS
  <2>4. /\ get' \in [Getters -> [pc : {"idle", "fast", "lock", "wait", "again"}, h : 0..Top]]
        /\ Registered'
        /\ \A g \in Getters : get'[g].pc = "wait" =>
             get[g].pc = "wait" /\ get'[g].h = get[g].h /\ get[g].h > h
    BY <2>1, <2>3, WakeLeaves, Zenon
  <2>5. Places' /\ Levels' /\ HintsBacked'
    BY <2>1, <2>2, <2>4 DEF Places, Levels, HintsBacked
  <2>6. \A g \in Getters : get'[g].pc = "wait" => ~(subHeight' >= get'[g].h)
    BY <2>1, <2>4 DEF Places
  <2>7. NoWakeUpLost'
    BY <2>6, Zenon DEF NoWakeUpLost
  <2> QED BY <2>4, <2>5, <2>7, Zenon
<1>2. CASE FlushHints
  BY <1>2 DEF FlushHints, Places, Levels, Registered, NoWakeUpLost, HintsBacked
<1>3. CASE Commits
  BY <1>3 DEF Commits, Places, Levels, Registered, NoWakeUpLost, HintsBacked, hintVars
<1>4. CASE Prunes
  <2>1. Places' /\ Registered' /\ NoWakeUpLost'
    BY <1>4 DEF Prunes, Places, Registered, NoWakeUpLost
  <2>2. Levels'
    BY <1>4 DEF Prunes, Levels
  <2>3. HintsBacked'
    <3>1. SUFFICES ASSUME NEW h \in hints
                   PROVE  h \in queued' \cup diskHint' \/ h <= lowest'
      BY <1>4, Zenon DEF Prunes, HintsBacked
    <3>2. CASE h <= lowest
      BY <1>4, <3>2 DEF Prunes, Levels
    <3>3. CASE h \in queued \cup diskHint
      BY <1>4, <3>3 DEF Prunes, Levels
    <3> QED BY <3>2, <3>3, Zenon DEF HintsBacked
  <2> QED BY <2>1, <2>2, <2>3, Zenon
<1> QED BY <1>1, <1>2, <1>3, <1>4, Zenon

LEMMA PNextInv == PInv /\ [PNext]_pVars => PInv'
<1> SUFFICES ASSUME PInv, [PNext]_pVars PROVE PInv'
  BY Zenon
<1>1. CASE UNCHANGED pVars
  BY <1>1 DEF PInv, pVars, hintVars, Places, Levels, Registered, NoWakeUpLost, HintsBacked
<1>2. CASE PNext
  BY <1>2, AppenderInv, WatcherInv, GetterInv, OthersInv, Zenon DEF PNext
<1> QED BY <1>1, <1>2, Zenon

LEMMA PInvHolds == PSpec => []PInv
BY InitInv, PNextInv, PTL DEF PSpec

-----------------------------------------------------------------------------
(* A waiting reader, and no other, is registered with the subscription.    *)
THEOREM AdapterTypes == PSpec => []PTypeOK
<1>1. PInv => PTypeOK
  BY TopType, Zenon DEF PInv, Levels, Registered, PTypeOK, Top
<1> QED BY PInvHolds, <1>1, PTL

(* Between the look at the height and the registration no wake-up is lost, *)
(* whatever the appenders, the watchers and the readers do in between.     *)
THEOREM NoReaderForgotten == PSpec => []NoWakeUpLost
<1>1. PInv => NoWakeUpLost
  BY Zenon DEF PInv
<1> QED BY PInvHolds, <1>1, PTL

(* Pruning the cache never drops an item that is not persisted.            *)
THEOREM ItemsStayAvailable == PSpec => StaysAvailable
<1>1. ASSUME PInv, [PNext]_pVars
      PROVE  [\A h \in Heights : HasAt(h) => HasAt(h)' \/ h <= lowest']_pVars
  <2>1. /\ stored' \in Int /\ lowest' \in Int /\ stored <= stored' /\ lowest <= lowest'
        /\ \A h \in items : h \in items' \/ (lowest < h /\ h <= stored) \/ h <= lowest
    <3> USE TopType
    <3>1. ASSUME NEW a \in Appenders, WaitForSpace(a)
          PROVE  \A h \in items : h \in items' \/ (lowest < h /\ h <= stored) \/ h <= lowest
      BY <1>1, <3>1 DEF WaitForSpace, prunePersisted, PInv, Levels
    <3>2. PInv'
      BY <1>1, PNextInv, ZenonT(40)
    <3>3. stored <= stored' /\ lowest <= lowest'
      <4>1. CASE Commits
        BY <1>1, <4>1 DEF Commits, PInv, Levels
      <4>2. CASE Prunes
        BY <1>1, <4>2 DEF Prunes, PInv, Levels
      <4>3. CASE ~Commits /\ ~Prunes
        <5>1. stored' = stored /\ lowest' = lowest
          BY <1>1, <4>3, Zenon DEF PNext, pVars, AppendBegin, WaitForSpace, AddPending, AppendHeight,
                      AppendNotify, WatchRead, WatchSet, WatchNotify, GetBegin, WaitFast, WaitLocked,
                      GetAgain, GetCanceled, InitStore, FlushHints
        <5> QED BY <1>1, <5>1 DEF PInv, Levels
      <4> QED BY <4>1, <4>2, <4>3, Zenon
    <3>4. (~\E a \in Appenders : WaitForSpace(a)) => items \subseteq items'
      BY <1>1, Zenon DEF PNext, pVars, AppendBegin, AddPending, AppendHeight, AppendNotify,
                  WatchRead, WatchSet, WatchNotify, GetBegin, WaitFast, WaitLocked, GetAgain,
                  GetCanceled, InitStore, FlushHints, Commits, Prunes
    <3> QED BY <3>1, <3>2, <3>3, <3>4 DEF PInv, Levels
  <2> QED BY <1>1, <2>1, TopType DEF HasAt, InStore, PInv, Levels
<1> QED BY PInvHolds, <1>1, PTL DEF PSpec, StaysAvailable

(* The hint of an item is not lost before its height is pruned, also when  *)
(* the item has left the cache.                                            *)
THEOREM HintsAreKept == PSpec => HintKept
<1>1. ASSUME PInv, [PNext]_pVars
      PROVE  [\A h \in Heights : HintHeld(h) => HintHeld(h)' \/ h <= lowest']_pVars
  <2> USE TopType DEF hintVars
  <2>1. ASSUME NEW a \in Appenders, WaitForSpace(a)
        PROVE  \A h \in Heights : HintHeld(h) => HintHeld(h)' \/ h <= lowest'
    BY <1>1, <2>1, Zenon DEF WaitForSpace, PInv, HintsBacked, HintHeld
  <2>2. ASSUME Prunes
        PROVE  \A h \in Heights : HintHeld(h) => HintHeld(h)' \/ h <= lowest'
    BY <1>1, <2>2 DEF Prunes, PInv, Levels, HintHeld
  <2>3. ASSUME ~Prunes, ~\E a \in Appenders : WaitForSpace(a)
        PROVE  hints \cup queued \cup diskHint \subseteq hints' \cup queued' \cup diskHint'
    BY <1>1, <2>3, Zenon DEF PNext, pVars, AppendBegin, AddPending, SetDAHint, AppendHeight, AppendNotify,
                  WatchRead, WatchSet, WatchNotify, GetBegin, WaitFast, WaitLocked, GetAgain,
                  GetCanceled, InitStore, FlushHints, Commits
  <2> QED BY <2>1, <2>2, <2>3, Zenon DEF HintHeld
<1> QED BY PInvHolds, <1>1, PTL DEF PSpec, HintKept

-----------------------------------------------------------------------------
(* The inductive invariant.                                                *)

(* The block in hand is the next one and, once saved, the pending record;  *)
(* a block is built only where no pending block can be used; the root in   *)
(* hand is the execution layer's.                                          *)
InHand ==
    /\ step # "idle" => block.height = NextHeight
    /\ step \in {"saved", "executed", "signed"} => pending = {block}
    /\ step = "built" => Usable = {}
    /\ step \in {"executed", "signed"} =>
         /\ Len(root) = NextHeight
         /\ NextHeight <= Len(exec) => SubSeq(exec, 1, NextHeight) = root

(* A record of an earlier release is migrated before anything else.        *)
LegacyFirst ==
    legacy # {} =>
        /\ node \in {"down", "migrating", "cleaning"}
        /\ chain = <<>> /\ exec = <<>> /\ signed = {}

(* A signed block is committed, or it is the pending block.                *)
SignedHeld ==
    \A b \in signed :
        \/ b.height <= Len(chain) /\ ContentOf(b) = Committed[b.height]
        \/ b.height = NextHeight /\ b \in pending

(* Something of the next height has been executed or signed.               *)
Ahead == Len(exec) > Len(chain) \/ \E b \in signed : b.height = NextHeight

(* Then the pending block is taken up before another can be built.         *)
AheadIsFound ==
    Ahead /\ node \in {"syncing", "up"} /\ step \notin {"executed", "signed"}
        => hasPendingBlock

RootInHand ==
    step \in {"executed", "signed"} => root = Append(Committed, ContentOf(block))

Agreement == ExecAgrees /\ RootsHonest /\ (~abandoned => SignedHeld /\ AheadIsFound /\ RootInHand)

ExecInv == TypeOK /\ RootsMatchExec /\ InHand /\ LegacyFirst /\ Agreement

-----------------------------------------------------------------------------
(* Sequences and their prefixes.                                           *)
LEMMA SeqLen ==
    ASSUME NEW S, NEW s \in Seq(S)
    PROVE  Len(s) \in Nat /\ s \in [1..Len(s) -> S] /\ DOMAIN s = 1..Len(s)
    OBVIOUS

LEMMA SeqElement ==
    ASSUME NEW S, NEW s \in Seq(S), NEW i \in 1..Len(s)
    PROVE  s[i] \in S
    OBVIOUS

LEMMA SeqEmpty ==
    ASSUME NEW S
    PROVE  <<>> \in Seq(S) /\ Len(<<>>) = 0 /\ \A s \in Seq(S) : s # <<>> => Len(s) \in Nat \ {0}
    OBVIOUS

LEMMA SeqSame ==
    ASSUME NEW S, NEW s \in Seq(S), NEW t \in Seq(S), Len(s) = Len(t), \A i \in 1..Len(s) : s[i] = t[i]
    PROVE  s = t
    OBVIOUS

LEMMA SeqFunction ==
    ASSUME NEW S, NEW n \in Nat, NEW f \in [1..n -> S]
    PROVE  f \in Seq(S)
    OBVIOUS

LEMMA SeqWhole ==
    ASSUME NEW S, NEW s \in Seq(S)
    PROVE  SubSeq(s, 1, Len(s)) = s
    OBVIOUS

LEMMA SeqAppend ==
    ASSUME NEW S, NEW s \in Seq(S), NEW e \in S
    PROVE  /\ Append(s, e) \in Seq(S) /\ Len(Append(s, e)) = Len(s) + 1
           /\ \A i \in 1..Len(s) : Append(s, e)[i] = s[i]
           /\ Append(s, e)[Len(s) + 1] = e
    OBVIOUS

LEMMA Prefix ==
    ASSUME NEW S, NEW s \in Seq(S), NEW n \in 0..Len(s)
    PROVE  /\ SubSeq(s, 1, n) \in Seq(S)
           /\ Len(SubSeq(s, 1, n)) = n
           /\ \A i \in 1..n : SubSeq(s, 1, n)[i] = s[i]
    OBVIOUS

LEMMA PrefixOfPrefix ==
    ASSUME NEW S, NEW s \in Seq(S), NEW n \in 0..Len(s), NEW m \in 0..n
    PROVE  SubSeq(SubSeq(s, 1, n), 1, m) = SubSeq(s, 1, m)
<1>1. Len(s) \in Nat /\ m \in 0..Len(s)
  BY SeqLen
<1>2. /\ SubSeq(s, 1, n) \in Seq(S) /\ Len(SubSeq(s, 1, n)) = n
      /\ \A i \in 1..n : SubSeq(s, 1, n)[i] = s[i]
  BY Prefix, Zenon
<1>3. /\ SubSeq(s, 1, m) \in Seq(S) /\ Len(SubSeq(s, 1, m)) = m
      /\ \A i \in 1..m : SubSeq(s, 1, m)[i] = s[i]
  BY <1>1, Prefix, Zenon
<1> DEFINE p == SubSeq(s, 1, n)
<1> HIDE DEF p
<1>4. /\ SubSeq(p, 1, m) \in Seq(S) /\ Len(SubSeq(p, 1, m)) = m
      /\ \A i \in 1..m : SubSeq(p, 1, m)[i] = p[i]
  BY <1>2, Prefix, Zenon DEF p
<1>5. \A i \in 1..m : SubSeq(p, 1, m)[i] = SubSeq(s, 1, m)[i]
  BY <1>1, <1>2, <1>3, <1>4 DEF p
<1>6. SubSeq(p, 1, m) = SubSeq(s, 1, m)
  BY <1>3, <1>4, <1>5, SeqSame, Zenon
<1> QED BY <1>6, Zenon DEF p

LEMMA PrefixOfAppend ==
    ASSUME NEW S, NEW s \in Seq(S), NEW e \in S, NEW m \in 0..Len(s)
    PROVE  SubSeq(Append(s, e), 1, m) = SubSeq(s, 1, m)
<1> DEFINE a == Append(s, e)
<1>1. /\ Len(s) \in Nat /\ a \in Seq(S) /\ Len(a) = Len(s) + 1
      /\ \A i \in 1..Len(s) : a[i] = s[i]
  BY SeqLen, SeqAppend
<1> HIDE DEF a
<1>2. m \in 0..Len(a)
  BY <1>1
<1>3. /\ SubSeq(a, 1, m) \in Seq(S) /\ Len(SubSeq(a, 1, m)) = m
      /\ \A i \in 1..m : SubSeq(a, 1, m)[i] = a[i]
  BY <1>1, <1>2, Prefix, Zenon
<1>4. /\ SubSeq(s, 1, m) \in Seq(S) /\ Len(SubSeq(s, 1, m)) = m
      /\ \A i \in 1..m : SubSeq(s, 1, m)[i] = s[i]
  BY Prefix, Zenon
<1>5. \A i \in 1..m : SubSeq(a, 1, m)[i] = SubSeq(s, 1, m)[i]
  BY <1>1, <1>3, <1>4
<1>6. SubSeq(a, 1, m) = SubSeq(s, 1, m)
  BY <1>3, <1>4, <1>5, SeqSame, Zenon
<1> QED BY <1>6, Zenon DEF a

(* The committed contents are a sequence as long as the chain.             *)
LEMMA CommittedSeq ==
    ASSUME chain \in Seq(CommittedBlock)
    PROVE  /\ Len(chain) \in Nat /\ NextHeight \in Nat
           /\ Committed \in Seq(Content) /\ Len(Committed) = Len(chain)
           /\ \A h \in 1..Len(chain) : /\ Committed[h] = ContentOf(chain[h])
                                       /\ chain[h] \in CommittedBlock
<1>1. Len(chain) \in Nat /\ \A h \in 1..Len(chain) : chain[h] \in CommittedBlock
  BY SeqLen, SeqElement, Zenon
<1>2. Committed \in [1..Len(chain) -> Content]
  BY <1>1, Zenon DEF Committed, ContentOf, CommittedBlock, Content
<1>3. Committed \in Seq(Content)
  BY <1>1, <1>2, SeqFunction, Zenon
<1>4. Len(Committed) = Len(chain)
  BY <1>1, <1>2
<1> QED BY <1>1, <1>3, <1>4 DEF Committed, NextHeight

(* What ExecuteTxs leaves: a chain up to the block's height that differs   *)
(* from the one before in its last block at most.                          *)
LEMMA ExecAfterFacts ==
    ASSUME TypeOK, NEW b \in Block, Executable(b)
    PROVE  /\ b.height - 1 <= Len(exec)
           /\ ExecAfter(b) \in Seq(Content) /\ Len(ExecAfter(b)) = b.height
           /\ \A h \in 0..(b.height - 1) : SubSeq(ExecAfter(b), 1, h) = SubSeq(exec, 1, h)
           /\ \A h \in 1..(b.height - 1) : ExecAfter(b)[h] = exec[h]
           /\ ExecAfter(b)[b.height] = IF Reuses(b) THEN exec[b.height] ELSE ContentOf(b)
<1>1. /\ exec \in Seq(Content) /\ Len(exec) \in Nat
      /\ b.height \in Nat \ {0} /\ ContentOf(b) \in Content
  BY ExecutorAssumption, SeqLen DEF TypeOK, Block, ContentOf, Content
<1> DEFINE n == b.height
           c == ContentOf(b)
<1>2. CASE Reuses(b)
  <2>1. n \in 0..Len(exec)
    BY <1>1, <1>2 DEF Reuses
  <2>2. ExecAfter(b) = SubSeq(exec, 1, n)
    BY <1>2, Zenon DEF ExecAfter
  <2>3. \A h \in 0..(n - 1) : SubSeq(SubSeq(exec, 1, n), 1, h) = SubSeq(exec, 1, h)
    BY <1>1, <2>1, PrefixOfPrefix
  <2>4. /\ SubSeq(exec, 1, n) \in Seq(Content) /\ Len(SubSeq(exec, 1, n)) = n
        /\ \A i \in 1..n : SubSeq(exec, 1, n)[i] = exec[i]
    BY <1>1, <2>1, Prefix
  <2> QED BY <1>1, <1>2, <2>1, <2>2, <2>3, <2>4
<1>3. CASE ~Reuses(b)
  <2>1. n - 1 \in 0..Len(exec)
    BY <1>1, <1>3 DEF Executable
  <2> DEFINE s == SubSeq(exec, 1, n - 1)
  <2>2. ExecAfter(b) = Append(s, c)
    BY <1>3, Zenon DEF ExecAfter, Below
  <2>3. /\ s \in Seq(Content) /\ Len(s) = n - 1
        /\ \A i \in 1..(n - 1) : s[i] = exec[i]
    BY <1>1, <2>1, Prefix, Zenon
  <2>4. \A h \in 0..(n - 1) : SubSeq(s, 1, h) = SubSeq(exec, 1, h)
    BY <1>1, <2>1, PrefixOfPrefix, Zenon
  <2> HIDE DEF s, c, n
  <2>5. /\ Append(s, c) \in Seq(Content) /\ Len(Append(s, c)) = Len(s) + 1
        /\ \A i \in 1..Len(s) : Append(s, c)[i] = s[i]
        /\ Append(s, c)[Len(s) + 1] = c
    BY <1>1, <2>3, SeqAppend DEF c
  <2>6. \A h \in 0..(n - 1) : SubSeq(Append(s, c), 1, h) = SubSeq(s, 1, h)
    BY <1>1, <2>3, PrefixOfAppend, Zenon DEF c
  <2> QED BY <1>1, <1>3, <2>1, <2>2, <2>3, <2>4, <2>5, <2>6 DEF n, c
<1> QED BY <1>2, <1>3, Zenon

(* At most one block is pending, so the execution layer is at most one     *)
(* block ahead of the chain.                                               *)
LEMMA AtMostOneAhead ==
    ASSUME ExecInv, ~abandoned
    PROVE  /\ Len(exec) <= NextHeight
           /\ Ahead => \E b \in pending : pending = {b} /\ b.height = NextHeight
           /\ \A h \in 1..Len(exec) : h <= Len(chain) => exec[h] = Committed[h]
           /\ \A b \in pending : NextHeight <= Len(exec) => exec[NextHeight] = ContentOf(b)
<1>1. Len(chain) \in Nat /\ Len(exec) \in Nat
  BY CommittedSeq, SeqLen, Zenon DEF ExecInv, TypeOK
<1>2. \A h \in 1..Len(exec) :
        IF h <= Len(chain) THEN exec[h] = Committed[h]
        ELSE \E b \in pending : b.height = h /\ ContentOf(b) = exec[h]
  BY Zenon DEF ExecInv, Agreement, ExecAgrees
<1>3. \A a, b \in pending : a = b /\ pending = {a}
  BY Zenon DEF ExecInv, TypeOK
<1>4. Len(exec) <= Len(chain) + 1
  <2> SUFFICES ASSUME Len(exec) > Len(chain) + 1 PROVE FALSE
    BY <1>1
  <2>1. PICK a \in pending : a.height = Len(chain) + 1
    BY <1>1, <1>2
  <2>2. PICK b \in pending : b.height = Len(chain) + 2
    BY <1>1, <1>2
  <2> QED BY <1>1, <1>3, <2>1, <2>2
<1>5. ASSUME Len(exec) > Len(chain)
      PROVE  \E b \in pending : b.height = NextHeight /\ ContentOf(b) = exec[NextHeight]
  BY <1>1, <1>2, <1>4, <1>5 DEF NextHeight
<1>6. ASSUME NEW b \in signed, b.height = NextHeight
      PROVE  b \in pending
  BY <1>1, <1>6 DEF ExecInv, Agreement, SignedHeld, NextHeight
<1>7. Ahead => \E b \in pending : pending = {b} /\ b.height = NextHeight
  BY <1>3, <1>5, <1>6, Zenon DEF Ahead
<1>8. \A b \in pending : NextHeight <= Len(exec) => exec[NextHeight] = ContentOf(b)
  BY <1>1, <1>3, <1>5 DEF NextHeight
<1> QED BY <1>2, <1>4, <1>7, <1>8, Zenon DEF NextHeight

-----------------------------------------------------------------------------
LEMMA ExecInitInv == Init => ExecInv
<1> SUFFICES ASSUME Init PROVE ExecInv
  BY Zenon
<1>1. Len(chain) = 0 /\ Len(exec) = 0 /\ <<>> \in Seq(Content) /\ <<>> \in Seq(CommittedBlock)
  BY DEF Init
<1>2. TypeOK
  <2>1. \A p \in Payload : [height |-> 1, txs |-> p, time |-> GenesisTime] \in Block
    BY ExecutorAssumption DEF Block, GenesisTime
  <2>2. legacy \in {{}} \cup {{b} : b \in Block}
    BY <2>1, Zenon DEF Init
  <2>3. /\ node \in NodeStages /\ step \in Steps /\ step = "idle"
        /\ hasPendingBlock \in BOOLEAN /\ rollbackable \in BOOLEAN /\ abandoned \in BOOLEAN
    BY Zenon DEF Init, NodeStages, Steps
  <2> QED BY <1>1, <2>2, <2>3, ExecutorAssumption DEF Init, TypeOK
<1>3. RootsMatchExec /\ InHand /\ LegacyFirst
  BY <1>1 DEF Init, RootsMatchExec, InHand, LegacyFirst
<1>4. Agreement
  BY <1>1 DEF Init, Agreement, ExecAgrees, RootsHonest, SignedHeld, AheadIsFound, RootInHand, Ahead
<1> QED BY <1>2, <1>3, <1>4, Zenon DEF ExecInv

(* What only depends on the chains and the records.                        *)
LEMMA SameChains ==
    ASSUME chain' = chain, exec' = exec
    PROVE  /\ Committed' = Committed /\ NextHeight' = NextHeight
           /\ RootsMatchExec => RootsMatchExec'
           /\ abandoned' = abandoned /\ RootsHonest => RootsHonest'
           /\ abandoned' = abandoned /\ pending' = pending /\ ExecAgrees => ExecAgrees'
           /\ signed' = signed /\ pending' = pending /\ SignedHeld => SignedHeld'
           /\ signed' = signed => (Ahead' <=> Ahead)
<1>1. Committed' = Committed /\ NextHeight' = NextHeight
  BY Zenon DEF Committed, NextHeight
<1>2. RootsMatchExec => RootsMatchExec'
  BY Zenon DEF RootsMatchExec
<1>3. abandoned' = abandoned /\ RootsHonest => RootsHonest'
  BY <1>1 DEF RootsHonest
<1>4. abandoned' = abandoned /\ pending' = pending /\ ExecAgrees => ExecAgrees'
  BY <1>1 DEF ExecAgrees
<1>5. signed' = signed /\ pending' = pending /\ SignedHeld => SignedHeld'
  BY <1>1, Zenon DEF SignedHeld
<1>6. signed' = signed => (Ahead' <=> Ahead)
  BY <1>1, Zenon DEF Ahead
<1> QED BY <1>1, <1>2, <1>3, <1>4, <1>5, <1>6

(* The stages of a start-up before the execution layer is brought back.    *)
LEMMA StartInv ==
    ASSUME ExecInv, Start \/ FindPending \/ CleanLegacy \/ SyncDone \/ StartFails,
           UNCHANGED rollbackable
    PROVE  ExecInv'
<1> USE DEF ExecInv, storeVars, produceVars, historyVars
<1>1. /\ chain' = chain /\ exec' = exec /\ pending' = pending /\ signed' = signed
      /\ abandoned' = abandoned /\ step' = step /\ block' = block /\ root' = root
  BY Zenon DEF Start, FindPending, CleanLegacy, SyncDone, StartFails
<1>2. step = "idle"
  BY Zenon DEF Start, FindPending, CleanLegacy, SyncDone, StartFails, TypeOK
<1>3. TypeOK'
  <2>1. node' \in NodeStages
    BY Zenon DEF Start, FindPending, CleanLegacy, SyncDone, StartFails, NodeStages
  <2>2. legacy' \in {{}, legacy}
    BY Zenon DEF Start, FindPending, CleanLegacy, SyncDone, StartFails
  <2>3. hasPendingBlock' \in BOOLEAN
    BY Zenon DEF Start, FindPending, CleanLegacy, SyncDone, StartFails, TypeOK
  <2> QED BY <1>1, <1>2, <2>1, <2>2, <2>3 DEF TypeOK
<1>4. RootsMatchExec'
  BY <1>1, SameChains, Zenon
<1>5. InHand'
  BY <1>1, <1>2, Zenon DEF InHand
<1>6. LegacyFirst'
  BY <1>1, Zenon DEF LegacyFirst, Start, FindPending, CleanLegacy, SyncDone, StartFails
<1>7. ExecAgrees' /\ RootsHonest'
  BY <1>1, SameChains, Zenon DEF Agreement
<1>8. ASSUME ~abandoned PROVE SignedHeld' /\ AheadIsFound' /\ RootInHand'
  <2>1. SignedHeld'
    BY <1>1, <1>8, SameChains, Zenon DEF Agreement
  <2>2. RootInHand'
    BY <1>1, <1>2, Zenon DEF RootInHand
  <2>3. ASSUME Ahead PROVE pending # {}
    BY <1>8, <2>3, AtMostOneAhead, Zenon
  <2>4. AheadIsFound'
    <3>1. CASE Start \/ StartFails
      BY <3>1, Zenon DEF AheadIsFound, Start, StartFails
    <3>2. CASE FindPending \/ CleanLegacy
      BY <1>1, <2>3, <3>2, SameChains, Zenon DEF AheadIsFound, FindPending, CleanLegacy
    <3>3. CASE SyncDone
      BY <1>1, <1>8, <3>3, SameChains DEF AheadIsFound, SyncDone, Agreement
    <3> QED BY <3>1, <3>2, <3>3, Zenon
  <2> QED BY <2>1, <2>2, <2>4, Zenon
<1> QED BY <1>1, <1>3, <1>4, <1>5, <1>6, <1>7, <1>8 DEF Agreement

(* A record of an earlier release becomes the pending block.               *)
LEMMA MigrateInv ==
    ASSUME ExecInv, MigratePending, UNCHANGED rollbackable
    PROVE  ExecInv'
<1> USE DEF ExecInv, storeVars, produceVars, historyVars
<1>1. /\ chain' = chain /\ exec' = exec /\ pending' = legacy /\ legacy' = legacy
      /\ signed' = signed /\ abandoned' = abandoned /\ hasPendingBlock' = hasPendingBlock
      /\ step' = step /\ block' = block /\ root' = root
      /\ node = "migrating" /\ node' = "cleaning"
  BY Zenon DEF MigratePending
<1>2. step = "idle" /\ chain = <<>> /\ exec = <<>> /\ signed = {}
  BY Zenon DEF MigratePending, TypeOK, LegacyFirst
<1>3. TypeOK'
  BY <1>1, <1>2, Zenon DEF TypeOK, NodeStages
<1>4. RootsMatchExec'
  BY <1>1, SameChains, Zenon
<1>5. InHand' /\ LegacyFirst'
  BY <1>1, <1>2, Zenon DEF InHand, LegacyFirst
<1>6. Agreement'
  BY <1>1, <1>2 DEF Agreement, ExecAgrees, RootsHonest, SignedHeld, AheadIsFound, RootInHand
<1> QED BY <1>3, <1>4, <1>5, <1>6, Zenon

(* The execution layer loses blocks, or is rolled back to the chain.       *)
LEMMA ShortenInv ==
    ASSUME ExecInv, NEW n \in 0..Len(exec), exec' = SubSeq(exec, 1, n),
           node' = node \/ (node = "syncing" /\ node' = "up"),
           UNCHANGED <<storeVars, hasPendingBlock, produceVars, historyVars, rollbackable>>
    PROVE  ExecInv'
<1> USE DEF ExecInv, storeVars, produceVars, historyVars
<1>1. /\ chain' = chain /\ pending' = pending /\ signed' = signed /\ legacy' = legacy
      /\ abandoned' = abandoned /\ step' = step /\ block' = block /\ root' = root
      /\ hasPendingBlock' = hasPendingBlock
  BY Zenon
<1>2. /\ exec \in Seq(Content) /\ Len(exec) \in Nat /\ Len(chain) \in Nat
      /\ chain \in Seq(CommittedBlock) /\ NextHeight \in Nat
  BY CommittedSeq, SeqLen, Zenon DEF TypeOK
<1>3. /\ exec' \in Seq(Content) /\ Len(exec') = n
      /\ \A i \in 1..n : exec'[i] = exec[i]
  BY <1>2, Prefix
<1>4. \A m \in 0..n : SubSeq(exec', 1, m) = SubSeq(exec, 1, m)
  BY <1>2, PrefixOfPrefix, Zenon
<1>5. Committed' = Committed /\ NextHeight' = NextHeight
  BY <1>1, Zenon DEF Committed, NextHeight
<1>6. TypeOK'
  BY <1>1, <1>3, Zenon DEF TypeOK, NodeStages
<1>7. RootsMatchExec'
  BY <1>1, <1>2, <1>3, <1>4 DEF RootsMatchExec
<1>8. InHand'
  <2>1. Usable' = Usable
    BY <1>1, <1>5 DEF Usable
  <2>2. n >= NextHeight => SubSeq(exec', 1, NextHeight) = SubSeq(exec, 1, NextHeight)
    BY <1>2, <1>4
  <2> QED BY <1>1, <1>2, <1>3, <1>5, <2>1, <2>2 DEF InHand
<1>9. LegacyFirst'
  <2>1. exec = <<>> => exec' = <<>>
    BY <1>2, <1>3
  <2> QED BY <1>1, <2>1, Zenon DEF LegacyFirst
<1>10. ExecAgrees' /\ RootsHonest'
  BY <1>1, <1>2, <1>3, <1>5 DEF Agreement, ExecAgrees, RootsHonest
<1>11. ASSUME ~abandoned PROVE SignedHeld' /\ AheadIsFound' /\ RootInHand'
  <2>1. SignedHeld' /\ RootInHand'
    BY <1>1, <1>5, <1>11, Zenon DEF Agreement, SignedHeld, RootInHand
  <2>2. Ahead' => Ahead
    BY <1>1, <1>2, <1>3, <1>5 DEF Ahead
  <2>3. AheadIsFound'
    BY <1>1, <1>11, <2>2 DEF Agreement, AheadIsFound
  <2> QED BY <2>1, <2>3, Zenon
<1> QED BY <1>1, <1>6, <1>7, <1>8, <1>9, <1>10, <1>11 DEF Agreement

(* A committed block is executed again.                                    *)
LEMMA ReplayInv ==
    ASSUME ExecInv, ReplayBlock, UNCHANGED rollbackable
    PROVE  ExecInv'
<1> USE DEF ExecInv, storeVars, produceVars, historyVars
<1> DEFINE b == Replayed
           k == Len(exec) + 1
<1>1. /\ chain' = chain /\ pending' = pending /\ signed' = signed /\ legacy' = legacy
      /\ abandoned' = abandoned /\ step' = step /\ block' = block /\ root' = root
      /\ hasPendingBlock' = hasPendingBlock /\ node = "syncing" /\ node' = node
      /\ Len(exec) < Len(chain) /\ exec' = ExecAfter(b) /\ Executable(b)
      /\ ExecAfter(b) = RootAt(Len(exec) + 1)
  BY Zenon DEF ReplayBlock, ReplayVerified
<1>2. /\ exec \in Seq(Content) /\ Len(exec) \in Nat /\ Len(chain) \in Nat
      /\ chain \in Seq(CommittedBlock) /\ NextHeight \in Nat
      /\ \A h \in 1..Len(chain) : Committed[h] = ContentOf(chain[h]) /\ chain[h] \in CommittedBlock
  BY CommittedSeq, SeqLen, Zenon DEF TypeOK
<1>3. k \in 1..Len(chain) /\ Len(chain) <= MaxHeight
  BY <1>1, <1>2 DEF TypeOK
<1>4. b \in Block /\ b.height = k /\ ContentOf(b) = Committed[k]
  <2>1. chain[k] \in CommittedBlock /\ Committed[k] = ContentOf(chain[k])
    BY <1>2, <1>3, Zenon
  <2>2. b = [height |-> k, txs |-> chain[k].txs, time |-> chain[k].time]
    BY Zenon DEF Replayed
  <2>3. k \in 1..MaxHeight
    BY <1>2, <1>3, ExecutorAssumption
  <2> HIDE DEF k, b
  <2> QED BY <2>1, <2>2, <2>3, Zenon DEF Block, CommittedBlock, ContentOf
<1>5. ~Reuses(b)
  BY <1>2, <1>4 DEF Reuses
<1> HIDE DEF b
<1>6. /\ exec' \in Seq(Content) /\ Len(exec') = k
      /\ \A h \in 0..(k - 1) : SubSeq(exec', 1, h) = SubSeq(exec, 1, h)
      /\ \A h \in 1..(k - 1) : exec'[h] = exec[h]
      /\ exec'[k] = Committed[k]
  BY <1>1, <1>4, <1>5, ExecAfterFacts, Zenon
<1>7. Committed' = Committed /\ NextHeight' = NextHeight
  BY <1>1, Zenon DEF Committed, NextHeight
<1>8. step = "idle"
  BY <1>1, Zenon DEF TypeOK
<1>9. TypeOK'
  BY <1>1, <1>6, Zenon DEF TypeOK
<1>10. RootsMatchExec'
  <2>1. ASSUME NEW h \in 1..Len(chain), h <= k PROVE SubSeq(exec', 1, h) = chain[h].root
    <3>1. CASE h = k
      <4>1. SubSeq(exec', 1, k) = exec'
        BY <1>6, SeqWhole, Zenon
      <4> QED BY <1>1, <1>2, <3>1, <4>1 DEF RootAt
    <3>2. CASE h < k
      BY <1>2, <1>6, <3>2 DEF RootsMatchExec
    <3> QED BY <1>2, <2>1, <3>1, <3>2
  <2> QED BY <1>1, <1>6, <2>1, Zenon DEF RootsMatchExec
<1>11. InHand' /\ LegacyFirst'
  BY <1>1, <1>8, Zenon DEF InHand, LegacyFirst
<1>12. ExecAgrees' /\ RootsHonest'
  <2>1. ASSUME ~abandoned, NEW h \in 1..k PROVE h <= Len(chain) /\ exec'[h] = Committed[h]
    <3>1. h <= Len(chain)
      BY <1>2, <1>3
    <3>2. CASE h = k
      BY <1>6, <3>1, <3>2
    <3>3. CASE h # k
      <4>1. h \in 1..(k - 1)
        BY <1>2, <3>3
      <4> QED BY <1>2, <1>6, <2>1, <3>1, <4>1, AtMostOneAhead
    <3> QED BY <3>2, <3>3, Zenon
  <2>2. ExecAgrees'
    BY <1>1, <1>6, <1>7, <2>1 DEF ExecAgrees
  <2> QED BY <1>1, <1>7, <2>2, Zenon DEF Agreement, RootsHonest
<1>13. ASSUME ~abandoned PROVE SignedHeld' /\ AheadIsFound' /\ RootInHand'
  <2>1. SignedHeld' /\ RootInHand'
    BY <1>1, <1>7, <1>13, Zenon DEF Agreement, SignedHeld, RootInHand
  <2>2. Ahead' => Ahead
    BY <1>1, <1>2, <1>3, <1>6, <1>7 DEF Ahead
  <2>3. AheadIsFound'
    BY <1>1, <1>13, <2>2, Zenon DEF Agreement, AheadIsFound
  <2> QED BY <2>1, <2>3, Zenon
<1> QED BY <1>1, <1>9, <1>10, <1>11, <1>12, <1>13 DEF Agreement

-----------------------------------------------------------------------------
(* The pending block, or a new one, is taken in hand.                      *)
LEMMA TakeInv ==
    ASSUME ExecInv, UsePending \/ BuildBlock, UNCHANGED rollbackable
    PROVE  ExecInv'
<1> USE DEF ExecInv, storeVars, produceVars, historyVars
<1>1. /\ chain' = chain /\ exec' = exec /\ pending' = pending /\ signed' = signed
      /\ legacy' = legacy /\ abandoned' = abandoned /\ root' = root
      /\ hasPendingBlock' = hasPendingBlock /\ node' = node
      /\ node = "up" /\ step = "idle" /\ Len(chain) < MaxHeight
  BY Zenon DEF UsePending, BuildBlock, Idle
<1>2. /\ Len(chain) \in Nat /\ NextHeight \in Nat
      /\ \A h \in 1..Len(chain) : chain[h] \in CommittedBlock
      /\ chain # <<>> => Len(chain) \in 1..Len(chain)
  <2>1. chain \in Seq(CommittedBlock)
    BY Zenon DEF TypeOK
  <2> QED BY <2>1, CommittedSeq, SeqEmpty
<1>3. /\ step' \in {"built", "saved"} /\ block' \in Block /\ block'.height = NextHeight
      /\ step' = "saved" => pending = {block'}
      /\ step' = "built" => Usable = {}
  <2>1. CASE UsePending
    <3>1. block' \in pending /\ block'.height = NextHeight /\ step' = "saved"
      BY <2>1, Zenon DEF UsePending, Usable
    <3>2. pending = {block'} /\ block' \in Block
      BY <3>1, Zenon DEF TypeOK
    <3> QED BY <3>1, <3>2, Zenon
  <2>2. CASE BuildBlock
    <3>1. LastTime \in 0..MaxTime
      BY <1>2, ExecutorAssumption DEF LastTime, GenesisTime, CommittedBlock
    <3>2. PICK txs \in Payload, time \in LastTime..MaxTime :
            block' = [height |-> NextHeight, txs |-> txs,
                      time |-> IF chain = <<>> THEN GenesisTime ELSE time]
      BY <2>2, Zenon DEF BuildBlock
    <3>3. (IF chain = <<>> THEN GenesisTime ELSE time) \in 0..MaxTime
      BY <3>1, ExecutorAssumption DEF GenesisTime
    <3>4. NextHeight \in 1..MaxHeight
      BY <1>1, <1>2, ExecutorAssumption DEF NextHeight
    <3>5. block' \in Block /\ block'.height = NextHeight
      BY <3>2, <3>3, <3>4, Zenon DEF Block
    <3> QED BY <2>2, <3>5, Zenon DEF BuildBlock
  <2> QED BY <2>1, <2>2, Zenon
<1>4. TypeOK'
  BY <1>1, <1>3 DEF TypeOK, Steps
<1>5. RootsMatchExec' /\ NextHeight' = NextHeight
  BY <1>1, SameChains, Zenon
<1>6. InHand'
  <2>1. Usable' = Usable
    BY <1>1, <1>5, Zenon DEF Usable
  <2> QED BY <1>1, <1>3, <1>5, <2>1 DEF InHand
<1>7. LegacyFirst'
  BY <1>1, Zenon DEF LegacyFirst
<1>8. ExecAgrees' /\ RootsHonest'
  BY <1>1, SameChains, Zenon DEF Agreement
<1>9. ASSUME ~abandoned PROVE SignedHeld' /\ AheadIsFound' /\ RootInHand'
  <2>1. SignedHeld'
    BY <1>1, <1>9, SameChains DEF Agreement
  <2>2. RootInHand'
    BY <1>3, Zenon DEF RootInHand
  <2>3. AheadIsFound'
    BY <1>1, <1>9, SameChains, Zenon DEF Agreement, AheadIsFound
  <2> QED BY <2>1, <2>2, <2>3, Zenon
<1> QED BY <1>1, <1>4, <1>5, <1>6, <1>7, <1>8, <1>9, Zenon DEF Agreement

(* A new block is built only where nothing of its height was executed or   *)
(* signed, so its record may replace the one before.                       *)
LEMMA SavePendingInv ==
    ASSUME ExecInv, SavePending, UNCHANGED rollbackable
    PROVE  ExecInv'
<1> USE DEF ExecInv, storeVars, produceVars, historyVars
<1>1. /\ chain' = chain /\ exec' = exec /\ pending' = {block} /\ signed' = signed
      /\ legacy' = legacy /\ abandoned' = abandoned /\ root' = root /\ block' = block
      /\ hasPendingBlock' = hasPendingBlock /\ node' = node
      /\ step = "built" /\ step' = "saved"
  BY Zenon DEF SavePending
<1>2. node = "up" /\ block \in Block /\ block.height = NextHeight /\ Usable = {}
  BY <1>1, Zenon DEF TypeOK, InHand
<1>3. TypeOK'
  BY <1>1, <1>2, Zenon DEF TypeOK, Steps
<1>4. RootsMatchExec' /\ NextHeight' = NextHeight /\ Committed' = Committed
  BY <1>1, SameChains, Zenon
<1>5. InHand' /\ LegacyFirst'
  BY <1>1, <1>2, <1>4, Zenon DEF InHand, LegacyFirst
<1>6. ~abandoned => ~Ahead
  <2>1. Ahead /\ ~abandoned => hasPendingBlock
    BY <1>1, <1>2, Zenon DEF Agreement, AheadIsFound
  <2> QED BY <1>2, <2>1, AtMostOneAhead, Zenon DEF Usable
<1>7. ExecAgrees' /\ RootsHonest'
  <2>1. Len(chain) \in Nat /\ Len(exec) \in Nat
    BY CommittedSeq, SeqLen, Zenon DEF TypeOK
  <2>2. ExecAgrees'
    BY <1>1, <1>4, <1>6, <2>1 DEF Agreement, ExecAgrees, Ahead
  <2> QED BY <1>1, <2>2, SameChains, Zenon DEF Agreement
<1>8. ASSUME ~abandoned PROVE SignedHeld' /\ AheadIsFound' /\ RootInHand'
  <2>1. SignedHeld'
    BY <1>1, <1>4, <1>6, <1>8 DEF Agreement, SignedHeld, Ahead
  <2>2. AheadIsFound'
    BY <1>1, <1>6, <1>8, SameChains DEF AheadIsFound
  <2>3. RootInHand'
    BY <1>1, Zenon DEF RootInHand
  <2> QED BY <2>1, <2>2, <2>3, Zenon
<1> QED BY <1>1, <1>3, <1>4, <1>5, <1>7, <1>8 DEF Agreement

(* The block in hand is executed: it was saved, so what is new on the      *)
(* execution layer is the pending block.                                   *)
LEMMA ApplyInv ==
    ASSUME ExecInv, ApplyBlock, UNCHANGED rollbackable
    PROVE  ExecInv'
<1> USE DEF ExecInv, storeVars, produceVars, historyVars
<1>1. /\ chain' = chain /\ pending' = pending /\ signed' = signed /\ legacy' = legacy
      /\ abandoned' = abandoned /\ block' = block
      /\ hasPendingBlock' = hasPendingBlock /\ node' = node
      /\ step = "saved" /\ step' = "executed" /\ Executable(block)
      /\ exec' = ExecAfter(block) /\ root' = exec'
  BY Zenon DEF ApplyBlock
<1>2. node = "up" /\ block \in Block /\ block.height = NextHeight /\ pending = {block}
  BY <1>1, Zenon DEF TypeOK, InHand
<1>3. /\ exec \in Seq(Content) /\ Len(exec) \in Nat /\ Len(chain) \in Nat
      /\ chain \in Seq(CommittedBlock) /\ NextHeight \in Nat
      /\ Committed \in Seq(Content) /\ Len(Committed) = Len(chain)
      /\ NextHeight - 1 = Len(chain) /\ ContentOf(block) \in Content
  BY <1>2, CommittedSeq, SeqLen DEF TypeOK, NextHeight, Block, Content, ContentOf
<1>4. /\ exec' \in Seq(Content) /\ Len(exec') = NextHeight /\ Len(chain) <= Len(exec)
      /\ \A h \in 0..Len(chain) : SubSeq(exec', 1, h) = SubSeq(exec, 1, h)
      /\ \A h \in 1..Len(chain) : exec'[h] = exec[h]
      /\ exec'[NextHeight] = IF Reuses(block) THEN exec[NextHeight] ELSE ContentOf(block)
  BY <1>1, <1>2, <1>3, ExecAfterFacts, Zenon
<1>5. Committed' = Committed /\ NextHeight' = NextHeight
  BY <1>1, Zenon DEF Committed, NextHeight
<1>6. TypeOK'
  BY <1>1, <1>2, <1>4, Zenon DEF TypeOK, Steps
<1>7. RootsMatchExec'
  BY <1>1, <1>3, <1>4 DEF RootsMatchExec
<1>8. InHand'
  <2>1. SubSeq(exec', 1, NextHeight) = exec'
    BY <1>4, SeqWhole, Zenon
  <2> QED BY <1>1, <1>2, <1>4, <1>5, <2>1, Zenon DEF InHand
<1>9. LegacyFirst'
  BY <1>1, <1>2, Zenon DEF LegacyFirst
<1>10. ASSUME ~abandoned
       PROVE  /\ \A h \in 1..Len(chain) : exec'[h] = Committed[h]
              /\ exec'[NextHeight] = ContentOf(block)
  <2>1. \A h \in 1..Len(chain) : exec'[h] = Committed[h]
    BY <1>3, <1>4, <1>10, AtMostOneAhead
  <2>2. Reuses(block) => exec[NextHeight] = ContentOf(block)
    BY <1>2, <1>10, AtMostOneAhead, Zenon DEF Reuses
  <2> QED BY <1>4, <2>1, <2>2, Zenon
<1>11. ExecAgrees' /\ RootsHonest'
  <2>1. ExecAgrees'
    BY <1>1, <1>2, <1>3, <1>4, <1>5, <1>10 DEF ExecAgrees
  <2> QED BY <1>1, <1>5, <2>1, Zenon DEF Agreement, RootsHonest
<1>12. ASSUME ~abandoned PROVE SignedHeld' /\ AheadIsFound' /\ RootInHand'
  <2>1. SignedHeld' /\ AheadIsFound'
    BY <1>1, <1>5, <1>12 DEF Agreement, SignedHeld, AheadIsFound
  <2> DEFINE c == ContentOf(block)
             r == Append(Committed, c)
  <2>2. /\ r \in Seq(Content) /\ Len(r) = NextHeight
        /\ \A h \in 1..Len(chain) : r[h] = Committed[h]
        /\ r[NextHeight] = c
    BY <1>3, SeqAppend
  <2> HIDE DEF r, c
  <2>3. \A h \in 1..NextHeight : exec'[h] = r[h]
    <3>1. \A h \in 1..NextHeight : h \in 1..Len(chain) \/ h = NextHeight
      BY <1>3
    <3>2. /\ \A h \in 1..Len(chain) : exec'[h] = Committed[h]
          /\ exec'[NextHeight] = c
      BY <1>10, <1>12, Zenon DEF c
    <3> QED BY <2>2, <3>1, <3>2, Zenon
  <2>4. exec' = r
    BY <1>4, <2>2, <2>3, SeqSame
  <2>5. RootInHand'
    BY <1>1, <1>5, <2>4, Zenon DEF RootInHand, r, c
  <2> QED BY <2>1, <2>5, Zenon
<1> QED BY <1>1, <1>6, <1>7, <1>8, <1>9, <1>11, <1>12 DEF Agreement

(* The signer puts its name to the pending block.                          *)
LEMMA SignInv ==
    ASSUME ExecInv, SignHeader, UNCHANGED rollbackable
    PROVE  ExecInv'
<1> USE DEF ExecInv, storeVars, produceVars, historyVars
<1>1. /\ chain' = chain /\ exec' = exec /\ pending' = pending /\ legacy' = legacy
      /\ signed' = signed \cup {block}
      /\ abandoned' = abandoned /\ block' = block /\ root' = root
      /\ hasPendingBlock' = hasPendingBlock /\ node' = node
      /\ step = "executed" /\ step' = "signed"
  BY Zenon DEF SignHeader
<1>2. node = "up" /\ block \in Block /\ block.height = NextHeight /\ pending = {block}
  BY <1>1, Zenon DEF TypeOK, InHand
<1>3. TypeOK'
  BY <1>1, <1>2, Zenon DEF TypeOK, Steps
<1>4. RootsMatchExec' /\ NextHeight' = NextHeight /\ Committed' = Committed
  BY <1>1, SameChains, Zenon
<1>5. InHand'
  BY <1>1, <1>4, Zenon DEF InHand
<1>6. LegacyFirst'
  BY <1>1, <1>2, Zenon DEF LegacyFirst
<1>7. ExecAgrees' /\ RootsHonest'
  BY <1>1, SameChains, Zenon DEF Agreement
<1>8. ASSUME ~abandoned PROVE SignedHeld' /\ AheadIsFound' /\ RootInHand'
  BY <1>1, <1>2, <1>4, <1>8, Zenon DEF Agreement, SignedHeld, AheadIsFound, RootInHand
<1> QED BY <1>1, <1>3, <1>4, <1>5, <1>6, <1>7, <1>8 DEF Agreement

(* The block is committed with the root in hand.                           *)
LEMMA CommitInv ==
    ASSUME ExecInv, CommitBlock, UNCHANGED rollbackable
    PROVE  ExecInv'
<1> USE DEF ExecInv, storeVars, produceVars, historyVars
<1> DEFINE e == [txs |-> block.txs, time |-> block.time, root |-> root]
<1>1. /\ chain' = Append(chain, e) /\ exec' = exec /\ pending' = pending /\ legacy' = legacy
      /\ signed' = signed /\ abandoned' = abandoned /\ hasPendingBlock' = FALSE
      /\ root' = <<>> /\ node' = node /\ step = "signed" /\ step' = "idle"
  BY Zenon DEF CommitBlock
<1>2. node = "up" /\ block \in Block /\ block.height = NextHeight /\ pending = {block}
  BY <1>1, Zenon DEF TypeOK, InHand
<1>3. /\ exec \in Seq(Content) /\ Len(exec) \in Nat /\ Len(chain) \in Nat
      /\ chain \in Seq(CommittedBlock) /\ NextHeight = Len(chain) + 1
      /\ Committed \in Seq(Content) /\ Len(Committed) = Len(chain)
      /\ \A h \in 1..Len(chain) : Committed[h] = ContentOf(chain[h])
  BY CommittedSeq, SeqLen, Zenon DEF TypeOK, NextHeight
<1>4. e \in CommittedBlock /\ ContentOf(e) = ContentOf(block) /\ ContentOf(block) \in Content
  BY <1>2, Zenon DEF TypeOK, Block, CommittedBlock, Content, ContentOf
<1>5. e.root = root
  BY Zenon
<1> HIDE DEF e
<1>6. /\ chain' \in Seq(CommittedBlock) /\ Len(chain') = NextHeight
      /\ \A h \in 1..Len(chain) : chain'[h] = chain[h]
      /\ chain'[NextHeight] = e
  BY <1>1, <1>3, <1>4, SeqAppend
<1>7. /\ Committed' \in Seq(Content) /\ Len(Committed') = NextHeight
      /\ \A h \in 1..Len(chain) : Committed'[h] = Committed[h]
      /\ Committed'[NextHeight] = ContentOf(block)
      /\ NextHeight' = NextHeight + 1
  <2>1. /\ Committed' \in Seq(Content) /\ Len(Committed') = Len(chain')
        /\ \A h \in 1..Len(chain') : Committed'[h] = ContentOf(chain'[h])
    <3>1. \A h \in 1..Len(chain') : chain'[h] \in CommittedBlock
      BY <1>6, SeqElement, Zenon
    <3>2. Committed' \in [1..Len(chain') -> Content]
      BY <3>1, Zenon DEF Committed, ContentOf, CommittedBlock, Content
    <3>3. Len(chain') \in Nat
      BY <1>3, <1>6
    <3> QED BY <3>2, <3>3, SeqFunction DEF Committed
  <2>2. NextHeight' = NextHeight + 1
    BY <1>3, <1>6, Zenon DEF NextHeight
  <2>3. ASSUME NEW h \in 1..Len(chain) PROVE Committed'[h] = Committed[h]
    <3>1. h \in 1..Len(chain') /\ chain'[h] = chain[h]
      BY <1>3, <1>6
    <3> QED BY <1>3, <2>1, <3>1
  <2>4. Committed'[NextHeight] = ContentOf(block)
    <3>1. NextHeight \in 1..Len(chain')
      BY <1>3, <1>6
    <3> QED BY <1>4, <1>6, <2>1, <3>1
  <2> QED BY <1>6, <2>1, <2>2, <2>3, <2>4, Zenon
<1>8. TypeOK'
  <2>1. Len(chain') <= MaxHeight
    BY <1>2, <1>6, ExecutorAssumption DEF Block
  <2>2. <<>> \in Seq(Content)
    OBVIOUS
  <2> QED BY <1>1, <1>6, <2>1, <2>2, Zenon DEF TypeOK, Steps
<1>9. RootsMatchExec'
  <2> SUFFICES ASSUME NEW h \in 1..NextHeight, h <= Len(exec)
               PROVE  SubSeq(exec, 1, h) = chain'[h].root
    BY <1>1, <1>6, Zenon DEF RootsMatchExec
  <2>1. CASE h = NextHeight
    BY <1>1, <1>5, <1>6, <2>1 DEF InHand
  <2>2. CASE h # NextHeight
    <3>1. h \in 1..Len(chain)
      BY <1>3, <2>2
    <3> QED BY <1>6, <3>1 DEF RootsMatchExec
  <2> QED BY <2>1, <2>2
<1>10. InHand' /\ LegacyFirst'
  BY <1>1, <1>2 DEF InHand, LegacyFirst
<1>11. ASSUME ~abandoned
       PROVE  /\ root = Committed'
              /\ \A h \in 1..Len(chain) : SubSeq(Committed', 1, h) = SubSeq(Committed, 1, h)
  <2>1. root = Append(Committed, ContentOf(block))
    BY <1>1, <1>11, Zenon DEF Agreement, RootInHand
  <2>2. /\ root \in Seq(Content) /\ Len(root) = NextHeight
        /\ \A h \in 1..Len(chain) : root[h] = Committed[h]
        /\ root[NextHeight] = ContentOf(block)
    BY <1>3, <1>4, <2>1, SeqAppend
  <2>3. \A h \in 1..NextHeight : root[h] = Committed'[h]
    BY <1>3, <1>7, <2>2
  <2>4. root = Committed'
    BY <1>7, <2>2, <2>3, SeqSame
  <2>5. \A h \in 1..Len(chain) : SubSeq(root, 1, h) = SubSeq(Committed, 1, h)
    BY <1>3, <1>4, <2>1, PrefixOfAppend
  <2> QED BY <2>4, <2>5
<1>12. ExecAgrees' /\ RootsHonest'
  <2> SUFFICES ASSUME ~abandoned PROVE ExecAgrees' /\ RootsHonest'
    BY <1>1, Zenon DEF ExecAgrees, RootsHonest
  <2>1. /\ Len(exec) <= NextHeight
        /\ \A h \in 1..Len(exec) : h <= Len(chain) => exec[h] = Committed[h]
        /\ NextHeight <= Len(exec) => exec[NextHeight] = ContentOf(block)
    BY <1>2, AtMostOneAhead, Zenon
  <2>2. \A h \in 1..Len(exec) : h <= NextHeight /\ exec[h] = Committed'[h]
    BY <1>3, <1>7, <2>1
  <2>3. ExecAgrees'
    BY <1>1, <1>6, <2>2, Zenon DEF ExecAgrees
  <2>4. ASSUME NEW h \in 1..NextHeight PROVE chain'[h].root = SubSeq(Committed', 1, h)
    <3>1. CASE h = NextHeight
      <4>1. SubSeq(Committed', 1, NextHeight) = Committed'
        BY <1>7, SeqWhole, Zenon
      <4> QED BY <1>5, <1>6, <1>11, <3>1, <4>1
    <3>2. CASE h # NextHeight
      <4>1. h \in 1..Len(chain)
        BY <1>3, <3>2
      <4> QED BY <1>6, <1>11, <4>1 DEF Agreement, RootsHonest
    <3> QED BY <3>1, <3>2
  <2>5. RootsHonest'
    BY <1>6, <2>4, Zenon DEF RootsHonest
  <2> QED BY <2>3, <2>5, Zenon
<1>13. ASSUME ~abandoned PROVE SignedHeld' /\ AheadIsFound' /\ RootInHand'
  <2>1. ASSUME NEW b \in signed
        PROVE  b.height <= NextHeight /\ ContentOf(b) = Committed'[b.height]
    <3>1. b.height \in Nat \ {0}
      BY ExecutorAssumption DEF TypeOK, Block
    <3>2. CASE b.height <= Len(chain) /\ ContentOf(b) = Committed[b.height]
      BY <1>3, <1>7, <3>1, <3>2
    <3>3. CASE b.height = NextHeight /\ b \in pending
      BY <1>2, <1>3, <1>7, <3>3
    <3> QED BY <1>13, <3>2, <3>3 DEF Agreement, SignedHeld
  <2>2. SignedHeld'
    BY <1>1, <1>6, <2>1 DEF SignedHeld
  <2>3. ~Ahead'
    <3>1. Len(exec) <= NextHeight
      BY <1>13, AtMostOneAhead
    <3>2. \A b \in signed : b.height \in Nat
      BY ExecutorAssumption DEF TypeOK, Block
    <3> QED BY <1>1, <1>3, <1>6, <1>7, <2>1, <3>1, <3>2 DEF Ahead
  <2>4. AheadIsFound' /\ RootInHand'
    BY <1>1, <2>3, Zenon DEF AheadIsFound, RootInHand
  <2> QED BY <2>2, <2>4, Zenon
<1> QED BY <1>1, <1>8, <1>9, <1>10, <1>12, <1>13 DEF Agreement

(* Giving up before the block was executed changes nothing durable; after  *)
(* that it is the exemption.                                               *)
LEMMA ProduceFailsInv ==
    ASSUME ExecInv, ProduceFails, UNCHANGED rollbackable
    PROVE  ExecInv'
<1> USE DEF ExecInv, storeVars, produceVars, historyVars
<1>1. /\ chain' = chain /\ exec' = exec /\ pending' = pending /\ legacy' = legacy
      /\ signed' = signed /\ hasPendingBlock' = hasPendingBlock /\ node' = node
      /\ abandoned' = (abandoned \/ step \in {"executed", "signed"})
      /\ root' = <<>> /\ step' = "idle"
  BY Zenon DEF ProduceFails, Abandon
<1>2. TypeOK'
  <2>1. abandoned' \in BOOLEAN
    BY <1>1
  <2>2. <<>> \in Seq(Content)
    OBVIOUS
  <2> QED BY <1>1, <2>1, <2>2 DEF TypeOK, Steps
<1>3. RootsMatchExec' /\ NextHeight' = NextHeight /\ Committed' = Committed
  BY <1>1, SameChains, Zenon
<1>4. InHand' /\ LegacyFirst'
  BY <1>1, Zenon DEF InHand, LegacyFirst
<1>5. ASSUME ~abandoned' PROVE abandoned' = abandoned /\ step \notin {"executed", "signed"}
  BY <1>1, <1>5, Zenon DEF TypeOK
<1>6. Agreement'
  <2>1. CASE abandoned'
    BY <2>1, Zenon DEF Agreement, ExecAgrees, RootsHonest
  <2>2. CASE ~abandoned'
    <3>1. ExecAgrees' /\ RootsHonest' /\ SignedHeld'
      BY <1>1, <1>5, <2>2, SameChains DEF Agreement
    <3>2. AheadIsFound' /\ RootInHand'
      BY <1>1, <1>5, <2>2, SameChains DEF Agreement, AheadIsFound, RootInHand
    <3> QED BY <3>1, <3>2, Zenon DEF Agreement
  <2> QED BY <2>1, <2>2
<1> QED BY <1>2, <1>3, <1>4, <1>6

(* The process ends.  The pending record is deleted only where nothing of  *)
(* its height was executed or signed.                                      *)
LEMMA GoDownInv ==
    ASSUME ExecInv, Crash \/ Stop \/ HaltOnCriticalError, UNCHANGED rollbackable
    PROVE  ExecInv'
<1> USE DEF ExecInv, storeVars, produceVars, historyVars
<1>1. /\ chain' = chain /\ exec' = exec /\ legacy' = legacy /\ signed' = signed
      /\ hasPendingBlock' = FALSE /\ node' = "down" /\ root' = <<>> /\ step' = "idle"
  BY Zenon DEF Crash, Stop, HaltOnCriticalError, GoDown
<1>2. pending' \in {pending, {}} /\ abandoned' \in BOOLEAN
  BY Zenon DEF Crash, Stop, HaltOnCriticalError, Abandon, TypeOK
<1>3. TypeOK'
  <2>1. <<>> \in Seq(Content)
    OBVIOUS
  <2> QED BY <1>1, <1>2, <2>1, Zenon DEF TypeOK, Steps, NodeStages
<1>4. RootsMatchExec' /\ NextHeight' = NextHeight /\ Committed' = Committed
  BY <1>1, SameChains, Zenon
<1>5. InHand' /\ LegacyFirst'
  BY <1>1, Zenon DEF InHand, LegacyFirst
<1>6. ASSUME ~abandoned'
      PROVE  ~abandoned /\ (pending' = pending \/ ~Ahead)
  <2>1. CASE Crash
    BY <1>6, <2>1, Zenon DEF Crash
  <2>2. ASSUME pending' # pending, node = "up", step \notin {"executed", "signed"}, ~abandoned
        PROVE  ~Ahead
    <3>1. ~hasPendingBlock
      BY <2>2, Zenon DEF Crash, Stop, HaltOnCriticalError
    <3> QED BY <2>2, <3>1, Zenon DEF Agreement, AheadIsFound
  <2>3. CASE Stop
    BY <1>6, <2>2, <2>3, Zenon DEF Stop, Abandon
  <2>4. CASE HaltOnCriticalError
    BY <1>6, <2>2, <2>4 DEF HaltOnCriticalError, TypeOK
  <2> QED BY <2>1, <2>3, <2>4
<1>7. Agreement'
  <2>1. CASE abandoned'
    BY <2>1, Zenon DEF Agreement, ExecAgrees, RootsHonest
  <2>2. CASE ~abandoned'
    <3>1. ~abandoned /\ RootsHonest' /\ AheadIsFound' /\ RootInHand'
      BY <1>1, <1>4, <1>6, <2>2 DEF Agreement, RootsHonest, AheadIsFound, RootInHand
    <3>2. CASE pending' = pending
      BY <1>1, <1>4, <3>1, <3>2 DEF Agreement, ExecAgrees, SignedHeld
    <3>3. CASE ~Ahead
      <4>1. Len(chain) \in Nat /\ Len(exec) \in Nat
        BY CommittedSeq, SeqLen, Zenon DEF TypeOK
      <4> QED BY <1>1, <1>4, <3>1, <3>3, <4>1 DEF Agreement, ExecAgrees, SignedHeld, Ahead
    <3> QED BY <1>6, <2>2, <3>2, <3>3
  <2> QED BY <2>1, <2>2, Zenon
<1> QED BY <1>3, <1>4, <1>5, <1>7

-----------------------------------------------------------------------------
(* Every step preserves the invariant.                                     *)
LEMMA ExecNextInv == ExecInv /\ [Next]_vars => ExecInv'
<1> SUFFICES ASSUME ExecInv, [Next]_vars PROVE ExecInv'
  BY Zenon
<1>1. ASSUME StartUp, UNCHANGED rollbackable PROVE ExecInv'
  <2>1. CASE Start \/ FindPending \/ CleanLegacy \/ SyncDone \/ StartFails
    BY <1>1, <2>1, StartInv, Zenon
  <2>2. CASE MigratePending
    BY <1>1, <2>2, MigrateInv
  <2>3. CASE RollbackExec
    <3>1. Len(chain) \in 0..Len(exec)
      BY <2>3, CommittedSeq, SeqLen DEF RollbackExec, ExecInv, TypeOK
    <3> QED BY <1>1, <2>3, <3>1, ShortenInv DEF RollbackExec, storeVars, produceVars, historyVars
  <2>4. CASE ReplayBlock
    BY <1>1, <2>4, ReplayInv, Zenon
  <2> QED BY <1>1, <2>1, <2>2, <2>3, <2>4 DEF StartUp
<1>2. ASSUME ExecLoses, UNCHANGED rollbackable PROVE ExecInv'
  <2>1. PICK n \in 0..(Len(exec) - 1) : exec' = SubSeq(exec, 1, n)
    BY <1>2, Zenon DEF ExecLoses
  <2>2. n \in 0..Len(exec)
    BY <2>1, SeqLen DEF ExecInv, TypeOK
  <2> QED BY <1>2, <2>1, <2>2, ShortenInv DEF ExecLoses, storeVars, produceVars, historyVars
<1>3. ASSUME Produce, UNCHANGED rollbackable PROVE ExecInv'
  BY <1>3, TakeInv, SavePendingInv, ApplyInv, SignInv, Zenon DEF Produce
<1>4. ASSUME CommitBlock \/ ProduceFails, UNCHANGED rollbackable PROVE ExecInv'
  BY <1>4, CommitInv, ProduceFailsInv
<1>5. ASSUME Crash \/ Stop \/ HaltOnCriticalError, UNCHANGED rollbackable PROVE ExecInv'
  BY <1>5, GoDownInv, Zenon
<1>6. ASSUME UNCHANGED vars PROVE ExecInv'
  <2> USE <1>6 DEF vars, storeVars, produceVars, historyVars, ExecInv
  <2>1. TypeOK' /\ InHand' /\ LegacyFirst'
    BY DEF TypeOK, InHand, LegacyFirst, Usable, NextHeight
  <2>2. RootsMatchExec' /\ ExecAgrees' /\ RootsHonest'
    BY SameChains, Zenon DEF Agreement
  <2>3. ~abandoned => SignedHeld' /\ AheadIsFound' /\ RootInHand'
    BY SameChains DEF Agreement, AheadIsFound, RootInHand
  <2> QED BY <2>1, <2>2, <2>3 DEF Agreement
<1> QED BY <1>1, <1>2, <1>3, <1>4, <1>5, <1>6 DEF Next

LEMMA ExecInductive == Spec => []ExecInv
BY ExecInitInv, ExecNextInv, PTL DEF Spec

(* Types.                                                                  *)
THEOREM ExecutorTypes == Spec => []TypeOK
<1>1. ExecInv => TypeOK
  BY Zenon DEF ExecInv
<1> QED BY <1>1, ExecInductive, PTL

(* The execution layer has, at every committed height, the committed block *)
(* if it has one, and beyond it at most the pending block (executor.go     *)
(* ProduceBlock, replay.go SyncToHeight).                                  *)
THEOREM StoreAndExecutionAgree == Spec => []ExecAgrees
<1>1. ExecInv => ExecAgrees
  BY Zenon DEF ExecInv, Agreement
<1> QED BY <1>1, ExecInductive, PTL

(* Every committed state root is the one that executing the committed      *)
(* blocks gives, and the one the execution layer has for the height.       *)
THEOREM CommittedRoots == Spec => [](RootsHonest /\ RootsMatchExec)
<1>1. ExecInv => RootsHonest /\ RootsMatchExec
  BY DEF ExecInv, Agreement
<1> QED BY <1>1, ExecInductive, PTL

(* No height is signed twice unless an executed block was given up         *)
(* (executor.go signHeader, savePendingBlock).                             *)
THEOREM NoHeightSignedTwice == Spec => []SignedOnce
<1>1. ExecInv => SignedOnce
  <2> SUFFICES ASSUME ExecInv, ~abandoned, NEW a \in signed, NEW b \in signed,
                      a.height = b.height
               PROVE  a = b
    BY Zenon DEF SignedOnce, OneSignature
  <2>1. a \in Block /\ b \in Block
    BY Zenon DEF ExecInv, TypeOK
  <2>2. SignedHeld
    BY Zenon DEF ExecInv, Agreement
  <2>3. Len(chain) \in Nat /\ NextHeight = Len(chain) + 1
    BY CommittedSeq, Zenon DEF ExecInv, TypeOK, NextHeight
  <2>4. CASE a.height <= Len(chain)
    <3>1. ContentOf(a) = ContentOf(b)
      BY <2>2, <2>3, <2>4 DEF SignedHeld
    <3> QED BY <2>1, <3>1 DEF Block, ContentOf
  <2>5. CASE ~(a.height <= Len(chain))
    <3>1. a \in pending /\ b \in pending
      BY <2>2, <2>5, Zenon DEF SignedHeld
    <3> QED BY <3>1 DEF ExecInv, TypeOK
  <2> QED BY <2>4, <2>5, Zenon
<1> QED BY <1>1, ExecInductive, PTL
=============================================================================
