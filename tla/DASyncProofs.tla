---------------------------- MODULE DASyncProofs ----------------------------
(***************************************************************************)
(* Proofs about what a full node reads from DA.                            *)
(*                                                                         *)
(* The DA subscriber (DASubscriber), for any chain, starting height, lag   *)
(* and number of hints: the two loops that advance one cursor leave no DA  *)
(* height behind and never have the same height in hand, up to the slips   *)
(* that the plain store of a roll back allows.                             *)
(*                                                                         *)
(* The check of forced inclusion (InclusionCheck), for any epochs, sizes   *)
(* and postings: it accuses rightly and passes over nothing it can see.    *)
(***************************************************************************)
EXTENDS DASubscriber, InclusionCheck, FiniteSetTheorems, WellFoundedInduction, TLAPS

(* The loops, with the height each has in hand.                            *)
Loops ==
  /\ follow \in [at : FollowPlaces, height : Nat]
  /\ catchup \in [at : CatchupPlaces, height : Nat, highest : Nat]
  /\ follow.at \in {"event", "claim", "handle", "rollback"} => follow.height \in Height
  /\ follow.at \in {"claim", "handle", "rollback"} => follow.height >= StartHeight
  /\ catchup.at \in {"check", "claim", "handle", "rollback", "future"} =>
       catchup.height \in StartHeight..(MaxDAHeight + 1)

(* The cursor passes DA's bound only under the catch-up loop's claim.      *)
CursorOK ==
  /\ localDAHeight \in StartHeight..(MaxDAHeight + 2)
  /\ localDAHeight = MaxDAHeight + 2 => CatchupHolds(MaxDAHeight + 1)

Flags ==
  /\ daHead \in 0..MaxDAHeight
  /\ highestSeenDAHeight \in StartHeight..(MaxDAHeight + 1)
  /\ headReached \in BOOLEAN /\ seenSubscriptionEvent \in BOOLEAN /\ catchupSignal \in BOOLEAN
  /\ life \in {"stopped", "running", "stopping"}
  /\ life = "stopped" => follow.at = "off" /\ catchup.at = "off"
  /\ slips \subseteq {"partial", "raised", "lowered", "stopped"}
  /\ split \in BOOLEAN

Sets ==
  /\ priorityHeights \subseteq Height /\ IsFiniteSet(priorityHeights)
  /\ Cardinality(priorityHeights) <= MaxHints
  /\ handled \subseteq Height

(* A height in hand is below the cursor, until a roll back lowers it: this *)
(* is what makes the compare-and-swap a claim.                             *)
BelowCursor ==
  "lowered" \notin slips =>
    /\ follow.at \in {"handle", "rollback"} => follow.height < localDAHeight
    /\ catchup.at \in {"handle", "rollback", "future"} => catchup.height < localDAHeight

SInv ==
  /\ Loops /\ CursorOK /\ Flags /\ Sets /\ BelowCursor /\ NothingSkipped /\ ClaimExclusive

-----------------------------------------------------------------------------
LEMMA Constants ==
  /\ MaxDAHeight \in Nat /\ StartHeight \in Nat /\ 1 <= StartHeight /\ StartHeight <= MaxDAHeight + 1
  /\ MaxLag \in Nat /\ MaxHints \in Nat /\ 1 <= MaxHints
BY SubscriberAssumption

(* The least and the greatest element that Min and Max choose.             *)
LEMMA LeastOf ==
  ASSUME NEW S \in SUBSET Nat, S # {}
  PROVE  \E m \in S : \A x \in S : m <= x
<1> DEFINE R == {ss \in Nat \X Nat : ss[1] < ss[2]}
<1>1. IsWellFoundedOn(R, Nat)
  BY NatLessThanWellFounded, Zenon DEF OpToRel
<1>2. \A x, y \in Nat : x < y => <<x, y>> \in R
  BY Zenon
<1> HIDE DEF R
<1>3. PICK m \in S : \A x \in S : ~ (<<x, m>> \in R)
  BY <1>1, WFMin, Zenon
<1>4. \A x \in S : ~ (x < m)
  BY <1>2, <1>3, Zenon
<1> QED BY <1>4

LEMMA GreatestOf ==
  ASSUME NEW S \in SUBSET Nat, S # {}, NEW n \in Nat, \A x \in S : x <= n
  PROVE  \E m \in S : \A x \in S : m >= x
<1> DEFINE Bounds == {b \in Nat : \A x \in S : x <= b}
<1>1. n \in Bounds /\ Bounds \in SUBSET Nat
  BY Zenon
<1>2. PICK m \in Bounds : \A b \in Bounds : m <= b
  <2> HIDE DEF Bounds
  <2> QED BY <1>1, LeastOf, Zenon
<1>3. m \in S
  <2>1. SUFFICES ASSUME m \notin S PROVE FALSE
    BY Zenon
  <2>2. \A x \in S : x <= m - 1
    BY <2>1
  <2>3. PICK x \in S : TRUE
    BY Zenon
  <2>4. m - 1 \in Bounds
    BY <2>2, <2>3
  <2> QED
    BY <1>2, <2>4
<1> QED
  BY <1>2, <1>3, Zenon

(* What HandleCatchup does to the hints.                                   *)
LEMMA HintsShrink ==
  ASSUME Sets, Flags
  PROVE  /\ HintsLeft \subseteq priorityHeights /\ HintFetched \subseteq priorityHeights
         /\ IsFiniteSet(HintsLeft) /\ Cardinality(HintsLeft) <= MaxHints
<1> USE Constants
<1>1. Fetchable \subseteq priorityHeights /\ priorityHeights \subseteq Nat
  BY DEF Fetchable, LiveHints, Sets, Height
<1>2. HintFetched \subseteq priorityHeights
  <2>1. CASE Fetchable = {}
    BY <2>1, Zenon DEF HintFetched
  <2>2. CASE Fetchable # {}
    <3>1. \E m \in Fetchable : \A x \in Fetchable : m <= x
      BY <1>1, <2>2, LeastOf, Zenon
    <3>2. Min(Fetchable) \in Fetchable
      BY <3>1, Zenon DEF Min
    <3> QED BY <1>1, <2>2, <3>2, Zenon DEF HintFetched
  <2> QED BY <2>1, <2>2, Zenon
<1>3. HintsLeft \subseteq priorityHeights
  BY Zenon DEF HintsLeft, LiveHints
<1>4. /\ IsFiniteSet(HintsLeft) /\ Cardinality(HintsLeft) <= Cardinality(priorityHeights)
      /\ Cardinality(HintsLeft) \in Nat /\ Cardinality(priorityHeights) \in Nat
  BY <1>3, FS_Subset, FS_CardinalityType, Zenon DEF Sets
<1> QED BY <1>2, <1>3, <1>4 DEF Sets

LEMMA InitInv == Init => SInv
<1> SUFFICES ASSUME Init PROVE SInv
  BY Zenon
<1> USE Constants DEF Init, FollowIdle, CatchupIdle
<1>1. Loops /\ Flags
  <2>1. Loops
    BY Zenon DEF Loops, FollowPlaces, CatchupPlaces
  <2>2. daHead \in 0..MaxDAHeight /\ highestSeenDAHeight \in StartHeight..(MaxDAHeight + 1)
    OBVIOUS
  <2> QED BY <2>1, <2>2, Zenon DEF Flags
<1>2. CursorOK /\ BelowCursor /\ NothingSkipped /\ ClaimExclusive
  BY DEF CursorOK, BelowCursor, NothingSkipped, ClaimExclusive, FollowHolds, CatchupHolds
<1>3. Sets
  BY FS_EmptySet DEF Sets
<1> QED BY <1>1, <1>2, <1>3, Zenon DEF SInv

-----------------------------------------------------------------------------
(* The steps that touch neither the cursor nor the history, and change no  *)
(* height in hand.                                                         *)
LEMMA BackgroundInv ==
  ASSUME SInv, DAGrows \/ Stop \/ Stopped \/ QueuePriorityHeight PROVE SInv'
<1> USE Constants DEF SInv
<1>1. /\ localDAHeight' = localDAHeight /\ highestSeenDAHeight' = highestSeenDAHeight
      /\ headReached' = headReached /\ seenSubscriptionEvent' = seenSubscriptionEvent
      /\ catchupSignal' = catchupSignal /\ follow' = follow /\ catchup' = catchup
      /\ handled' = handled /\ split' = split
      /\ slips' = slips \/ slips' = slips \cup {"stopped"}
  BY Zenon DEF DAGrows, Stop, Stopped, QueuePriorityHeight, cursorVars, historyVars
<1>2. \A s \in {"raised", "partial", "lowered"} : s \in slips' <=> s \in slips
  BY <1>1, Zenon
<1>3. Loops'
  BY <1>1, Zenon DEF Loops
<1>4. CursorOK' /\ BelowCursor' /\ NothingSkipped' /\ ClaimExclusive'
  <2>1. slips' \cap {"raised", "partial"} = {} <=> slips \cap {"raised", "partial"} = {}
    BY <1>2, Zenon
  <2> QED BY <1>1, <1>2, <2>1, Zenon DEF CursorOK, BelowCursor, NothingSkipped, ClaimExclusive, FollowHolds, CatchupHolds
<1>5. Flags'
  <2>1. daHead' \in 0..MaxDAHeight
    BY DEF Flags, DAGrows, Stop, Stopped, QueuePriorityHeight
  <2>2. /\ life' \in {"stopped", "running", "stopping"}
        /\ life' = "stopped" => follow.at = "off" /\ catchup.at = "off"
    BY Zenon DEF Flags, DAGrows, Stop, Stopped, QueuePriorityHeight
  <2> QED BY <1>1, <2>1, <2>2, Zenon DEF Flags
<1>6. Sets'
  <2>1. CASE priorityHeights' = priorityHeights
    BY <1>1, <2>1, Zenon DEF Sets
  <2>2. CASE QueuePriorityHeight
    <3>1. PICK p \in Height \ priorityHeights :
            LET all == priorityHeights \cup {p}
            IN  priorityHeights' = IF Cardinality(all) > MaxHints THEN all \ {Max(all)} ELSE all
      BY <2>2, Zenon DEF QueuePriorityHeight
    <3> DEFINE all == priorityHeights \cup {p}
    <3>2. /\ IsFiniteSet(all) /\ Cardinality(all) = Cardinality(priorityHeights) + 1
          /\ Cardinality(priorityHeights) \in Nat /\ all \subseteq Height
      BY <3>1, FS_AddElement, FS_CardinalityType, Zenon DEF Sets
    <3>3. p \in all /\ all \subseteq Nat /\ \A x \in all : x <= MaxDAHeight
      BY <3>1, <3>2 DEF Height
    <3> HIDE DEF all
    <3>4. Max(all) \in all
      <4>1. \E m \in all : \A x \in all : m >= x
        BY <3>3, GreatestOf, Zenon
      <4> QED BY <4>1, Zenon DEF Max
    <3>5. IsFiniteSet(all \ {Max(all)}) /\ Cardinality(all \ {Max(all)}) = Cardinality(all) - 1
      BY <3>2, <3>4, FS_RemoveElement, Zenon
    <3>6. priorityHeights' = IF Cardinality(all) > MaxHints THEN all \ {Max(all)} ELSE all
      BY <3>1, Zenon DEF all
    <3> QED BY <1>1, <3>2, <3>5, <3>6 DEF Sets
  <2> QED BY <2>1, <2>2, Zenon DEF DAGrows, Stop, Stopped
<1> QED BY <1>3, <1>4, <1>5, <1>6, Zenon

(* The steps of the follow loop with no height claimed.                    *)
LEMMA FollowLooksInv ==
  ASSUME SInv, PollDAHeight \/ SwitchToFollow \/ FollowExits \/ ReceiveEvent \/ CompareEvent
  PROVE  SInv'
<1> USE Constants DEF SInv
<1>1. /\ localDAHeight' = localDAHeight /\ headReached' = headReached /\ catchup' = catchup
      /\ handled' = handled /\ split' = split /\ slips' = slips /\ daHead' = daHead /\ life' = life
      /\ priorityHeights' = priorityHeights
      /\ follow.at \in {"poll", "select", "event"}
  BY Zenon DEF PollDAHeight, SwitchToFollow, FollowExits, ReceiveEvent, CompareEvent, cursorVars, historyVars
<1>2. /\ highestSeenDAHeight' \in StartHeight..(MaxDAHeight + 1)
      /\ seenSubscriptionEvent' \in BOOLEAN /\ catchupSignal' \in BOOLEAN
  <2>1. ASSUME NEW h \in Nat, h <= MaxDAHeight, UpdateHighest(h)
        PROVE  highestSeenDAHeight' \in StartHeight..(MaxDAHeight + 1) /\ catchupSignal' \in BOOLEAN
    BY <2>1 DEF UpdateHighest, Flags
  <2>2. CASE PollDAHeight
    <3>1. daHead \in Nat /\ daHead <= MaxDAHeight /\ UpdateHighest(daHead) /\ seenSubscriptionEvent'
      BY <2>2 DEF PollDAHeight, Flags
    <3> QED BY <2>1, <2>2, <3>1, Zenon DEF PollDAHeight
  <2>3. CASE ReceiveEvent
    <3>1. PICK h \in Height : seenSubscriptionEvent' = TRUE /\ UpdateHighest(h)
      BY <2>3, Zenon DEF ReceiveEvent
    <3>2. h \in Nat /\ h <= MaxDAHeight
      BY DEF Height
    <3> QED BY <2>1, <3>1, <3>2, Zenon
  <2>4. CASE SwitchToFollow \/ FollowExits \/ CompareEvent
    BY <2>4, Zenon DEF SwitchToFollow, FollowExits, CompareEvent, cursorVars, Flags
  <2> QED BY <2>2, <2>3, <2>4, Zenon
<1>3. /\ follow' \in [at : FollowPlaces, height : Nat]
      /\ follow'.at \in {"off", "poll", "select", "event", "claim"}
      /\ follow'.at \in {"event", "claim"} => follow'.height \in Height
      /\ follow'.at = "claim" => follow'.height >= StartHeight
      /\ follow'.at = "off" => life # "running"
  <2>1. CASE PollDAHeight
    BY <1>1, <2>1, Zenon DEF PollDAHeight, Loops
  <2>2. CASE SwitchToFollow \/ FollowExits
    BY <2>2 DEF SwitchToFollow, FollowExits, FollowAt, FollowIdle, FollowPlaces
  <2>3. CASE ReceiveEvent
    BY <2>3 DEF ReceiveEvent, FollowPlaces, Height
  <2>4. CASE CompareEvent
    <3>1. CASE localDAHeight = follow.height
      <4>1. follow' = [follow EXCEPT !.at = "claim"]
        BY <2>4, <3>1, Zenon DEF CompareEvent, FollowAt
      <4>2. follow.height \in Height
        BY <2>4, Zenon DEF CompareEvent, Loops
      <4> QED BY <3>1, <4>1, <4>2 DEF Loops, CursorOK, FollowPlaces
    <3>2. CASE localDAHeight # follow.height
      BY <2>4, <3>2, Zenon DEF CompareEvent, FollowAt, FollowIdle, FollowPlaces
    <3> QED BY <3>1, <3>2, Zenon
  <2> QED BY <2>1, <2>2, <2>3, <2>4, Zenon
<1>4. Loops'
  BY <1>1, <1>3, Zenon DEF Loops
<1>5. CursorOK' /\ BelowCursor'
  BY <1>1, <1>3, Zenon DEF CursorOK, BelowCursor, CatchupHolds
<1>6. NothingSkipped' /\ ClaimExclusive'
  BY <1>1, <1>3, Zenon DEF NothingSkipped, ClaimExclusive, FollowHolds, CatchupHolds
<1>7. Flags' /\ Sets'
  <2>1. life # "stopped"
    BY <1>1, Zenon DEF Flags
  <2> QED BY <1>1, <1>2, <2>1, Zenon DEF Flags, Sets
<1> QED BY <1>4, <1>5, <1>6, <1>7, Zenon

(* The steps of the follow loop with a height claimed, or claiming it.     *)
LEMMA ClaimInlineInv == ASSUME SInv, ClaimInline PROVE SInv'
<1> USE Constants DEF SInv
<1>1. /\ follow.at = "claim" /\ highestSeenDAHeight' = highestSeenDAHeight
      /\ headReached' = headReached /\ seenSubscriptionEvent' = seenSubscriptionEvent
      /\ catchupSignal' = catchupSignal /\ catchup' = catchup /\ life' = life /\ daHead' = daHead
      /\ handled' = handled /\ split' = split /\ slips' = slips /\ priorityHeights' = priorityHeights
  BY Zenon DEF ClaimInline, historyVars
<1>2. /\ follow.height \in Height /\ follow.height \in Nat /\ follow.height >= StartHeight
      /\ follow.height <= MaxDAHeight /\ localDAHeight \in Nat
  BY <1>1 DEF Loops, Height, CursorOK
<1>3. Flags' /\ Sets'
  BY <1>1, Zenon DEF Flags, Sets
<1>4. CASE localDAHeight = follow.height
  <2>1. localDAHeight' = follow.height + 1 /\ follow' = [follow EXCEPT !.at = "handle"]
    BY <1>4, Zenon DEF ClaimInline, FollowAt
  <2>2. /\ follow' \in [at : FollowPlaces, height : Nat]
        /\ follow'.at = "handle" /\ follow'.height = follow.height
    BY <2>1, Zenon DEF Loops, FollowPlaces
  <2>3. Loops'
    BY <1>1, <1>2, <2>2, Zenon DEF Loops
  <2>4. CursorOK'
    BY <1>1, <1>2, <1>4, <2>1 DEF CursorOK
  <2>5. catchup.at \in {"handle", "rollback", "future"} => catchup.height \in Nat
    BY Zenon DEF Loops
  <2>6. BelowCursor'
    BY <1>1, <1>2, <1>4, <2>1, <2>2, <2>5 DEF BelowCursor
  <2>7. ClaimExclusive'
    BY <1>1, <1>2, <1>4, <2>2, <2>5 DEF ClaimExclusive, BelowCursor, FollowHolds, CatchupHolds
  <2>8. NothingSkipped'
    BY <1>1, <1>2, <1>4, <2>1, <2>2 DEF NothingSkipped, FollowHolds, CatchupHolds
  <2> QED BY <1>3, <2>3, <2>4, <2>6, <2>7, <2>8, Zenon
<1>5. CASE localDAHeight # follow.height
  <2>1. localDAHeight' = localDAHeight /\ follow' = [at |-> "select", height |-> 0]
    BY <1>5, Zenon DEF ClaimInline, FollowAt, FollowIdle
  <2>2. Loops' /\ CursorOK'
    BY <1>1, <2>1, Zenon DEF Loops, FollowPlaces, CursorOK, CatchupHolds
  <2>3. BelowCursor' /\ ClaimExclusive' /\ NothingSkipped'
    BY <1>1, <2>1, Zenon DEF BelowCursor, ClaimExclusive, NothingSkipped, FollowHolds, CatchupHolds
  <2> QED BY <1>3, <2>2, <2>3, Zenon
<1> QED BY <1>4, <1>5, Zenon

LEMMA HandleEventInv == ASSUME SInv, HandleEvent \/ HandleEventFails PROVE SInv'
<1> USE Constants DEF SInv
<1>1. /\ follow.at = "handle" /\ highestSeenDAHeight' = highestSeenDAHeight
      /\ seenSubscriptionEvent' = seenSubscriptionEvent /\ localDAHeight' = localDAHeight
      /\ catchupSignal' = catchupSignal /\ catchup' = catchup /\ life' = life /\ daHead' = daHead
      /\ split' = split /\ priorityHeights' = priorityHeights
  BY Zenon DEF HandleEvent, HandleEventFails, cursorVars
<1>2. follow.height \in Height /\ follow.height \in Nat
  BY <1>1, Zenon DEF Loops, Height
<1>3. CASE HandleEvent
  <2>1. /\ follow' = [at |-> "select", height |-> 0] /\ headReached' \in BOOLEAN
        /\ handled' = IF split THEN handled ELSE handled \cup {follow.height}
        /\ slips' = slips \cup {s \in {"partial"} : split}
    BY <1>3, Zenon DEF HandleEvent, FollowAt, FollowIdle
  <2>2. /\ slips \subseteq slips' /\ ("lowered" \in slips' => "lowered" \in slips)
        /\ split => "partial" \in slips'
        /\ ~split => handled' = handled \cup {follow.height}
        /\ slips' \subseteq slips \cup {"partial"}
    BY <2>1, Zenon
  <2>3. Loops' /\ CursorOK' /\ BelowCursor' /\ ClaimExclusive'
    <3>1. Loops' /\ CursorOK'
      BY <1>1, <2>1, Zenon DEF Loops, FollowPlaces, CursorOK, CatchupHolds
    <3> QED BY <1>1, <2>1, <2>2, <3>1, Zenon DEF BelowCursor, ClaimExclusive, FollowHolds, CatchupHolds
  <2>4. NothingSkipped'
    <3> SUFFICES ASSUME slips' \cap {"raised", "partial"} = {}, NEW h \in StartHeight..(localDAHeight - 1)
                 PROVE  (h \in handled \/ FollowHolds(h) \/ CatchupHolds(h))'
      BY <1>1, Zenon DEF NothingSkipped
    <3>1. slips \cap {"raised", "partial"} = {} /\ ~split
      BY <2>2, Zenon
    <3>2. h \in handled \/ h = follow.height \/ CatchupHolds(h)
      BY <3>1, Zenon DEF NothingSkipped, FollowHolds
    <3> QED BY <1>1, <2>2, <3>1, <3>2, Zenon DEF CatchupHolds
  <2>5. Flags' /\ Sets'
    BY <1>1, <1>2, <2>1, <2>2, Zenon DEF Flags, Sets
  <2> QED BY <2>3, <2>4, <2>5, Zenon
<1>4. CASE HandleEventFails
  <2>1. /\ follow' = [follow EXCEPT !.at = "rollback"] /\ headReached' = headReached
        /\ handled' = handled /\ slips' = slips
    BY <1>4, Zenon DEF HandleEventFails, FollowAt, cursorVars, historyVars
  <2>2. /\ follow' \in [at : FollowPlaces, height : Nat]
        /\ follow'.at = "rollback" /\ follow'.height = follow.height
    BY <2>1, Zenon DEF Loops, FollowPlaces
  <2>3. Loops' /\ CursorOK'
    BY <1>1, <2>2, Zenon DEF Loops, CursorOK, CatchupHolds
  <2>4. BelowCursor' /\ ClaimExclusive' /\ NothingSkipped'
    BY <1>1, <2>1, <2>2, Zenon DEF BelowCursor, ClaimExclusive, NothingSkipped, FollowHolds, CatchupHolds
  <2>5. Flags' /\ Sets'
    BY <1>1, <2>1, Zenon DEF Flags, Sets
  <2> QED BY <2>3, <2>4, <2>5, Zenon
<1> QED BY <1>3, <1>4, Zenon

LEMMA RollBackInlineInv == ASSUME SInv, RollBackInline PROVE SInv'
<1> USE Constants DEF SInv
<1>1. /\ follow.at = "rollback" /\ highestSeenDAHeight' = highestSeenDAHeight
      /\ headReached' = headReached /\ seenSubscriptionEvent' = seenSubscriptionEvent
      /\ catchupSignal' = catchupSignal /\ catchup' = catchup /\ life' = life /\ daHead' = daHead
      /\ handled' = handled /\ split' = split /\ priorityHeights' = priorityHeights
      /\ localDAHeight' = follow.height /\ slips' = slips \cup RollBackSlips(follow.height)
      /\ follow' = [at |-> "select", height |-> 0]
  BY Zenon DEF RollBackInline, RollBack, FollowAt, FollowIdle
<1>2. /\ follow.height \in Height /\ follow.height \in Nat /\ follow.height >= StartHeight
      /\ follow.height <= MaxDAHeight /\ localDAHeight \in Nat
  BY <1>1 DEF Loops, Height, CursorOK
<1>3. /\ slips \subseteq slips' /\ slips' \subseteq slips \cup {"raised", "lowered"}
      /\ follow.height > localDAHeight => "raised" \in slips'
      /\ \A k \in (follow.height + 1)..(MaxDAHeight + 1) : CatchupHolds(k) => "lowered" \in slips'
  BY <1>1, Zenon DEF RollBackSlips
<1>4. Flags' /\ Sets'
  BY <1>1, <1>3, Zenon DEF Flags, Sets
<1>5. Loops' /\ CursorOK'
  BY <1>1, <1>2 DEF Loops, FollowPlaces, CursorOK
<1>6. ClaimExclusive'
  BY <1>1, Zenon DEF ClaimExclusive, FollowHolds
<1>7. BelowCursor'
  <2> SUFFICES ASSUME "lowered" \notin slips', catchup.at \in {"handle", "rollback", "future"}
               PROVE  catchup.height < follow.height
    BY <1>1, Zenon DEF BelowCursor
  <2>1. catchup.height \in 1..(MaxDAHeight + 1) /\ CatchupHolds(catchup.height)
    BY DEF Loops, CatchupHolds
  <2>2. catchup.height # follow.height
    BY <1>1, <1>3, <2>1, Zenon DEF ClaimExclusive, FollowHolds
  <2>3. catchup.height \notin (follow.height + 1)..(MaxDAHeight + 1)
    BY <1>3, <2>1, Zenon
  <2> QED BY <1>2, <2>1, <2>2, <2>3
<1>8. NothingSkipped'
  <2> SUFFICES ASSUME slips' \cap {"raised", "partial"} = {}, NEW h \in StartHeight..(follow.height - 1)
               PROVE  h \in handled \/ CatchupHolds(h)
    BY <1>1, Zenon DEF NothingSkipped, CatchupHolds
  <2>1. slips \cap {"raised", "partial"} = {} /\ follow.height <= localDAHeight
    BY <1>2, <1>3
  <2>2. h \in StartHeight..(localDAHeight - 1) /\ h # follow.height
    BY <1>2, <2>1
  <2> QED BY <2>1, <2>2, Zenon DEF NothingSkipped, FollowHolds
<1> QED BY <1>4, <1>5, <1>6, <1>7, <1>8, Zenon

-----------------------------------------------------------------------------
(* The catch-up loop, in the same two parts.                               *)
LEMMA CatchupLooksInv ==
  ASSUME SInv, CatchupExits \/ CatchupWakes \/ LoadLocal \/ CheckHead PROVE SInv'
<1> USE Constants DEF SInv
<1>1. /\ localDAHeight' = localDAHeight /\ highestSeenDAHeight' = highestSeenDAHeight
      /\ seenSubscriptionEvent' = seenSubscriptionEvent /\ follow' = follow
      /\ handled' = handled /\ split' = split /\ slips' = slips /\ daHead' = daHead /\ life' = life
      /\ priorityHeights' = priorityHeights /\ catchup.at \in {"wait", "loop", "check"}
  BY Zenon DEF CatchupExits, CatchupWakes, LoadLocal, CheckHead, cursorVars, historyVars
<1>2. headReached' \in BOOLEAN /\ catchupSignal' \in BOOLEAN
  BY Zenon DEF CatchupExits, CatchupWakes, LoadLocal, CheckHead, cursorVars, Flags
<1>3. localDAHeight \in StartHeight..(MaxDAHeight + 1) /\ highestSeenDAHeight \in Nat
  BY <1>1 DEF CursorOK, CatchupHolds, Flags
<1>4. /\ catchup' \in [at : CatchupPlaces, height : Nat, highest : Nat]
      /\ catchup'.at \in {"off", "wait", "loop", "check", "claim"}
      /\ catchup'.at \in {"check", "claim"} => catchup'.height \in StartHeight..(MaxDAHeight + 1)
  <2>1. CASE CatchupExits \/ CatchupWakes
    BY <2>1 DEF CatchupExits, CatchupWakes, CatchupAt, CatchupIdle, CatchupPlaces
  <2>2. CASE LoadLocal
    <3>1. \/ catchup' = [at |-> "wait", height |-> 0, highest |-> 0]
          \/ catchup' = [at |-> "check", height |-> localDAHeight, highest |-> catchup.highest]
      BY <2>2, Zenon DEF LoadLocal, CatchupIdle, Loops
    <3>2. catchup.highest \in Nat /\ localDAHeight \in Nat
      BY <1>3 DEF Loops
    <3> QED BY <1>3, <3>1, <3>2 DEF CatchupPlaces
  <2>3. CASE CheckHead
    <3>1. \/ catchup' = [at |-> "wait", height |-> 0, highest |-> 0]
          \/ catchup' = [at |-> "claim", height |-> catchup.height, highest |-> highestSeenDAHeight]
      BY <2>3, Zenon DEF CheckHead, CatchupAt, CatchupIdle, Loops
    <3>2. catchup.height \in StartHeight..(MaxDAHeight + 1) /\ catchup.height \in Nat
      BY <2>3, Zenon DEF CheckHead, Loops
    <3> QED BY <1>3, <3>1, <3>2 DEF CatchupPlaces
  <2> QED BY <2>1, <2>2, <2>3, Zenon
<1>5. Loops'
  BY <1>1, <1>4, Zenon DEF Loops
<1>6. CursorOK' /\ BelowCursor'
  BY <1>1, <1>3, <1>4 DEF CursorOK, BelowCursor
<1>7. NothingSkipped' /\ ClaimExclusive'
  BY <1>1, <1>4, Zenon DEF NothingSkipped, ClaimExclusive, FollowHolds, CatchupHolds
<1>8. Flags' /\ Sets'
  <2>1. life # "stopped"
    BY <1>1, Zenon DEF Flags
  <2> QED BY <1>1, <1>2, <2>1, Zenon DEF Flags, Sets
<1> QED BY <1>5, <1>6, <1>7, <1>8, Zenon

LEMMA ClaimCatchupInv == ASSUME SInv, ClaimCatchup PROVE SInv'
<1> USE Constants DEF SInv
<1>1. /\ catchup.at = "claim" /\ highestSeenDAHeight' = highestSeenDAHeight
      /\ headReached' = headReached /\ seenSubscriptionEvent' = seenSubscriptionEvent
      /\ catchupSignal' = catchupSignal /\ follow' = follow /\ life' = life /\ daHead' = daHead
      /\ handled' = handled /\ split' = split /\ slips' = slips /\ priorityHeights' = priorityHeights
  BY Zenon DEF ClaimCatchup, historyVars
<1>2. /\ catchup.height \in StartHeight..(MaxDAHeight + 1) /\ catchup.height \in Nat
      /\ localDAHeight \in Nat
  BY <1>1 DEF Loops, CursorOK
<1>3. Flags' /\ Sets'
  BY <1>1, Zenon DEF Flags, Sets
<1>4. CASE localDAHeight = catchup.height
  <2>1. localDAHeight' = catchup.height + 1 /\ catchup' = [catchup EXCEPT !.at = "handle"]
    BY <1>4, Zenon DEF ClaimCatchup, CatchupAt
  <2>2. /\ catchup' \in [at : CatchupPlaces, height : Nat, highest : Nat]
        /\ catchup'.at = "handle" /\ catchup'.height = catchup.height
    BY <2>1, Zenon DEF Loops, CatchupPlaces
  <2>3. Loops'
    BY <1>1, <1>2, <2>2, Zenon DEF Loops
  <2>4. CursorOK'
    BY <1>1, <1>2, <1>4, <2>1, <2>2 DEF CursorOK, CatchupHolds
  <2>5. follow.at \in {"handle", "rollback"} => follow.height \in Nat
    BY Zenon DEF Loops
  <2>6. BelowCursor'
    BY <1>1, <1>2, <1>4, <2>1, <2>2, <2>5 DEF BelowCursor
  <2>7. ClaimExclusive'
    BY <1>1, <1>2, <1>4, <2>2, <2>5 DEF ClaimExclusive, BelowCursor, FollowHolds, CatchupHolds
  <2>8. NothingSkipped'
    BY <1>1, <1>2, <1>4, <2>1, <2>2 DEF NothingSkipped, FollowHolds, CatchupHolds
  <2> QED BY <1>3, <2>3, <2>4, <2>6, <2>7, <2>8, Zenon
<1>5. CASE localDAHeight # catchup.height
  <2>1. localDAHeight' = localDAHeight /\ catchup' = [at |-> "loop", height |-> 0, highest |-> 0]
    BY <1>5, Zenon DEF ClaimCatchup, CatchupAt, CatchupIdle
  <2>2. Loops' /\ CursorOK'
    BY <1>1, <2>1, Zenon DEF Loops, CatchupPlaces, CursorOK, CatchupHolds
  <2>3. BelowCursor' /\ ClaimExclusive' /\ NothingSkipped'
    BY <1>1, <2>1, Zenon DEF BelowCursor, ClaimExclusive, NothingSkipped, FollowHolds, CatchupHolds
  <2> QED BY <1>3, <2>2, <2>3, Zenon
<1> QED BY <1>4, <1>5, Zenon

LEMMA HandleCatchupInv == ASSUME SInv, HandleCatchup \/ HandleCatchupFails PROVE SInv'
<1> USE Constants DEF SInv
<1>1. /\ catchup.at = "handle" /\ highestSeenDAHeight' = highestSeenDAHeight
      /\ headReached' = headReached /\ seenSubscriptionEvent' = seenSubscriptionEvent
      /\ catchupSignal' = catchupSignal /\ follow' = follow /\ life' = life /\ daHead' = daHead
      /\ split' = split /\ slips' = slips /\ priorityHeights' = HintsLeft
      /\ localDAHeight' = localDAHeight
  BY Zenon DEF HandleCatchup, HandleCatchupFails, cursorVars
<1>2. catchup.height \in StartHeight..(MaxDAHeight + 1) /\ catchup.height \in Nat
  BY <1>1, Zenon DEF Loops
<1>3. /\ HintsLeft \subseteq Height /\ HintFetched \subseteq Height
      /\ IsFiniteSet(HintsLeft) /\ Cardinality(HintsLeft) <= MaxHints
  BY HintsShrink, Zenon DEF Sets
<1>4. Flags'
  BY <1>1, Zenon DEF Flags
<1>5. CASE HandleCatchup
  <2>1. /\ handled' = handled \cup HintFetched \cup {catchup.height} /\ catchup.height <= daHead
        /\ catchup' = [at |-> "loop", height |-> 0, highest |-> 0]
    BY <1>5, Zenon DEF HandleCatchup, CatchupAt, CatchupIdle
  <2>2. catchup.height \in Height
    BY <1>2, <2>1 DEF Height, Flags
  <2>3. Sets'
    BY <1>1, <1>3, <2>1, <2>2, Zenon DEF Sets
  <2>4. Loops'
    BY <1>1, <2>1, Zenon DEF Loops, CatchupPlaces
  <2>5. CursorOK'
    <3>1. localDAHeight # MaxDAHeight + 2
      BY <2>2 DEF CursorOK, CatchupHolds, Height
    <3> QED BY <1>1, <3>1, Zenon DEF CursorOK
  <2>6. BelowCursor' /\ ClaimExclusive' /\ NothingSkipped'
    BY <1>1, <2>1, Zenon DEF BelowCursor, ClaimExclusive, NothingSkipped, FollowHolds, CatchupHolds
  <2> QED BY <1>4, <2>3, <2>4, <2>5, <2>6, Zenon
<1>6. CASE HandleCatchupFails
  <2>1. /\ handled \subseteq handled' /\ handled' \subseteq handled \cup HintFetched
        /\ \/ catchup' = [catchup EXCEPT !.at = "rollback"]
           \/ catchup' = [catchup EXCEPT !.at = "future"]
    BY <1>6, Zenon DEF HandleCatchupFails, CatchupAt
  <2>2. /\ catchup' \in [at : CatchupPlaces, height : Nat, highest : Nat]
        /\ catchup'.at \in {"rollback", "future"} /\ catchup'.height = catchup.height
    BY <2>1, Zenon DEF Loops, CatchupPlaces
  <2>3. Sets'
    BY <1>1, <1>3, <2>1, Zenon DEF Sets
  <2>4. Loops' /\ CursorOK'
    BY <1>1, <1>2, <2>2, Zenon DEF Loops, CursorOK, CatchupHolds
  <2>5. BelowCursor' /\ ClaimExclusive'
    BY <1>1, <2>2, Zenon DEF BelowCursor, ClaimExclusive, FollowHolds, CatchupHolds
  <2>6. NothingSkipped'
    BY <1>1, <2>1, <2>2, Zenon DEF NothingSkipped, FollowHolds, CatchupHolds
  <2> QED BY <1>4, <2>3, <2>4, <2>5, <2>6, Zenon
<1> QED BY <1>5, <1>6, Zenon

LEMMA RollBackCatchupInv == ASSUME SInv, RollBackCatchup PROVE SInv'
<1> USE Constants DEF SInv
<1>1. /\ catchup.at \in {"rollback", "future"} /\ highestSeenDAHeight' = highestSeenDAHeight
      /\ seenSubscriptionEvent' = seenSubscriptionEvent
      /\ catchupSignal' = catchupSignal /\ follow' = follow /\ life' = life /\ daHead' = daHead
      /\ handled' = handled /\ split' = split /\ priorityHeights' = priorityHeights
      /\ localDAHeight' = catchup.height /\ slips' = slips \cup RollBackSlips(catchup.height)
      /\ headReached' \in BOOLEAN
  BY Zenon DEF RollBackCatchup, RollBack
<1>2. \/ catchup' = [at |-> "wait", height |-> 0, highest |-> 0]
      \/ catchup' = [at |-> "loop", height |-> 0, highest |-> 0]
  BY Zenon DEF RollBackCatchup, CatchupAt, CatchupIdle
<1>3. catchup.height \in StartHeight..(MaxDAHeight + 1) /\ catchup.height \in Nat /\ localDAHeight \in Nat
  BY <1>1 DEF Loops, CursorOK
<1>4. /\ slips \subseteq slips' /\ slips' \subseteq slips \cup {"raised", "lowered"}
      /\ catchup.height > localDAHeight => "raised" \in slips'
      /\ \A k \in (catchup.height + 1)..(MaxDAHeight + 1) : FollowHolds(k) => "lowered" \in slips'
  BY <1>1, Zenon DEF RollBackSlips
<1>5. Flags' /\ Sets'
  BY <1>1, <1>4, Zenon DEF Flags, Sets
<1>6. Loops' /\ CursorOK'
  BY <1>1, <1>2, <1>3 DEF Loops, CatchupPlaces, CursorOK
<1>7. ClaimExclusive'
  BY <1>2 DEF ClaimExclusive, CatchupHolds
<1>8. BelowCursor'
  <2> SUFFICES ASSUME "lowered" \notin slips', follow.at \in {"handle", "rollback"}
               PROVE  follow.height < catchup.height
    BY <1>1, <1>2 DEF BelowCursor
  <2>1. follow.height \in 1..(MaxDAHeight + 1) /\ FollowHolds(follow.height)
    BY DEF Loops, FollowHolds, Height
  <2>2. catchup.height # follow.height
    BY <1>1, <1>4, <2>1, Zenon DEF ClaimExclusive, CatchupHolds
  <2>3. follow.height \notin (catchup.height + 1)..(MaxDAHeight + 1)
    BY <1>4, <2>1, Zenon
  <2> QED BY <1>3, <2>1, <2>2, <2>3
<1>9. NothingSkipped'
  <2> SUFFICES ASSUME slips' \cap {"raised", "partial"} = {}, NEW h \in StartHeight..(catchup.height - 1)
               PROVE  h \in handled \/ FollowHolds(h)
    BY <1>1, Zenon DEF NothingSkipped, FollowHolds
  <2>1. slips \cap {"raised", "partial"} = {} /\ catchup.height <= localDAHeight
    BY <1>3, <1>4
  <2>2. h \in StartHeight..(localDAHeight - 1) /\ h # catchup.height
    BY <1>3, <2>1
  <2> QED BY <2>1, <2>2, Zenon DEF NothingSkipped, CatchupHolds
<1> QED BY <1>5, <1>6, <1>7, <1>8, <1>9, Zenon

(* A start finds both loops off, so it resets no height in hand.           *)
LEMMA StartInv == ASSUME SInv, Start PROVE SInv'
<1> USE Constants DEF SInv
<1>1. /\ localDAHeight' = localDAHeight /\ highestSeenDAHeight' = highestSeenDAHeight
      /\ headReached' = headReached /\ seenSubscriptionEvent' = seenSubscriptionEvent
      /\ catchupSignal' = catchupSignal /\ handled' = handled /\ split' = split /\ slips' = slips
      /\ daHead' = daHead /\ priorityHeights' = priorityHeights /\ life' = "running"
      /\ follow.at = "off" /\ catchup.at = "off"
  BY Zenon DEF Start, cursorVars, historyVars, Flags
<1>2. /\ catchup' = [at |-> "wait", height |-> 0, highest |-> 0]
      /\ \/ follow' = [at |-> "select", height |-> 0]
         \/ follow' = [at |-> "poll", height |-> 0]
  BY Zenon DEF Start, CatchupAt, CatchupIdle, FollowAt, FollowIdle
<1>3. Loops'
  BY <1>2 DEF Loops, FollowPlaces, CatchupPlaces
<1>4. CursorOK' /\ BelowCursor'
  BY <1>1, <1>2 DEF CursorOK, BelowCursor, CatchupHolds
<1>5. NothingSkipped' /\ ClaimExclusive'
  BY <1>1, <1>2, Zenon DEF NothingSkipped, ClaimExclusive, FollowHolds, CatchupHolds
<1>6. Flags' /\ Sets'
  BY <1>1, Zenon DEF Flags, Sets
<1> QED BY <1>3, <1>4, <1>5, <1>6, Zenon

-----------------------------------------------------------------------------
LEMMA NextInv == SInv /\ [Next]_vars => SInv'
<1> SUFFICES ASSUME SInv, [Next]_vars PROVE SInv'
  BY Zenon
<1>1. CASE UNCHANGED vars
  BY <1>1 DEF vars, cursorVars, historyVars, SInv, Loops, CursorOK, Flags, Sets, BelowCursor, NothingSkipped,
              ClaimExclusive, FollowHolds, CatchupHolds
<1>2. CASE Next
  BY <1>2, BackgroundInv, FollowLooksInv, ClaimInlineInv, HandleEventInv, RollBackInlineInv, CatchupLooksInv,
     ClaimCatchupInv, HandleCatchupInv, RollBackCatchupInv, StartInv, Zenon DEF Next, FollowStep, CatchupStep
<1> QED BY <1>1, <1>2, Zenon

LEMMA SInvHolds == Spec => []SInv
BY InitInv, NextInv, PTL DEF Spec

(* The subscriber's types: the cursor stays within the heights DA may      *)
(* reach, whatever is rolled back, and the hints within maxPriorityHeights *)
(* (subscriber.go, da_follower.go).                                        *)
THEOREM SubscriberTypes == Spec => []TypeOK
<1>1. SInv => TypeOK
  BY Zenon DEF SInv, TypeOK, Loops, CursorOK, Flags, Sets
<1> QED BY <1>1, SInvHolds, PTL

(* Every DA height below the cursor was handled, or one of the two loops   *)
(* has it in hand (subscriber.go followLoop, runCatchup).                  *)
THEOREM NoHeightPassedOver == Spec => []NothingSkipped
<1>1. SInv => NothingSkipped
  BY Zenon DEF SInv
<1> QED BY <1>1, SInvHolds, PTL

(* The loops never have the same height in hand, as long as no roll back   *)
(* put the cursor below the other loop's claim (subscriber.go, the         *)
(* compare-and-swap that "claims this height").                            *)
THEOREM ClaimsAreExclusive == Spec => []ClaimExclusive
<1>1. SInv => ClaimExclusive
  BY Zenon DEF SInv
<1> QED BY <1>1, SInvHolds, PTL

-----------------------------------------------------------------------------
(* The check of forced inclusion.  The node's own variables, as far as the *)
(* argument needs their types.                                             *)
VShape ==
  /\ postingAt \in VHeights /\ stateDA \in VHeights /\ stateDA <= postingAt
  /\ lastCheckedEpochEnd \in EpochEnds \cup {0}
  /\ accused \in BOOLEAN
  /\ unrecorded \subseteq landed
  /\ DOMAIN seenByHeight = VHeights

(* What the node remembers did land, in a block read from DA.              *)
SeenLanded == seenBlockTxs \subseteq landed \ unrecorded

(* No transaction is recorded at a DA height before its epoch's end.       *)
RecordedAfterEnd ==
  \A i \in VHeights, e \in EpochEnds :
    \A t \in EpochTxs(e) : t \in seenByHeight[i] => e <= i

(* What landed from DA belongs to an epoch the committed state has passed. *)
LandedPassed ==
  ~accused => \A e \in EpochEnds : \A t \in EpochTxs(e) :
                t \in landed \ unrecorded => e <= stateDA

(* Of the epochs still to be checked, nothing that landed is forgotten.    *)
StillSeen ==
  ~accused => \A e \in EpochEnds : \A t \in EpochTxs(e) :
                e > lastCheckedEpochEnd /\ t \in landed \ unrecorded => t \in seenBlockTxs

CheckInv ==
  /\ VShape /\ SeenLanded /\ RecordedAfterEnd /\ LandedPassed /\ StillSeen
  /\ AccusedRightly /\ CheckedMeansLanded

-----------------------------------------------------------------------------
(* The greatest of a bounded set of naturals.                              *)
LEMMA MaxExists ==
  ASSUME NEW n \in Nat, NEW S \in SUBSET (0..n), S # {}
  PROVE  Max(S) \in S /\ \A x \in S : x <= Max(S)
<1>1. S \in SUBSET Nat /\ \A x \in S : x <= n
  OBVIOUS
<1>2. \E m \in S : \A x \in S : m >= x
  BY <1>1, GreatestOf, Zenon
<1>3. Max(S) \in S /\ \A x \in S : Max(S) >= x
  BY <1>2, Zenon DEF Max
<1> QED BY <1>1, <1>3, Zenon

(* Heights are naturals, and the first epoch ends at one.                  *)
LEMMA CheckConstants ==
  /\ EpochSize \in Nat /\ EpochSize >= 1 /\ MaxDA \in Nat
  /\ DAStartHeight \in VHeights /\ VHeights \in SUBSET (Nat \ {0})
  /\ \A i \in VHeights : i \in Nat /\ i > 0 /\ i <= MaxDA
  /\ FirstEpochEnd \in Nat \ {0}
  /\ EpochEnds \in SUBSET VHeights /\ \A e \in EpochEnds \cup {0} : e \in Nat
  BY InclusionCheckAssumption DEF VHeights, FirstEpochEnd, EpochEnds

(* initializeState: no epoch that ended by da is after the one resumed     *)
(* from, which is an epoch's end itself.                                   *)
LEMMA Multiples ==
  ASSUME NEW E \in Nat, E >= 1, NEW a \in Nat, NEW b \in Nat, b % E = 0, b <= a
  PROVE  b <= (a \div E) * E
<1> DEFINE q == a \div E
           r == b \div E
<1>1. q \in Nat /\ r \in Nat /\ b = E * r /\ a < E * q + E
  OBVIOUS
<1> HIDE DEF q, r
<1>2. r <= q
  <2>1. SUFFICES ASSUME r >= q + 1 PROVE FALSE
    BY <1>1
  <2>2. E * r >= E * (q + 1)
    BY <1>1, <2>1
  <2>3. E * (q + 1) = E * q + E
    BY <1>1
  <2> QED BY <1>1, <2>2, <2>3
<1>3. E * r <= E * q
  BY <1>1, <1>2
<1>4. E * q = q * E
  BY <1>1
<1> QED BY <1>1, <1>3, <1>4 DEF q

LEMMA MultipleBelow ==
  ASSUME NEW E \in Nat, E >= 1, NEW a \in Nat
  PROVE  /\ (a \div E) * E \in Nat /\ (a \div E) * E <= a
         /\ ((a \div E) * E) % E = 0
<1> DEFINE q == a \div E
<1>1. q \in Nat /\ E * q <= a
  OBVIOUS
<1> HIDE DEF q
<1>2. q * E = E * q /\ q * E \in Nat
  BY <1>1
<1>3. (q * E) % E = 0
  <2> DEFINE p == q * E
             c == p % E
             d == p \div E
  <2>1. d \in Int /\ c \in 0..(E - 1) /\ p = E * d + c
    BY <1>2
  <2> HIDE DEF c, d
  <2>2. c = E * (q - d)
    BY <1>1, <1>2, <2>1
  <2>3. q - d <= 0
    <3>1. SUFFICES ASSUME q - d >= 1 PROVE FALSE
      BY <1>1, <2>1
    <3>2. E * (q - d) >= E
      BY <1>1, <2>1, <3>1
    <3> QED BY <2>1, <2>2, <3>2
  <2>4. E * (q - d) <= 0
    BY <1>1, <2>1, <2>3
  <2>5. c = 0
    BY <2>1, <2>2, <2>4
  <2> QED BY <2>5, Zenon DEF c
<1> QED BY <1>1, <1>2, <1>3 DEF q

LEMMA ResumeEnd ==
  ASSUME NEW da \in VHeights
  PROVE  /\ ResumeAfter(da) \in EpochEnds \cup {0}
         /\ \A e \in EpochEnds : e <= da => e <= ResumeAfter(da)
<1>1. CASE da < FirstEpochEnd
  <2>1. ResumeAfter(da) = 0
    BY <1>1 DEF ResumeAfter
  <2>2. \A e \in EpochEnds : ~ (e <= da)
    BY <1>1, CheckConstants DEF EpochEnds
  <2> QED BY <2>1, <2>2
<1>2. CASE da >= FirstEpochEnd
  <2> DEFINE a == da - FirstEpochEnd
             m == (a \div EpochSize) * EpochSize
  <2>1. a \in Nat /\ da \in Nat
    BY <1>2, CheckConstants
  <2>2. m \in Nat /\ m <= a /\ m % EpochSize = 0
    <3> HIDE DEF a
    <3> QED BY <2>1, CheckConstants, MultipleBelow
  <2>3. ResumeAfter(da) = FirstEpochEnd + m
    BY <1>2, CheckConstants DEF ResumeAfter
  <2>4. ASSUME NEW e \in EpochEnds, e <= da PROVE e - FirstEpochEnd <= m
    <3>1. e - FirstEpochEnd \in Nat /\ (e - FirstEpochEnd) % EpochSize = 0
      BY CheckConstants DEF EpochEnds
    <3>2. e - FirstEpochEnd <= a
      BY <2>4, CheckConstants
    <3> HIDE DEF a
    <3> QED BY <2>1, <3>1, <3>2, CheckConstants, Multiples
  <2> HIDE DEF m
  <2>5. FirstEpochEnd + m \in VHeights
    <3>1. FirstEpochEnd + m <= da
      BY <2>2, CheckConstants
    <3> QED BY <2>2, <3>1, InclusionCheckAssumption DEF VHeights, FirstEpochEnd
  <2>6. FirstEpochEnd + m \in EpochEnds
    <3>1. (FirstEpochEnd + m) - FirstEpochEnd = m
      BY <2>2, CheckConstants
    <3>2. FirstEpochEnd + m >= FirstEpochEnd
      BY <2>2, CheckConstants
    <3> QED BY <2>2, <2>5, <3>1, <3>2, Zenon DEF EpochEnds
  <2>7. \A e \in EpochEnds : e <= da => e <= FirstEpochEnd + m
    BY <2>2, <2>4, CheckConstants
  <2> QED BY <2>3, <2>6, <2>7, Zenon
<1> QED BY <1>1, <1>2, CheckConstants

(* gracePeriodForEpoch: an epoch's window is never shorter than one epoch. *)
LEMMA GraceAtLeastOne ==
  ASSUME NEW bytes, NEW e \in EpochEnds
  PROVE  /\ gracePeriodForEpoch(bytes, e) \in Nat
         /\ gracePeriodForEpoch(bytes, e) * EpochSize \in Nat
         /\ gracePeriodForEpoch(bytes, e) * EpochSize >= EpochSize
<1> DEFINE avg == AverageBytes(bytes, e)
           extra == IF avg > Threshold THEN (avg - Threshold) \div Threshold ELSE 0
           g == gracePeriodForEpoch(bytes, e)
<1>1. e \in Nat /\ EpochSize \in Nat /\ EpochSize >= 1 /\ MaxBlob \in Nat /\ MaxBlob >= 1
  BY CheckConstants, InclusionCheckAssumption
<1>2. TotalBytes(bytes, e) \in Nat
  <2>1. IsFiniteSet(HeightsOf(e)) /\ IsFiniteSet(1..MaxBlob)
    BY <1>1, FS_Interval DEF HeightsOf
  <2>2. IsFiniteSet(HeightsOf(e) \X (1..MaxBlob))
    BY <2>1, FS_Product, Zenon
  <2>3. IsFiniteSet({x \in HeightsOf(e) \X (1..MaxBlob) : x[2] <= bytes[x[1]]})
    BY <2>2, FS_Subset, Zenon
  <2> QED BY <2>3, FS_CardinalityType, Zenon DEF TotalBytes
<1>3. avg \in Nat
  BY <1>1, <1>2 DEF AverageBytes
<1>4. Threshold \in Nat /\ Threshold >= 1
  BY <1>1 DEF Threshold
<1> HIDE DEF avg
<1>5. extra \in Nat
  BY <1>3, <1>4
<1>6. g = IF 1 + extra < 4 THEN 1 + extra ELSE 4
  BY Zenon DEF gracePeriodForEpoch, baseGracePeriodEpochs, maxGracePeriodEpochs, avg
<1> HIDE DEF extra
<1>7. g \in 1..4
  BY <1>5, <1>6
<1> HIDE DEF g
<1>8. g * EpochSize \in Nat /\ g * EpochSize >= EpochSize
  <2>1. g = 1 \/ g = 2 \/ g = 3 \/ g = 4
    BY <1>7
  <2> QED BY <1>1, <2>1
<1> QED BY <1>7, <1>8 DEF g

(* A block carries a transaction only after the end of its epoch.          *)
LEMMA CarriedAfterEnd ==
  ASSUME VShape, NEW txs \in SUBSET Carriable,
         NEW at \in {postingAt, postingAt - 1} \cap VHeights,
         NEW e \in EpochEnds, NEW t \in EpochTxs(e), t \in txs
  PROVE  e <= at /\ t \notin landed
<1>1. t \notin landed /\ \E f \in EpochEnds : f < postingAt /\ t \in EpochTxs(f)
  BY DEF Carriable
<1>2. PICK f \in EpochEnds : f < postingAt /\ t \in EpochTxs(f)
  BY <1>1, Zenon
<1>3. f = e
  BY <1>2, PostedOnce, Zenon
<1>4. e <= at
  BY <1>2, <1>3, CheckConstants DEF VShape
<1> QED BY <1>1, <1>4, Zenon

(* The greatest of some epochs.                                            *)
LEMMA LastOf ==
  ASSUME NEW S \in SUBSET EpochEnds, S # {}
  PROVE  Max(S) \in S /\ \A x \in S : x <= Max(S)
<1>1. S \in SUBSET (0..MaxDA)
  BY CheckConstants
<1> QED BY <1>1, CheckConstants, MaxExists, Zenon

(* pruneUpTo drops only what was recorded for heights up to upTo.          *)
LEMMA PruneKeeps ==
  ASSUME NEW seen, NEW byHeight, NEW upTo
  PROVE  /\ pruneUpTo(seen, byHeight, upTo).seen \subseteq seen
         /\ \A t \in seen : \/ t \in pruneUpTo(seen, byHeight, upTo).seen
                            \/ \E i \in VHeights : i <= upTo /\ t \in byHeight[i]
         /\ DOMAIN pruneUpTo(seen, byHeight, upTo).byHeight = VHeights
         /\ \A i \in VHeights : pruneUpTo(seen, byHeight, upTo).byHeight[i] \subseteq byHeight[i]
<1> DEFINE gone == {i \in VHeights : lastCheckedEpochEnd <= i /\ i <= upTo}
<1>1. /\ pruneUpTo(seen, byHeight, upTo).seen = seen \ UNION {byHeight[i] : i \in gone}
      /\ pruneUpTo(seen, byHeight, upTo).byHeight =
           [i \in VHeights |-> IF i \in gone THEN {} ELSE byHeight[i]]
  BY DEF pruneUpTo
<1>2. \A i \in gone : i \in VHeights /\ i <= upTo
  BY Zenon
<1> HIDE DEF gone
<1>3. \A t \in seen : \/ t \in pruneUpTo(seen, byHeight, upTo).seen
                      \/ \E i \in VHeights : i <= upTo /\ t \in byHeight[i]
  BY <1>1, <1>2
<1> QED BY <1>1, <1>3, Zenon

(* VerifyForcedInclusionTxs on a block read from DA.                       *)
LEMMA VerifyBlockKeeps ==
  ASSUME CheckInv, ~accused,
         NEW txs \in SUBSET Carriable, NEW size,
         NEW at \in {postingAt, postingAt - 1} \cap VHeights,
         VerifyBlock(txs, size, at), UNCHANGED <<postingAt, unrecorded>>
  PROVE  CheckInv'
<1> DEFINE seen == seenBlockTxs \cup txs
           byHeight == [seenByHeight EXCEPT ![at] = txs]
           bytes == [daBlockBytes EXCEPT ![at] = size]
<1>1. PICK due \in {IF at < stateDA THEN {} ELSE Due(bytes, at)} :
        \E failAt \in {MaxDA + 1} \cup (IF vfaults < MaxFaults THEN due ELSE {}) :
          VerifyEpochs(txs, size, at, due, failAt)
  BY Zenon DEF VerifyBlock
<1>2. PICK failAt \in {MaxDA + 1} \cup (IF vfaults < MaxFaults THEN due ELSE {}) :
        VerifyEpochs(txs, size, at, due, failAt)
  BY <1>1, Zenon
<1> DEFINE failed == failAt <= MaxDA
           done == {e \in due : e < failAt}
           last == IF done = {} THEN lastCheckedEpochEnd ELSE Max(done)
           kept == IF done = {} THEN [seen |-> seen, byHeight |-> byHeight]
                   ELSE pruneUpTo(seen, byHeight, last)
           guilty == ~failed /\ Overdue(seen, byHeight, done) # {}
<1>3. /\ seenBlockTxs' = kept.seen /\ seenByHeight' = kept.byHeight
      /\ lastCheckedEpochEnd' = last
      /\ accused' = guilty
      /\ skipped' = IF failed THEN skipped \cup done ELSE skipped
      /\ landed' = landed \cup txs
      /\ stateDA' = IF ~guilty /\ at > stateDA THEN at ELSE stateDA
  BY <1>2, Zenon DEF VerifyEpochs
<1>4. postingAt' = postingAt /\ unrecorded' = unrecorded
  OBVIOUS
<1>5. /\ VShape /\ SeenLanded /\ RecordedAfterEnd /\ LandedPassed /\ StillSeen
      /\ AccusedRightly /\ CheckedMeansLanded
  BY Zenon DEF CheckInv
<1>6. at \in VHeights /\ at \in Nat /\ postingAt \in Nat /\ at <= postingAt
  BY <1>5, CheckConstants DEF VShape
<1>7. due \in SUBSET EpochEnds /\ done \in SUBSET EpochEnds
  BY <1>1, Zenon DEF Due
<1>8. \A e \in done : /\ e \in EpochEnds /\ e > lastCheckedEpochEnd
                      /\ e + gracePeriodForEpoch(bytes, e) * EpochSize < at
                      /\ \A f \in EpochEnds : lastCheckedEpochEnd < f /\ f <= e => f \in done
  <2>1. SUFFICES ASSUME NEW e \in done
                 PROVE  /\ e \in EpochEnds /\ e > lastCheckedEpochEnd
                        /\ e + gracePeriodForEpoch(bytes, e) * EpochSize < at
                        /\ \A f \in EpochEnds : lastCheckedEpochEnd < f /\ f <= e => f \in done
    BY Zenon
  <2>2. due = Due(bytes, at) /\ e \in due /\ e < failAt
    BY <1>1, Zenon
  <2> HIDE DEF bytes
  <2>3. /\ e \in EpochEnds /\ e > lastCheckedEpochEnd
        /\ \A f \in EpochEnds : lastCheckedEpochEnd < f /\ f <= e =>
             f + gracePeriodForEpoch(bytes, f) * EpochSize < at
    BY <2>2, Zenon DEF Due
  <2>4. e <= e
    BY <2>3, CheckConstants
  <2>5. lastCheckedEpochEnd < e
    BY <2>3, <1>5, CheckConstants DEF VShape
  <2>6. failAt \in Int
    BY <1>2, <1>7, CheckConstants
  <2>7. ASSUME NEW f \in EpochEnds, lastCheckedEpochEnd < f, f <= e PROVE f \in done
    <3>1. f > lastCheckedEpochEnd
      BY <2>7, <1>5, CheckConstants DEF VShape
    <3>2. f < failAt
      BY <2>2, <2>3, <2>6, <2>7, CheckConstants
    <3>3. \A g \in EpochEnds : lastCheckedEpochEnd < g /\ g <= f =>
             g + gracePeriodForEpoch(bytes, g) * EpochSize < at
      <4>1. \A g \in EpochEnds : g <= f => g <= e
        BY <2>3, <2>7, CheckConstants
      <4> QED BY <2>3, <4>1, Zenon
    <3>4. f \in Due(bytes, at)
      BY <3>1, <3>3, Zenon DEF Due
    <3> QED BY <2>2, <3>2, <3>4, Zenon
  <2> QED BY <2>3, <2>4, <2>5, <2>7, Zenon
<1>9. /\ last \in EpochEnds \cup {0} /\ last >= lastCheckedEpochEnd
      /\ \A e \in done : e <= last
      /\ \A e \in EpochEnds : lastCheckedEpochEnd < e /\ e <= last => e \in done
  <2> HIDE DEF done
  <2>1. CASE done = {}
    <3>1. last = lastCheckedEpochEnd
      BY <2>1, Zenon
    <3> HIDE DEF last
    <3> QED BY <2>1, <3>1, <1>5, CheckConstants DEF VShape
  <2>2. CASE done # {}
    <3>1. last = Max(done)
      BY <2>2, Zenon
    <3>2. last \in done /\ \A x \in done : x <= last
      BY <1>7, <2>2, <3>1, LastOf, Zenon
    <3> HIDE DEF last
    <3>3. last >= lastCheckedEpochEnd
      <4>1. last \in Nat /\ lastCheckedEpochEnd \in Nat
        BY <1>5, <1>7, <3>2, CheckConstants, Zenon DEF VShape
      <4>2. last > lastCheckedEpochEnd
        BY <1>8, <3>2, Zenon
      <4> QED BY <4>1, <4>2
    <3> QED BY <1>7, <1>8, <3>2, <3>3, Zenon
  <2> QED BY <2>1, <2>2, Zenon
<1>10. /\ seenBlockTxs' \subseteq seen
       /\ \A t \in seen : t \in seenBlockTxs' \/ \E i \in VHeights : i <= last /\ t \in byHeight[i]
       /\ DOMAIN seenByHeight' = VHeights
       /\ \A i \in VHeights : seenByHeight'[i] \subseteq byHeight[i]
  <2>1. CASE done = {}
    <3>1. kept = [seen |-> seen, byHeight |-> byHeight]
      BY <2>1, Zenon
    <3>2. seenBlockTxs' = seen /\ seenByHeight' = byHeight
      <4> HIDE DEF seen, byHeight, kept
      <4> QED BY <1>3, <3>1
    <3>3. DOMAIN byHeight = VHeights
      BY <1>5, Zenon DEF VShape
    <3> HIDE DEF seen, byHeight
    <3> QED BY <3>2, <3>3, Zenon
  <2>2. CASE done # {}
    <3>1. kept = pruneUpTo(seen, byHeight, last)
      BY <2>2, Zenon
    <3>2. /\ seenBlockTxs' = pruneUpTo(seen, byHeight, last).seen
          /\ seenByHeight' = pruneUpTo(seen, byHeight, last).byHeight
      BY <1>3, <3>1, Zenon
    <3> HIDE DEF seen, byHeight, last
    <3> QED BY <3>2, PruneKeeps
  <2> QED BY <2>1, <2>2, Zenon
<1>11. \A i \in VHeights, e \in EpochEnds : \A t \in EpochTxs(e) : t \in byHeight[i] => e <= i
  <2>1. SUFFICES ASSUME NEW i \in VHeights, NEW e \in EpochEnds, NEW t \in EpochTxs(e), t \in byHeight[i]
                 PROVE  e <= i
    BY Zenon
  <2>2. byHeight[i] = IF i = at THEN txs ELSE seenByHeight[i]
    BY <1>5, Zenon DEF VShape
  <2>3. CASE i = at
    BY <1>5, <2>1, <2>2, <2>3, CarriedAfterEnd, Zenon
  <2>4. CASE i # at
    BY <1>5, <2>1, <2>2, <2>4, Zenon DEF RecordedAfterEnd
  <2> QED BY <2>3, <2>4, Zenon
<1>12. \A t \in txs : t \notin landed /\ t \notin unrecorded
  <2>1. unrecorded \subseteq landed /\ \A t \in Carriable : t \notin landed
    BY <1>5 DEF Carriable, VShape
  <2> QED BY <2>1, Zenon
<1>13. seen \subseteq (landed \cup txs) \ unrecorded
  BY <1>5, <1>12, Zenon DEF SeenLanded
<1>14. \A e \in EpochEnds : \A t \in EpochTxs(e) :
         e > lastCheckedEpochEnd /\ t \in (landed \cup txs) \ unrecorded => t \in seen
  BY <1>5, Zenon DEF StillSeen
<1> HIDE DEF seen, byHeight, bytes, last
<1>15. ASSUME guilty
       PROVE  \E e \in EpochEnds : /\ (EpochTxs(e) \cap Valid) \ ((landed \cup txs) \ unrecorded) # {}
                                   /\ e + baseGracePeriodEpochs * EpochSize < postingAt
  <2> HIDE DEF done
  <2>1. PICK e \in done : \E t \in EpochTxs(e) \cap Valid :
          t \notin IF e - EpochSize \in done
                     THEN pruneUpTo(seen, byHeight, e - EpochSize).seen ELSE seen
    BY <1>15, Zenon DEF Overdue
  <2>2. PICK t \in EpochTxs(e) \cap Valid :
          t \notin IF e - EpochSize \in done
                     THEN pruneUpTo(seen, byHeight, e - EpochSize).seen ELSE seen
    BY <2>1, Zenon
  <2>3. e \in EpochEnds /\ e > lastCheckedEpochEnd /\ e + gracePeriodForEpoch(bytes, e) * EpochSize < at
    BY <1>8, Zenon
  <2>4. ASSUME t \in seen PROVE FALSE
    <3>1. t \notin pruneUpTo(seen, byHeight, e - EpochSize).seen
      BY <2>2, <2>4, Zenon
    <3>2. PICK i \in VHeights : i <= e - EpochSize /\ t \in byHeight[i]
      BY <2>4, <3>1, PruneKeeps
    <3>3. e <= i
      BY <1>11, <2>2, <2>3, <3>2, Zenon
    <3> QED BY <2>3, <3>2, <3>3, CheckConstants
  <2>5. t \notin (landed \cup txs) \ unrecorded
    BY <1>14, <2>2, <2>3, <2>4, Zenon
  <2>6. e + baseGracePeriodEpochs * EpochSize < postingAt
    <3>1. /\ gracePeriodForEpoch(bytes, e) * EpochSize \in Nat
          /\ gracePeriodForEpoch(bytes, e) * EpochSize >= EpochSize
      BY <2>3, GraceAtLeastOne, Zenon
    <3> QED BY <1>6, <2>3, <3>1, CheckConstants DEF baseGracePeriodEpochs
  <2> QED BY <2>2, <2>3, <2>5, <2>6, Zenon
<1>16. ASSUME ~guilty, ~failed, NEW e \in done
       PROVE  EpochTxs(e) \cap Valid \subseteq seen
  <2> HIDE DEF done
  <2>1. Overdue(seen, byHeight, done) = {}
    BY <1>16, Zenon
  <2>2. \A t \in EpochTxs(e) \cap Valid :
          t \in IF e - EpochSize \in done
                  THEN pruneUpTo(seen, byHeight, e - EpochSize).seen ELSE seen
    BY <2>1 DEF Overdue
  <2> QED BY <2>2, PruneKeeps, Zenon
<1> HIDE DEF guilty, failed, done, kept
<1>17. VShape'
  <2>1. stateDA' \in VHeights /\ stateDA' <= postingAt
    BY <1>3, <1>5, <1>6, CheckConstants DEF VShape
  <2>2. accused' \in BOOLEAN
    BY <1>3, Zenon DEF guilty
  <2>3. unrecorded \subseteq landed'
    BY <1>3, <1>5, Zenon DEF VShape
  <2> QED BY <1>3, <1>4, <1>5, <1>9, <1>10, <2>1, <2>2, <2>3, Zenon DEF VShape
<1>18. SeenLanded'
  BY <1>3, <1>4, <1>10, <1>13, Zenon DEF SeenLanded
<1>19. RecordedAfterEnd'
  BY <1>10, <1>11, Zenon DEF RecordedAfterEnd
<1>20. LandedPassed'
  <2>1. SUFFICES ASSUME ~guilty, NEW e \in EpochEnds, NEW t \in EpochTxs(e),
                        t \in (landed \cup txs) \ unrecorded
                 PROVE  e <= stateDA'
    BY <1>3, <1>4, Zenon DEF LandedPassed
  <2>2. stateDA' >= at /\ stateDA' >= stateDA /\ stateDA' \in Nat
    BY <1>3, <1>5, <1>6, <2>1, CheckConstants DEF VShape
  <2>3. CASE t \in txs
    <3>1. e <= at
      BY <1>5, <2>3, CarriedAfterEnd, Zenon
    <3> QED BY <1>6, <2>2, <3>1, CheckConstants
  <2>4. CASE t \in landed \ unrecorded
    <3>1. e <= stateDA
      BY <1>5, <2>4, Zenon DEF LandedPassed
    <3> QED BY <1>5, <2>2, <3>1, CheckConstants DEF VShape
  <2> QED BY <2>1, <2>3, <2>4, Zenon
<1>21. StillSeen'
  <2>1. SUFFICES ASSUME NEW e \in EpochEnds, NEW t \in EpochTxs(e), e > last,
                        t \in (landed \cup txs) \ unrecorded
                 PROVE  t \in seenBlockTxs'
    BY <1>3, <1>4, Zenon DEF StillSeen
  <2>2. e > lastCheckedEpochEnd
    BY <1>5, <1>9, <2>1, CheckConstants DEF VShape
  <2>3. t \in seen
    BY <1>14, <2>1, <2>2, Zenon
  <2>4. ASSUME NEW i \in VHeights, i <= last, t \in byHeight[i] PROVE FALSE
    <3>1. e <= i
      BY <1>11, <2>4, Zenon
    <3> QED BY <1>9, <2>1, <2>4, <3>1, CheckConstants
  <2> QED BY <1>10, <2>3, <2>4, Zenon
<1>22. AccusedRightly'
  BY <1>3, <1>4, <1>15, Zenon DEF AccusedRightly
<1>23. CheckedMeansLanded'
  <2>1. SUFFICES ASSUME ~guilty, NEW e \in EpochEnds, e <= last, e \notin skipped'
                 PROVE  EpochTxs(e) \cap Valid \subseteq landed \cup txs
    BY <1>3, Zenon DEF CheckedMeansLanded
  <2>2. e \notin skipped
    BY <1>3, <2>1, Zenon
  <2>3. CASE e <= lastCheckedEpochEnd
    BY <1>5, <2>2, <2>3, Zenon DEF CheckedMeansLanded
  <2>4. CASE lastCheckedEpochEnd < e
    <3>1. e \in done
      BY <1>9, <2>1, <2>4, Zenon
    <3>2. ~failed
      BY <1>3, <2>1, <3>1, Zenon
    <3> QED BY <1>13, <1>16, <2>1, <3>1, <3>2, Zenon
  <2>5. e <= lastCheckedEpochEnd \/ lastCheckedEpochEnd < e
    BY <1>5, CheckConstants DEF VShape
  <2> QED BY <2>3, <2>4, <2>5, Zenon
<1> QED BY <1>17, <1>18, <1>19, <1>20, <1>21, <1>22, <1>23, Zenon DEF CheckInv

(* A block that came by P2P is not recorded.                               *)
LEMMA SyncFromP2PKeeps ==
  ASSUME CheckInv, SyncFromP2P
  PROVE  CheckInv'
<1>1. PICK txs \in SUBSET Carriable : landed' = landed \cup txs /\ unrecorded' = unrecorded \cup txs
  BY Zenon DEF SyncFromP2P
<1>2. /\ postingAt' = postingAt /\ stateDA' = stateDA /\ seenBlockTxs' = seenBlockTxs
      /\ seenByHeight' = seenByHeight /\ lastCheckedEpochEnd' = lastCheckedEpochEnd
      /\ accused' = accused /\ skipped' = skipped /\ ~accused
  BY Zenon DEF SyncFromP2P
<1>3. landed' \ unrecorded' = landed \ unrecorded /\ unrecorded' \subseteq landed' /\ landed \subseteq landed'
  <2>1. unrecorded \subseteq landed /\ \A t \in txs : t \notin landed
    BY DEF CheckInv, VShape, Carriable
  <2> QED BY <1>1, <2>1, Zenon
<1>4. VShape'
  BY <1>2, <1>3, Zenon DEF CheckInv, VShape
<1>5. SeenLanded' /\ RecordedAfterEnd'
  BY <1>2, <1>3, Zenon DEF CheckInv, SeenLanded, RecordedAfterEnd
<1>6. LandedPassed' /\ StillSeen'
  BY <1>2, <1>3, Zenon DEF CheckInv, LandedPassed, StillSeen
<1>7. AccusedRightly' /\ CheckedMeansLanded'
  BY <1>2, <1>3, Zenon DEF CheckInv, AccusedRightly, CheckedMeansLanded
<1> QED BY <1>4, <1>5, <1>6, <1>7, Zenon DEF CheckInv

(* A restart resumes where nothing that landed is still to be checked.     *)
LEMMA VRestartKeeps ==
  ASSUME CheckInv, VRestart
  PROVE  CheckInv'
<1>1. /\ postingAt' = postingAt /\ stateDA' = stateDA /\ seenBlockTxs' = {}
      /\ seenByHeight' = [i \in VHeights |-> {}] /\ lastCheckedEpochEnd' = ResumeAfter(stateDA)
      /\ skipped' = skipped \cup {e \in EpochEnds : lastCheckedEpochEnd < e /\ e <= ResumeAfter(stateDA)}
      /\ accused' = accused /\ landed' = landed /\ unrecorded' = unrecorded /\ ~accused
  BY Zenon DEF VRestart
<1>2. /\ ResumeAfter(stateDA) \in EpochEnds \cup {0}
      /\ \A e \in EpochEnds : e <= stateDA => e <= ResumeAfter(stateDA)
  BY ResumeEnd, Zenon DEF CheckInv, VShape
<1>3. VShape'
  BY <1>1, <1>2, Zenon DEF CheckInv, VShape
<1>4. SeenLanded' /\ RecordedAfterEnd'
  BY <1>1, Zenon DEF SeenLanded, RecordedAfterEnd
<1>5. LandedPassed'
  BY <1>1, Zenon DEF CheckInv, LandedPassed
<1>6. StillSeen'
  <2>1. SUFFICES ASSUME NEW e \in EpochEnds, NEW t \in EpochTxs(e), e > ResumeAfter(stateDA),
                        t \in landed \ unrecorded
                 PROVE  FALSE
    BY <1>1, Zenon DEF StillSeen
  <2>2. e <= ResumeAfter(stateDA)
    BY <1>1, <1>2, <2>1, Zenon DEF CheckInv, LandedPassed
  <2>3. e \in Nat /\ ResumeAfter(stateDA) \in Nat
    BY <1>2, CheckConstants, Zenon
  <2> QED BY <2>1, <2>2, <2>3
<1>7. AccusedRightly'
  BY <1>1, Zenon DEF AccusedRightly
<1>8. CheckedMeansLanded'
  <2>1. SUFFICES ASSUME NEW e \in EpochEnds, e <= ResumeAfter(stateDA), e \notin skipped'
                 PROVE  EpochTxs(e) \cap Valid \subseteq landed
    BY <1>1, Zenon DEF CheckedMeansLanded
  <2>2. e \notin skipped /\ ~ (lastCheckedEpochEnd < e)
    BY <1>1, <2>1, Zenon
  <2>3. e <= lastCheckedEpochEnd
    BY <2>2, CheckConstants DEF CheckInv, VShape
  <2> QED BY <1>1, <2>2, <2>3, Zenon DEF CheckInv, CheckedMeansLanded
<1> QED BY <1>3, <1>4, <1>5, <1>6, <1>7, <1>8, Zenon DEF CheckInv

LEMMA DAAdvancesKeeps ==
  ASSUME CheckInv, DAAdvances
  PROVE  CheckInv'
<1>1. /\ postingAt' = postingAt + 1 /\ postingAt < MaxDA /\ ~accused /\ stateDA' = stateDA
      /\ seenBlockTxs' = seenBlockTxs /\ seenByHeight' = seenByHeight
      /\ lastCheckedEpochEnd' = lastCheckedEpochEnd /\ accused' = accused
      /\ landed' = landed /\ unrecorded' = unrecorded /\ skipped' = skipped
  BY Zenon DEF DAAdvances
<1>2. postingAt' \in VHeights /\ stateDA <= postingAt'
  BY <1>1, InclusionCheckAssumption DEF CheckInv, VShape, VHeights
<1>3. VShape'
  BY <1>1, <1>2, Zenon DEF CheckInv, VShape
<1>4. SeenLanded' /\ RecordedAfterEnd' /\ LandedPassed' /\ StillSeen'
  BY <1>1, Zenon DEF CheckInv, SeenLanded, RecordedAfterEnd, LandedPassed, StillSeen
<1>5. AccusedRightly' /\ CheckedMeansLanded'
  BY <1>1, Zenon DEF CheckInv, AccusedRightly, CheckedMeansLanded
<1> QED BY <1>3, <1>4, <1>5, Zenon DEF CheckInv

LEMMA CheckInvInductive ==
  ASSUME CheckInv, [VNext]_vVars
  PROVE  CheckInv'
<1>1. CASE SyncFromDA
  <2>1. PICK txs \in SUBSET Carriable, size \in Sizes, at \in {postingAt, postingAt - 1} \cap VHeights :
          VerifyBlock(txs, size, at)
    BY <1>1, Zenon DEF SyncFromDA
  <2>2. ~accused /\ UNCHANGED <<postingAt, unrecorded>>
    BY <1>1, Zenon DEF SyncFromDA
  <2> QED BY <2>1, <2>2, VerifyBlockKeeps, Zenon
<1>2. CASE SyncFromP2P
  BY <1>2, SyncFromP2PKeeps, Zenon
<1>3. CASE VRestart
  BY <1>3, VRestartKeeps, Zenon
<1>4. CASE DAAdvances
  BY <1>4, DAAdvancesKeeps, Zenon
<1>5. CASE UNCHANGED vVars
  <2>1. /\ postingAt' = postingAt /\ stateDA' = stateDA
        /\ seenBlockTxs' = seenBlockTxs /\ seenByHeight' = seenByHeight
        /\ lastCheckedEpochEnd' = lastCheckedEpochEnd /\ accused' = accused
        /\ landed' = landed /\ unrecorded' = unrecorded /\ skipped' = skipped
    BY <1>5, Zenon DEF vVars
  <2> QED BY <2>1, Zenon DEF CheckInv, VShape, SeenLanded, RecordedAfterEnd, LandedPassed,
                             StillSeen, AccusedRightly, CheckedMeansLanded
<1> QED BY <1>1, <1>2, <1>3, <1>4, <1>5, Zenon DEF VNext

LEMMA CheckInvInitially ==
  ASSUME VInit
  PROVE  CheckInv
<1>1. /\ postingAt = DAStartHeight /\ stateDA = DAStartHeight /\ seenBlockTxs = {}
      /\ seenByHeight = [i \in VHeights |-> {}] /\ lastCheckedEpochEnd = ResumeAfter(DAStartHeight)
      /\ accused = FALSE /\ landed = {} /\ unrecorded = {}
      /\ skipped = {e \in EpochEnds : e <= ResumeAfter(DAStartHeight)}
  BY Zenon DEF VInit
<1>2. /\ ResumeAfter(DAStartHeight) \in EpochEnds \cup {0}
      /\ DAStartHeight <= DAStartHeight /\ DAStartHeight \in VHeights
  BY CheckConstants, ResumeEnd
<1>3. VShape
  BY <1>1, <1>2, Zenon DEF VShape
<1>4. SeenLanded /\ RecordedAfterEnd /\ LandedPassed /\ StillSeen
  BY <1>1, Zenon DEF SeenLanded, RecordedAfterEnd, LandedPassed, StillSeen
<1>5. AccusedRightly /\ CheckedMeansLanded
  BY <1>1, Zenon DEF AccusedRightly, CheckedMeansLanded
<1> QED BY <1>3, <1>4, <1>5, Zenon DEF CheckInv

LEMMA CheckInvHolds == VSpec => []CheckInv
<1>1. VInit => CheckInv
  BY CheckInvInitially
<1>2. CheckInv /\ [VNext]_vVars => CheckInv'
  BY CheckInvInductive
<1> QED BY <1>1, <1>2, PTL DEF VSpec

(* The check of forced inclusion never accuses the sequencer of a valid    *)
(* forced transaction that the node has read in a block from DA, nor       *)
(* before the base grace window is over: not after a restart that forgets  *)
(* the records, a failed request, a pruned epoch or DA heights out of      *)
(* order (syncer.go VerifyForcedInclusionTxs).                             *)
THEOREM AccusationsAreRight == VSpec => []AccusedRightly
<1>1. CheckInv => AccusedRightly
  BY Zenon DEF CheckInv
<1> QED BY <1>1, CheckInvHolds, PTL

(* An epoch is passed over only when all its valid forced transactions     *)
(* have landed, unless a failed request or a start lost its check          *)
(* (syncer.go VerifyForcedInclusionTxs, pruneUpTo, initializeState).       *)
THEOREM PassedEpochsLanded == VSpec => []CheckedMeansLanded
<1>1. CheckInv => CheckedMeansLanded
  BY Zenon DEF CheckInv
<1> QED BY <1>1, CheckInvHolds, PTL

=============================================================================
