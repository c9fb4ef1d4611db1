---------------------------- MODULE DASubscriber ----------------------------
(***************************************************************************)
(* The DA subscriber of a full node (block/internal/da/subscriber.go) with *)
(* the follower as its handler (block/internal/syncing/da_follower.go).    *)
(* Two goroutines advance one cursor, localDAHeight: the follow loop       *)
(* handles a subscription event inline when it is for the cursor's height, *)
(* the catch-up loop fetches height after height up to the highest seen.   *)
(* Each claims a height by a compare-and-swap before it handles it, and    *)
(* stores the old value back when handling fails.                          *)
(*                                                                         *)
(* A DA height is handled when the blobs of all its namespaces were passed *)
(* on; an event brings those of one namespace, a fetch those of all.       *)
(***************************************************************************)
EXTENDS Integers, FiniteSets, FiniteSetsExt

CONSTANTS
    StartHeight,    \* StartDAHeight
    MaxDAHeight,    \* bound: DA blocks
    MaxLag,         \* bound: how far behind DA's head an event may be
    MaxHints        \* maxPriorityHeights

ASSUME SubscriberAssumption ==
    /\ MaxDAHeight \in Nat /\ StartHeight \in 1..(MaxDAHeight + 1)
    /\ MaxLag \in Nat /\ MaxHints \in Nat \ {0}

VARIABLES
    daHead,
    split,          \* headers and data have a namespace, and a stream, each
    localDAHeight, highestSeenDAHeight, headReached, seenSubscriptionEvent, catchupSignal,
    life,          \* "stopped", "running" or, its context cancelled, "stopping"
    follow,         \* place of the follow loop (or poll loop), its event
    catchup,        \* place of the catch-up loop, the height it is at, the highest it saw
    priorityHeights,
    handled,        \* history: the heights passed on, with all their blobs
    slips           \* history: what went wrong between claim and roll back

cursorVars == <<localDAHeight, highestSeenDAHeight, headReached, seenSubscriptionEvent,
                catchupSignal>>
historyVars == <<handled, slips>>
vars == <<daHead, split, cursorVars, life, follow, catchup, priorityHeights, historyVars>>

Height == 1..MaxDAHeight
FollowPlaces == {"off", "poll", "select", "event", "claim", "handle", "rollback"}
CatchupPlaces == {"off", "wait", "loop", "check", "claim", "handle", "rollback", "future"}

(* A loop keeps its locals only while it has a height in hand.             *)
FollowIdle(place) == [at |-> place, height |-> 0]
CatchupIdle(place) == [at |-> place, height |-> 0, highest |-> 0]
FollowAt(place) ==
    follow' = IF place \in {"claim", "handle", "rollback"} THEN [follow EXCEPT !.at = place]
              ELSE FollowIdle(place)
CatchupAt(place) ==
    catchup' = IF place \in {"handle", "rollback", "future"} THEN [catchup EXCEPT !.at = place]
               ELSE CatchupIdle(place)

Init ==
    /\ daHead = 0
    /\ split \in BOOLEAN
    /\ localDAHeight = StartHeight
    /\ highestSeenDAHeight = StartHeight
    /\ headReached = FALSE
    /\ seenSubscriptionEvent = FALSE
    /\ catchupSignal = TRUE
    /\ life = "stopped"
    /\ follow = FollowIdle("off")
    /\ catchup = CatchupIdle("off")
    /\ priorityHeights = {}
    /\ handled = {}
    /\ slips = {}

DAGrows ==
    /\ daHead < MaxDAHeight
    /\ daHead' = daHead + 1
    /\ UNCHANGED <<split, cursorVars, life, follow, catchup, priorityHeights, historyVars>>

-----------------------------------------------------------------------------
(* Start and Stop; the client may or may not support subscriptions.        *)
Start ==
    /\ life = "stopped"
    /\ life' = "running"
    /\ \E place \in {"select", "poll"} : FollowAt(place)
    /\ CatchupAt("wait")
    /\ UNCHANGED <<daHead, split, cursorVars, priorityHeights, historyVars>>

Stop ==
    /\ life = "running"
    /\ life' = "stopping"
    /\ slips' = slips \cup {"stopped"}
    /\ UNCHANGED <<daHead, split, cursorVars, follow, catchup, priorityHeights, handled>>

Stopped ==
    /\ life = "stopping"
    /\ follow.at = "off" /\ catchup.at = "off"
    /\ life' = "stopped"
    /\ UNCHANGED <<daHead, split, cursorVars, follow, catchup, priorityHeights, historyVars>>

-----------------------------------------------------------------------------
(* The follow loop.  updateHighest wakes the catch-up loop when there is   *)
(* something new.                                                          *)
\* mutant: the catch-up loop is not woken
UpdateHighest_NoSignal(h) ==
    /\ highestSeenDAHeight' = IF h > highestSeenDAHeight THEN h ELSE highestSeenDAHeight
    /\ UNCHANGED catchupSignal
UpdateHighest(h) ==
    /\ highestSeenDAHeight' = IF h > highestSeenDAHeight THEN h ELSE highestSeenDAHeight
    /\ catchupSignal' = (catchupSignal \/ h > highestSeenDAHeight)

PollDAHeight ==
    /\ follow.at = "poll"
    /\ daHead > highestSeenDAHeight
    /\ seenSubscriptionEvent' = TRUE
    /\ UpdateHighest(daHead)
    /\ UNCHANGED <<daHead, split, localDAHeight, headReached, life, follow, catchup,
                   priorityHeights, historyVars>>

SwitchToFollow ==
    /\ follow.at = "poll"
    /\ FollowAt("select")
    /\ UNCHANGED <<daHead, split, cursorVars, life, catchup, priorityHeights, historyVars>>

FollowExits ==
    /\ follow.at \in {"poll", "select"}
    /\ life = "stopping"
    /\ FollowAt("off")
    /\ UNCHANGED <<daHead, split, cursorVars, life, catchup, priorityHeights, historyVars>>

(* An event for a recent DA height: events wait in channels, are lost      *)
(* while the subscription is renewed, and come in any order when the       *)
(* streams of two namespaces are merged.                                   *)
ReceiveEvent ==
    /\ follow.at = "select"
    /\ \E h \in Height \cap ((daHead - MaxLag)..daHead) :
         /\ seenSubscriptionEvent' = TRUE
         /\ UpdateHighest(h)
         /\ follow' = [at |-> "event", height |-> h]
    /\ UNCHANGED <<daHead, split, localDAHeight, headReached, life, catchup,
                   priorityHeights, historyVars>>

(* An event that is not for the cursor's height is left to the catch-up.   *)
CompareEvent ==
    /\ follow.at = "event"
    /\ FollowAt(IF localDAHeight = follow.height THEN "claim" ELSE "select")
    /\ UNCHANGED <<daHead, split, cursorVars, life, catchup, priorityHeights, historyVars>>

\* mutant: a store instead of a compare-and-swap
ClaimInline_Store ==
    /\ follow.at = "claim"
    /\ localDAHeight' = follow.height + 1
    /\ FollowAt("handle")
    /\ UNCHANGED <<daHead, split, highestSeenDAHeight, headReached, seenSubscriptionEvent,
                   catchupSignal, life, catchup, priorityHeights, historyVars>>
ClaimInline ==
    /\ follow.at = "claim"
    /\ IF localDAHeight = follow.height
       THEN localDAHeight' = follow.height + 1 /\ FollowAt("handle")
       ELSE UNCHANGED localDAHeight /\ FollowAt("select")
    /\ UNCHANGED <<daHead, split, highestSeenDAHeight, headReached, seenSubscriptionEvent,
                   catchupSignal, life, catchup, priorityHeights, historyVars>>

(* HandleEvent passes on the blobs of the event's namespace, or fails:     *)
(* there are none, none make a complete block, or the sink does not take   *)
(* them.                                                                   *)
HandleEvent ==
    /\ follow.at = "handle"
    /\ handled' = IF split THEN handled ELSE handled \cup {follow.height}
    /\ headReached' = (headReached \/ follow.height >= highestSeenDAHeight)
    /\ slips' = slips \cup {s \in {"partial"} : split}
    /\ FollowAt("select")
    /\ UNCHANGED <<daHead, split, localDAHeight, highestSeenDAHeight, seenSubscriptionEvent,
                   catchupSignal, life, catchup, priorityHeights>>

HandleEventFails ==
    /\ follow.at = "handle"
    /\ FollowAt("rollback")
    /\ UNCHANGED <<daHead, split, cursorVars, life, catchup, priorityHeights, historyVars>>

(* A roll back is a plain store: it may raise a cursor that the other loop *)
(* has rolled back further, and lower it below the other loop's claim.     *)
FollowHolds(h) == follow.at \in {"handle", "rollback"} /\ follow.height = h
CatchupHolds(h) == catchup.at \in {"handle", "rollback", "future"} /\ catchup.height = h
RollBackSlips(h) ==
    {s \in {"raised"} : h > localDAHeight}
      \cup {s \in {"lowered"} : \E k \in (h + 1)..(MaxDAHeight + 1) : FollowHolds(k) \/ CatchupHolds(k)}

\* mutant: the cursor stays where it is
RollBack_Never(h) == UNCHANGED localDAHeight /\ slips' = slips \cup RollBackSlips(h)
RollBack(h) == localDAHeight' = h /\ slips' = slips \cup RollBackSlips(h)

RollBackInline ==
    /\ follow.at = "rollback"
    /\ RollBack(follow.height)
    /\ FollowAt("select")
    /\ UNCHANGED <<daHead, split, highestSeenDAHeight, headReached, seenSubscriptionEvent,
                   catchupSignal, life, catchup, priorityHeights, handled>>

-----------------------------------------------------------------------------
(* The catch-up loop.                                                      *)
CatchupExits ==
    /\ catchup.at = "wait"
    /\ life = "stopping"
    /\ CatchupAt("off")
    /\ UNCHANGED <<daHead, split, cursorVars, life, follow, priorityHeights, historyVars>>

CatchupWakes ==
    /\ catchup.at = "wait"
    /\ catchupSignal
    /\ catchupSignal' = FALSE
    /\ CatchupAt("loop")
    /\ UNCHANGED <<daHead, split, localDAHeight, highestSeenDAHeight, headReached,
                   seenSubscriptionEvent, life, follow, priorityHeights, historyVars>>

LoadLocal ==
    /\ catchup.at = "loop"
    /\ catchup' = IF life = "stopping" THEN CatchupIdle("wait")
                  ELSE [catchup EXCEPT !.at = "check", !.height = localDAHeight]
    /\ UNCHANGED <<daHead, split, cursorVars, life, follow, priorityHeights, historyVars>>

CheckHead ==
    /\ catchup.at = "check"
    /\ IF seenSubscriptionEvent /\ catchup.height > highestSeenDAHeight
       THEN headReached' = TRUE /\ CatchupAt("wait")
       ELSE /\ UNCHANGED headReached
            /\ catchup' = [catchup EXCEPT !.at = "claim", !.highest = highestSeenDAHeight]
    /\ UNCHANGED <<daHead, split, localDAHeight, highestSeenDAHeight, seenSubscriptionEvent,
                   catchupSignal, life, follow, priorityHeights, historyVars>>

ClaimCatchup ==
    /\ catchup.at = "claim"
    /\ IF localDAHeight = catchup.height
       THEN localDAHeight' = catchup.height + 1 /\ CatchupAt("handle")
       ELSE UNCHANGED localDAHeight /\ CatchupAt("loop")
    /\ UNCHANGED <<daHead, split, highestSeenDAHeight, headReached, seenSubscriptionEvent,
                   catchupSignal, life, follow, priorityHeights, historyVars>>

(* HandleCatchup: the lowest hint that is neither stale nor in the future  *)
(* comes first, then the height itself.  Hints that were looked at are     *)
(* dropped, whatever comes of them.                                        *)
LiveHints == {p \in priorityHeights : p >= catchup.height}
Fetchable == {p \in LiveHints : p <= daHead}
HintsLeft == IF Fetchable = {} THEN {} ELSE LiveHints \ {Min(Fetchable)}
HintFetched == IF Fetchable = {} THEN {} ELSE {Min(Fetchable)}

HandleCatchup ==
    /\ catchup.at = "handle"
    /\ catchup.height <= daHead
    /\ handled' = handled \cup HintFetched \cup {catchup.height}
    /\ priorityHeights' = HintsLeft
    /\ CatchupAt("loop")
    /\ UNCHANGED <<daHead, split, cursorVars, life, follow, slips>>

(* It fails on the hint, or on the height itself, which may be one that    *)
(* DA has not reached.                                                     *)
HandleCatchupFails ==
    /\ catchup.at = "handle"
    /\ \/ CatchupAt("rollback") /\ UNCHANGED handled
       \/ /\ catchup.height > daHead
          /\ CatchupAt("future")
          /\ handled' = handled \cup HintFetched
    /\ priorityHeights' = HintsLeft
    /\ UNCHANGED <<daHead, split, cursorVars, life, follow, slips>>

AtHead == catchup.at = "future" /\ catchup.height >= catchup.highest

RollBackCatchup ==
    /\ catchup.at \in {"rollback", "future"}
    /\ RollBack(catchup.height)
    /\ headReached' = (headReached \/ AtHead)
    /\ CatchupAt(IF AtHead THEN "wait" ELSE "loop")
    /\ UNCHANGED <<daHead, split, highestSeenDAHeight, seenSubscriptionEvent, catchupSignal,
                   life, follow, priorityHeights, handled>>

(* QueuePriorityHeight, from a block received by P2P: the lowest heights   *)
(* are kept.                                                               *)
QueuePriorityHeight ==
    /\ \E p \in Height \ priorityHeights :
         LET all == priorityHeights \cup {p}
         IN  priorityHeights' = IF Cardinality(all) > MaxHints THEN all \ {Max(all)} ELSE all
    /\ UNCHANGED <<daHead, split, cursorVars, life, follow, catchup, historyVars>>

-----------------------------------------------------------------------------
FollowStep == CompareEvent \/ ClaimInline \/ HandleEvent \/ HandleEventFails \/ RollBackInline
CatchupStep == CatchupWakes \/ LoadLocal \/ CheckHead \/ ClaimCatchup \/ HandleCatchup
                 \/ HandleCatchupFails \/ RollBackCatchup

Next ==
    \/ DAGrows
    \/ Start
    \/ Stop
    \/ Stopped
    \/ PollDAHeight
    \/ SwitchToFollow
    \/ FollowExits
    \/ ReceiveEvent
    \/ FollowStep
    \/ CatchupExits
    \/ CatchupStep
    \/ QueuePriorityHeight

Spec == Init /\ [][Next]_vars

(* Both goroutines keep running, and a fetch does not fail for ever.       *)
FairSpec ==
    /\ Spec
    /\ WF_vars(FollowStep)
    /\ WF_vars(CatchupStep)
    /\ SF_vars(HandleCatchup)

-----------------------------------------------------------------------------
(* Type invariant.                                                         *)
TypeOK ==
    /\ daHead \in 0..MaxDAHeight
    /\ localDAHeight \in StartHeight..(MaxDAHeight + 2)
    /\ highestSeenDAHeight \in StartHeight..(MaxDAHeight + 1)
    /\ {headReached, seenSubscriptionEvent, catchupSignal} \subseteq BOOLEAN
    /\ life \in {"stopped", "running", "stopping"}
    /\ follow.at \in FollowPlaces
    /\ catchup.at \in CatchupPlaces
    /\ life = "stopped" => follow.at = "off" /\ catchup.at = "off"
    /\ priorityHeights \subseteq Height /\ Cardinality(priorityHeights) <= MaxHints
    /\ handled \subseteq Height
    /\ slips \subseteq {"partial", "raised", "lowered", "stopped"}

(* No DA height is passed over: one below the cursor has been handled, in  *)
(* all its namespaces, or one of the loops has it in hand, whatever the    *)
(* loops do to the cursor in turn.  (Not so after a roll back that raised  *)
(* the cursor or an inline event of one of two namespaces.)                *)
NothingSkipped ==
    slips \cap {"raised", "partial"} = {} =>
        \A h \in StartHeight..(localDAHeight - 1) :
            h \in handled \/ FollowHolds(h) \/ CatchupHolds(h)

(* The compare-and-swap "claims this height": the loops never have the     *)
(* same height in hand, unless a roll back has put the cursor below the    *)
(* other loop's claim.                                                     *)
ClaimExclusive ==
    "lowered" \notin slips => \A h \in 1..(MaxDAHeight + 1) : ~(FollowHolds(h) /\ CatchupHolds(h))

(* While the subscriber runs and was not stopped, every height is handled  *)
(* once DA is seen beyond it, past the events for it: failures, hints and  *)
(* inline events never leave the catch-up loop asleep with work to do.     *)
EventuallyHandled ==
    \A h \in StartHeight..MaxDAHeight :
        <>[](life = "running" /\ highestSeenDAHeight > h + MaxLag
                => h \in handled \/ slips \cap {"raised", "partial", "stopped"} # {})
=============================================================================
