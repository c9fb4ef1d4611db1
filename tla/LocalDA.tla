------------------------------- MODULE LocalDA -------------------------------
(* The DA layer for local networks (tools/local-da): blocks made by a ticker and  *)
(* by submissions over RPC, and a subscription that runs through two channels.    *)
EXTENDS Integers, Sequences

CONSTANTS
  Namespaces,
  Submissions,   \* what may be submitted: sequences of records [ns, size]
  MaxBlobSize,
  ChannelSize,   \* of a subscriber's channel, and of the response channel
  LocalHeights, LocalTime  \* bounds

ASSUME LocalAssumption ==
  /\ {MaxBlobSize, LocalHeights, LocalTime} \subseteq Nat /\ ChannelSize \in Nat \ {0}
  /\ \A s \in Submissions : \A i \in DOMAIN s : s[i].ns \in Namespaces

VARIABLES
  lData,      \* blobData: the blobs of each height so far
  lTimes,     \* timestamps, 0 where there is none
  lLastTime,  \* lastTime
  lClock,
  lSub,       \* the subscriber: namespace and first height, a set of at most one
  lEvents,    \* its channel
  lTaken,     \* the event its goroutine holds, a sequence of at most one
  lOut,       \* the response channel
  lSeen,      \* history: responses the client has read
  lDropped,   \* history: heights dropped because the channel was full
  lFailed,    \* history: heights of submissions that were refused
  lTicked     \* history: heights the ticker made

lSubVars == <<lSub, lEvents, lTaken, lOut, lSeen, lDropped>>
lVars == <<lData, lTimes, lLastTime, lClock, lSubVars, lFailed, lTicked>>

DAHeight == Len(lData)
Matching(blobs, ns) == SelectSeq(blobs, LAMBDA b : b.ns = ns)

LInit ==
  /\ lData = <<>> /\ lTimes = <<>> /\ lLastTime = 1 /\ lClock = 1
  /\ lSub = {} /\ lEvents = <<>> /\ lTaken = <<>> /\ lOut = <<>> /\ lSeen = <<>> /\ lDropped = {}
  /\ lFailed = {} /\ lTicked = {}

ClockTicks ==
  /\ lClock < LocalTime /\ lClock' = lClock + 1
  /\ UNCHANGED <<lData, lTimes, lLastTime, lSubVars, lFailed, lTicked>>

\* mutant: every blob of the block is passed on.
EventOf_All(height, blobs, ns) == [height |-> height, blobs |-> blobs]

EventOf(height, blobs, ns) == [height |-> height, blobs |-> Matching(blobs, ns)]

\* notifySubscribers: an event for every block, the blobs of the subscriber's
\* namespace in it; dropped if the channel is full.
notifySubscribers(height, blobs) ==
  \/ lSub = {} /\ UNCHANGED <<lEvents, lDropped>>
  \/ \E s \in lSub :
       IF Len(lEvents) < ChannelSize
         THEN /\ lEvents' = Append(lEvents, EventOf(height, blobs, s.ns))
              /\ UNCHANGED lDropped
         ELSE lDropped' = lDropped \cup {height} /\ UNCHANGED lEvents

monotonicTime == IF lClock > lLastTime THEN lClock ELSE lLastTime + 1

produceEmptyBlock ==
  /\ DAHeight < LocalHeights
  /\ lData' = Append(lData, <<>>) /\ lTimes' = Append(lTimes, monotonicTime) /\ lLastTime' = monotonicTime
  /\ notifySubscribers(DAHeight + 1, <<>>) /\ lTicked' = lTicked \cup {DAHeight + 1}
  /\ UNCHANGED <<lClock, lSub, lTaken, lOut, lSeen, lFailed>>

\* blobServer.Submit: a block of its own, with the wall clock.
SubmitBlobs ==
  /\ DAHeight < LocalHeights
  /\ \E s \in Submissions :
       /\ \A i \in DOMAIN s : s[i].size <= MaxBlobSize
       /\ lData' = Append(lData, s) /\ notifySubscribers(DAHeight + 1, s)
  /\ lTimes' = Append(lTimes, lClock)
  /\ UNCHANGED <<lLastTime, lClock, lSub, lTaken, lOut, lSeen, lFailed, lTicked>>

\* A blob over the limit ends it with an error: the height is used, the blobs
\* before it stay, and nobody is told.
SubmitTooBig ==
  /\ DAHeight < LocalHeights
  /\ \E s \in Submissions : \E i \in DOMAIN s :
       /\ s[i].size > MaxBlobSize /\ \A j \in 1..(i - 1) : s[j].size <= MaxBlobSize
       /\ lData' = Append(lData, SubSeq(s, 1, i - 1))
  /\ lTimes' = Append(lTimes, 0) /\ lFailed' = lFailed \cup {DAHeight + 1}
  /\ UNCHANGED <<lLastTime, lClock, lSubVars, lTicked>>

\* Subscribe starts with the next block; the client may come back after it left.
Subscribe ==
  /\ lSub = {}
  /\ \E ns \in Namespaces : lSub' = {[ns |-> ns, from |-> DAHeight + 1]}
  /\ lEvents' = <<>> /\ lTaken' = <<>> /\ lOut' = <<>> /\ lSeen' = <<>> /\ lDropped' = {}
  /\ UNCHANGED <<lData, lTimes, lLastTime, lClock, lFailed, lTicked>>

\* Its goroutine takes an event and passes it on when there is room.
TakeSubEvent ==
  /\ lTaken = <<>> /\ lEvents # <<>> /\ lTaken' = <<Head(lEvents)>> /\ lEvents' = Tail(lEvents)
  /\ UNCHANGED <<lData, lTimes, lLastTime, lClock, lSub, lOut, lSeen, lDropped, lFailed, lTicked>>
PassOn ==
  /\ lTaken # <<>> /\ Len(lOut) < ChannelSize
  /\ lOut' = lOut \o lTaken /\ lTaken' = <<>>
  /\ UNCHANGED <<lData, lTimes, lLastTime, lClock, lSub, lEvents, lSeen, lDropped, lFailed, lTicked>>
ClientReads ==
  /\ lOut # <<>> /\ lSeen' = Append(lSeen, Head(lOut)) /\ lOut' = Tail(lOut)
  /\ UNCHANGED <<lData, lTimes, lLastTime, lClock, lSub, lEvents, lTaken, lDropped, lFailed, lTicked>>
Unsubscribe ==
  /\ lSub # {} /\ lSub' = {} /\ lEvents' = <<>> /\ lTaken' = <<>> /\ lOut' = <<>> /\ lSeen' = <<>> /\ lDropped' = {}
  /\ UNCHANGED <<lData, lTimes, lLastTime, lClock, lFailed, lTicked>>

LNext ==
  \/ ClockTicks \/ produceEmptyBlock \/ SubmitBlobs \/ SubmitTooBig
  \/ Subscribe \/ TakeSubEvent \/ PassOn \/ ClientReads \/ Unsubscribe

LSpec == LInit /\ [][LNext]_lVars

------------------------------------------------------------------------------
Delivered == lSeen \o lOut \o lTaken \o lEvents

\* A subscriber gets the blocks since it subscribed in order, each once and with
\* exactly its namespace's blobs of that block; it misses one only if its channel
\* was full then or the block was left by a refused submission (local.go
\* notifySubscribers, rpc.go Subscribe).
LocalStreamExact ==
  \A s \in lSub :
    /\ \A i, j \in DOMAIN Delivered : i < j => Delivered[i].height < Delivered[j].height
    /\ {Delivered[i].height : i \in DOMAIN Delivered} = (s.from..DAHeight) \ (lDropped \cup lFailed)
    /\ \A i \in DOMAIN Delivered : Delivered[i].blobs = Matching(lData[Delivered[i].height], s.ns)

\* Blocks of the ticker have increasing times, whatever the clock does
\* and whatever is submitted between them (local.go monotonicTime).
LocalTickTimes == \A i, j \in lTicked : i < j => lTimes[i] < lTimes[j]
=============================================================================
