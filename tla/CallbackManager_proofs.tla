------------------------ MODULE CallbackManager_proofs ------------------------
(***************************************************************************)
(* What the native callback manager promises, for any numbers of listeners *)
(* and notifications and any time-outs: a WaitForQueue that returned true  *)
(* was not early, and every listener is called with the notifications it   *)
(* is due, once and in order, although the loop that does so goes by index *)
(* over a table that changes while it has released the mutex.              *)
(*                                                                         *)
(* The events in m_queue are the last that were sent, and the one at its   *)
(* front is in hand until it is popped.  No index is reused, so that an    *)
(* index stands for one listener for ever; those before the loop's have    *)
(* heard of the event in hand if they are due it, and those from it on     *)
(* have not.                                                               *)
(***************************************************************************)
EXTENDS CallbackManager, SequenceTheorems, FiniteSetTheorems, TLAPS

Listener == [id : Ids, polled : BOOLEAN]
WaiterStates ==
    [pc : {"out", "waiting", "true", "timed_out"}, kind : {"timed", "forever"},
     from : Nat, woken : BOOLEAN]
Item == [event : Nat, only : Ids \cup {All}]
Retired == Len(log) - Len(queue)
-----------------------------------------------------------------------------
(* The queue, and who waits for it to be empty. *)

\* The queue holds the last of what was sent.
Queued ==
    /\ Len(queue) <= Len(log)
    /\ \A i \in DOMAIN queue : queue[i].event = Retired + i

\* There is nothing in it before the thread is made.
Owned ==
    /\ owner = "none" => queue = <<>>
    /\ owner = "started" => running

QueueTypes ==
    /\ owner \in {"none", "started", "stopped"} /\ running \in BOOLEAN
    /\ listeners \in Seq(Listener \cup {Empty}) /\ ids \in 0 .. MaxAdds
    /\ queue \in Seq(Item) /\ log \in Seq(Ids \cup {All})
    /\ waiter \in WaiterStates /\ waiter.from <= Len(log)

QueueInv == QueueTypes /\ Queued /\ Owned /\ WaitMeansDelivered
-----------------------------------------------------------------------------
(* The loop. *)

NoReuse == MaxAdds <= ReuseThreshold

\* The listener that was added n-th is at index n, or nobody is.
Slots ==
    /\ Len(listeners) = ids
    /\ \A u \in DOMAIN listeners : listeners[u] = Empty \/ listeners[u].id = u
    /\ Len(freed) = Cardinality({u \in DOMAIN listeners : ~ Used(u)})

\* A notification for one listener is for the one its target was.
Targeted ==
    \A i \in DOMAIN queue : /\ queue[i].only = log[queue[i].event]
                            /\ queue[i].only <= ids

\* the front of the queue is in hand
Busy == pc \in {"scan", "copy", "call", "crashed"}

\* the loop has been past the index
Passed(l) == Busy /\ (l < index \/ (pc = "call" /\ l = index))

Looping ==
    /\ owner = "none" => pc = "none"
    /\ calling # All <=> pc \in {"copy", "crashed"}
    /\ Busy => queue # <<>> /\ index >= First(Head(queue))
    /\ pc \in {"copy", "call"} => ~ Past(Head(queue))
    /\ pc = "copy" => calling = index

\* Nobody has heard of more than what is dealt with, and of the event in hand if the
\* loop has passed him.
NotAhead ==
    \A l \in Ids :
        /\ \A i \in DOMAIN heard[l] : heard[l][i] <= Retired + (IF Passed(l) THEN 1 ELSE 0)
        /\ l > ids => heard[l] = <<>>

\* Whom the loop has passed, and who is due the event in hand, has heard of it.
NotBehind ==
    \A l \in Ids :
        Passed(l) /\ Used(l) /\ since[l] <= Retired /\ Head(queue).only \in {All, l} =>
            heard[l] # <<>> /\ heard[l][Len(heard[l])] = Retired + 1

LoopTypes ==
    /\ pc \in {"none", "wait", "scan", "copy", "call", "exited", "crashed"}
    /\ index \in Nat /\ calling \in Ids \cup {All}
    /\ freed \in Seq(Ids) /\ since \in [Ids -> Nat] /\ heard \in [Ids -> Seq(Nat)]

LoopInv == LoopTypes /\ Slots /\ Targeted /\ Looping /\ NotAhead /\ NotBehind

IInv == QueueInv /\ LoopInv
-----------------------------------------------------------------------------
(* The queue through the steps. *)

queueVars == <<owner, running, listeners, ids, queue, log, waiter>>

LEMMA QueueInitially ==
    ASSUME ManagerInit PROVE QueueInv
<1>1. QueueTypes
  <2>1. listeners \in Seq(Listener \cup {Empty}) /\ queue \in Seq(Item)
        /\ log \in Seq(Ids \cup {All}) /\ Len(log) = 0
    BY DEF ManagerInit
  <2>2. waiter \in WaiterStates /\ waiter.from = 0
    BY DEF ManagerInit, WaiterStates
  <2>3. ids \in 0 .. MaxAdds
    <3>1. MaxAdds \in Nat
      BY ManagerAssumption
    <3> QED
      BY <3>1 DEF ManagerInit
  <2>4. owner \in {"none", "started", "stopped"} /\ running \in BOOLEAN
    BY DEF ManagerInit
  <2> QED
    BY <2>1, <2>2, <2>3, <2>4 DEF QueueTypes
<1>2. Queued /\ Owned /\ WaitMeansDelivered
  BY DEF ManagerInit, Queued, Owned, WaitMeansDelivered, Retired
<1> QED
  BY <1>1, <1>2 DEF QueueInv

LEMMA QueueStutters ==
    ASSUME QueueInv, UNCHANGED queueVars PROVE QueueInv'
  BY DEF QueueInv, queueVars, QueueTypes, Queued, Owned, WaitMeansDelivered, Retired

\* Starting and stopping leave the queue and the waiter.
LEMMA QueueOwnership ==
    ASSUME QueueInv,
           UNCHANGED <<listeners, ids, queue, log, waiter>>,
           ManagerStart \/ (owner = "started" /\ owner' = "stopped" /\ running' = FALSE)
    PROVE  QueueInv'
<1>1. QueueTypes'
  BY DEF QueueInv, QueueTypes, ManagerStart
<1>2. Queued' /\ Owned'
  BY DEF QueueInv, Queued, Owned, Retired, ManagerStart
<1>3. WaitMeansDelivered'
  <2>1. CASE owner' = "started" /\ owner = "none"
    BY <2>1 DEF QueueInv, Owned, WaitMeansDelivered
  <2>2. CASE owner' # "started" \/ owner = "started"
    BY <2>2 DEF QueueInv, WaitMeansDelivered
  <2> QED
    BY <2>1, <2>2 DEF ManagerStart, QueueInv, QueueTypes
<1> QED
  BY <1>1, <1>2, <1>3 DEF QueueInv

\* The listeners stay listeners as they are erased.
LEMMA ErasedTypes ==
    ASSUME NEW uids, listeners \in Seq(Listener \cup {Empty}), Erase(uids)
    PROVE  /\ listeners' \in Seq(Listener \cup {Empty})
           /\ Len(listeners') = Len(listeners)
           /\ \A u \in DOMAIN listeners : listeners'[u] = IF u \in uids THEN Empty ELSE listeners[u]
<1>1. listeners' = [u \in 1 .. Len(listeners) |-> IF u \in uids THEN Empty ELSE listeners[u]]
  BY DEF Erase
<1>2. \A u \in 1 .. Len(listeners) :
         (IF u \in uids THEN Empty ELSE listeners[u]) \in Listener \cup {Empty}
  OBVIOUS
<1>3. Len(listeners) \in Nat
  OBVIOUS
<1> QED
  BY <1>1, <1>2, <1>3

LEMMA QueueErase ==
    ASSUME QueueInv, NEW uids, Erase(uids), UNCHANGED <<owner, running, ids, queue, log, waiter>>
    PROVE  QueueInv'
<1>1. listeners' \in Seq(Listener \cup {Empty})
  BY ErasedTypes DEF QueueInv, QueueTypes
<1>2. QueueTypes'
  BY <1>1 DEF QueueInv, QueueTypes
<1>3. Queued' /\ Owned' /\ WaitMeansDelivered'
  BY DEF QueueInv, Queued, Owned, WaitMeansDelivered, Retired
<1> QED
  BY <1>2, <1>3 DEF QueueInv

LEMMA QueueAdd ==
    ASSUME QueueInv, NEW polled \in Added, DoAdd(polled)
    PROVE  QueueInv'
<1> DEFINE new == [id |-> ids + 1, polled |-> polled]
<1>1. new \in Listener /\ ids + 1 \in 0 .. MaxAdds
  BY ManagerAssumption DEF DoAdd, QueueInv, QueueTypes, Listener, Ids
<1>2. listeners' \in Seq(Listener \cup {Empty})
  <2>1. CASE listeners' = Append(listeners, new)
    BY <1>1, <2>1 DEF QueueInv, QueueTypes
  <2>2. CASE listeners' = [listeners EXCEPT ![Head(freed)] = new]
    <3>1. DOMAIN listeners = 1 .. Len(listeners)
      BY DEF QueueInv, QueueTypes
    <3>2. listeners' = [u \in 1 .. Len(listeners) |->
                           IF u = Head(freed) THEN new ELSE listeners[u]]
      BY <2>2, <3>1
    <3> QED
      BY <1>1, <3>2 DEF QueueInv, QueueTypes
  <2> QED
    BY <2>1, <2>2 DEF DoAdd, Emplace
<1>3. QueueTypes'
  BY <1>1, <1>2 DEF DoAdd, ManagerStart, QueueInv, QueueTypes
<1>4. Queued' /\ Owned'
  BY DEF DoAdd, ManagerStart, QueueInv, Queued, Owned, Retired
<1>5. WaitMeansDelivered'
  <2>1. CASE owner = "none"
    BY <2>1 DEF DoAdd, QueueInv, Owned, WaitMeansDelivered
  <2>2. CASE owner = "started"
    BY <2>2 DEF DoAdd, QueueInv, WaitMeansDelivered
  <2> QED
    BY <2>1, <2>2 DEF DoAdd, ManagerStart, QueueInv, QueueTypes
<1> QED
  BY <1>3, <1>4, <1>5 DEF QueueInv

\* What is sent is the last event, and comes after whatever a waiter waited for.
LEMMA QueueSend ==
    ASSUME QueueInv, NEW only \in Ids \cup {All}, Send(only)
    PROVE  QueueInv'
<1> DEFINE item == [event |-> Len(log) + 1, only |-> only]
           target == IF only = All THEN All ELSE listeners[only].id
<1>1. item \in Item /\ target \in Ids \cup {All}
  <2>1. only # All => listeners[only] \in Listener
    BY DEF Send, Used, QueueInv, QueueTypes
  <2> QED
    BY <2>1 DEF Item, Listener, QueueInv, QueueTypes
<1>2. queue' = Append(queue, item) /\ log' = Append(log, target)
  BY DEF Send
<1>3. QueueTypes'
  <2>1. /\ queue' \in Seq(Item) /\ log' \in Seq(Ids \cup {All})
        /\ Len(log') = Len(log) + 1
    BY <1>1, <1>2 DEF QueueInv, QueueTypes
  <2>2. UNCHANGED <<owner, running, listeners, ids, waiter>>
    BY DEF Send, tableVars
  <2>3. waiter.from \in Nat /\ Len(log) \in Nat /\ waiter.from <= Len(log)
    BY DEF QueueInv, QueueTypes, WaiterStates
  <2>4. waiter'.from <= Len(log')
    BY <2>1, <2>2, <2>3
  <2> QED
    BY <2>1, <2>2, <2>4 DEF QueueInv, QueueTypes
<1>4. /\ Len(queue') = Len(queue) + 1 /\ Len(log') = Len(log) + 1
      /\ Len(queue) \in Nat /\ Len(log) \in Nat /\ Len(queue) <= Len(log)
      /\ \A i \in DOMAIN queue' :
            \/ i \in DOMAIN queue /\ queue'[i] = queue[i]
            \/ i = Len(queue) + 1 /\ queue'[i] = item
  BY <1>1, <1>2 DEF QueueInv, QueueTypes, Queued
<1>5. Queued'
  <2>1. \A i \in DOMAIN queue' : queue'[i].event = Len(log) - Len(queue) + i
    BY <1>4 DEF QueueInv, Queued, Retired
  <2> QED
    BY <1>4, <2>1 DEF Queued, Retired
<1>6. Owned'
  BY DEF Send, Running, QueueInv, Owned
<1>7. WaitMeansDelivered'
  <2>1. waiter.from \in Nat /\ waiter.from <= Len(log)
    BY DEF QueueInv, QueueTypes, WaiterStates
  <2>2. UNCHANGED <<waiter, owner>>
    BY DEF Send
  <2> QED
    BY <1>4, <2>1, <2>2 DEF QueueInv, WaitMeansDelivered
<1> QED
  BY <1>3, <1>5, <1>6, <1>7 DEF QueueInv

LEMMA QueuePop ==
    ASSUME QueueInv, Pop, queue # <<>>
    PROVE  QueueInv' /\ Retired' = Retired + 1
<1>1. queue' = Tail(queue) /\ UNCHANGED <<owner, running, listeners, ids, log>>
  BY DEF Pop, tableVars
<1>2. /\ Len(queue') = Len(queue) - 1
      /\ \A i \in DOMAIN queue' : i + 1 \in DOMAIN queue /\ queue'[i] = queue[i + 1]
  BY <1>1 DEF QueueInv, QueueTypes
<1>3. waiter' \in WaiterStates /\ waiter'.pc = waiter.pc /\ waiter'.from = waiter.from
  BY DEF Pop, QueueInv, QueueTypes, WaiterStates
<1>4. QueueTypes'
  BY <1>1, <1>3 DEF QueueInv, QueueTypes
<1>5. Queued' /\ Retired' = Retired + 1
  BY <1>1, <1>2 DEF QueueInv, QueueTypes, Queued, Retired
<1>6. Owned' /\ WaitMeansDelivered'
  BY <1>1, <1>2, <1>3 DEF QueueInv, QueueTypes, Owned, WaitMeansDelivered
<1> QED
  BY <1>4, <1>5, <1>6 DEF QueueInv

\* The thread is between MainWakes and Pop only with an event at the front.
HeadInHand == pc \in {"scan", "copy", "call"} => queue # <<>>

LEMMA HeadStaysInHand ==
    ASSUME QueueInv, HeadInHand, [ManagerNext]_managerVars PROVE HeadInHand'
<1> USE DEF HeadInHand
<1>1. CASE UNCHANGED managerVars
  BY <1>1 DEF managerVars, callbackVars
<1>2. CASE ManagerMain
  <2>1. CASE ManagerWakes
    BY <2>1 DEF ManagerWakes
  <2>2. CASE Pop
    BY <2>2 DEF Pop
  <2>3. CASE SkipListener \/ StoreForPoller \/ BeginCallback \/ CopyCallback \/ EndCallback
    BY <2>3 DEF SkipListener, StoreForPoller, BeginCallback, CopyCallback, EndCallback
  <2> QED
    BY <1>2, <2>1, <2>2, <2>3 DEF ManagerMain
<1>3. CASE \E only \in Ids \cup {All} : Send(only)
  <2>1. PICK only \in Ids \cup {All} : Send(only)
    BY <1>3
  <2>2. queue' # <<>>
    BY <2>1 DEF Send, QueueInv, QueueTypes
  <2> QED
    BY <2>2
<1>4. CASE (\E polled \in Added : DoAdd(polled)) \/ CreatePoller
  BY <1>4 DEF DoAdd, CreatePoller, ManagerStart
<1>5. CASE ManagerStop \/ Destroy \/ (\E kind \in Waits : WaitForQueue(kind))
           \/ (\E kind \in Polls : Poll(kind)) \/ WaitWakes \/ WaitTimesOut \/ PollTests
           \/ PollerTimesOut \/ CancelPoll \/ (\E uid \in Ids : Remove(uid)) \/ RemovePoller
  BY <1>5 DEF ManagerStop, Destroy, WaitForQueue, Poll, WaitWakes, WaitTimesOut, PollTests,
              PollerTimesOut, CancelPoll, Remove, RemovePoller, callbackVars
<1> QED
  BY <1>1, <1>2, <1>3, <1>4, <1>5 DEF ManagerNext

\* A wait that begins or ends well does so with nothing left in the queue.
LEMMA QueueWait ==
    ASSUME QueueInv,
           (\E kind \in Waits : WaitForQueue(kind)) \/ WaitWakes \/ WaitTimesOut
    PROVE  QueueInv'
<1>1. UNCHANGED <<owner, running, listeners, ids, queue, log>>
  BY DEF WaitForQueue, WaitWakes, WaitTimesOut, tableVars
<1>2. /\ waiter' \in WaiterStates /\ waiter'.from <= Len(log)
      /\ waiter'.pc = "true" => queue = <<>> \/ owner # "started"
  <2>1. Len(log) \in Nat /\ waiter \in WaiterStates /\ waiter.from <= Len(log)
    BY DEF QueueInv, QueueTypes
  <2>2. CASE \E kind \in Waits : WaitForQueue(kind)
    <3>1. PICK kind \in Waits : WaitForQueue(kind)
      BY <2>2
    <3>2. kind \in {"timed", "forever"}
      BY ManagerAssumption
    <3>3. CASE waiter' = [waiter EXCEPT !.pc = "true", !.from = Len(log)]
      <4>1. waiter' \in WaiterStates /\ waiter'.from = Len(log)
        BY <2>1, <3>3 DEF WaiterStates
      <4>2. queue = <<>> \/ owner # "started"
        BY <3>1, <3>3 DEF WaitForQueue, WaiterStates
      <4> QED
        BY <2>1, <4>1, <4>2
    <3>4. CASE waiter' = [pc |-> "waiting", kind |-> kind, from |-> Len(log), woken |-> FALSE]
      BY <2>1, <3>2, <3>4 DEF WaiterStates
    <3> QED
      BY <3>1, <3>3, <3>4 DEF WaitForQueue
  <2>3. CASE WaitWakes \/ WaitTimesOut
    <3>1. CASE WaitReturns("true") /\ (queue = <<>> \/ ~ running)
      <4>1. queue = <<>> \/ owner # "started"
        BY <3>1 DEF QueueInv, Owned
      <4> QED
        BY <2>1, <3>1, <4>1 DEF WaitReturns, WaiterStates
    <3>2. CASE WaitReturns("timed_out")
      BY <2>1, <3>2 DEF WaitReturns, WaiterStates
    <3>3. CASE waiter' = [waiter EXCEPT !.woken = FALSE] /\ waiter.pc = "waiting"
      BY <2>1, <3>3 DEF WaiterStates
    <3> QED
      BY <2>3, <3>1, <3>2, <3>3 DEF WaitWakes, WaitTimesOut
  <2> QED
    BY <2>2, <2>3
<1>3. QueueTypes'
  BY <1>1, <1>2 DEF QueueInv, QueueTypes
<1>4. Queued' /\ Owned'
  BY <1>1 DEF QueueInv, Queued, Owned, Retired
<1>5. WaitMeansDelivered'
  BY <1>1, <1>2 DEF WaitMeansDelivered
<1> QED
  BY <1>3, <1>4, <1>5 DEF QueueInv

LEMMA QueueStep ==
    ASSUME QueueInv, HeadInHand, [ManagerNext]_managerVars PROVE QueueInv'
<1>1. CASE UNCHANGED managerVars \/ Destroy \/ (\E kind \in Polls : Poll(kind)) \/ PollTests
           \/ PollerTimesOut \/ CancelPoll
  BY <1>1, QueueStutters DEF managerVars, tableVars, queueVars, Destroy, Poll, PollTests, PollerTimesOut,
                             CancelPoll
<1>2. CASE ManagerMain
  <2>1. CASE ManagerWakes \/ SkipListener \/ StoreForPoller \/ BeginCallback \/ CopyCallback
             \/ EndCallback
    BY <2>1, QueueStutters DEF ManagerWakes, SkipListener, StoreForPoller, BeginCallback,
                               CopyCallback, EndCallback, tableVars, queueVars
  <2>2. CASE Pop
    BY <2>2, QueuePop DEF HeadInHand, Pop
  <2> QED
    BY <1>2, <2>1, <2>2 DEF ManagerMain
<1>3. CASE (\E only \in Ids \cup {All} : Send(only)) \/ (\E polled \in Added : DoAdd(polled))
  BY <1>3, QueueSend, QueueAdd
<1>4. CASE ManagerStop \/ CreatePoller
  <2>1. UNCHANGED <<listeners, ids, queue, log, waiter>>
    BY <1>4 DEF ManagerStop, CreatePoller, tableVars
  <2> QED
    BY <1>4, <2>1, QueueOwnership DEF ManagerStop, CreatePoller
<1>5. CASE (\E uid \in Ids : Remove(uid)) \/ RemovePoller
  BY <1>5, QueueErase DEF Remove, RemovePoller
<1>6. CASE (\E kind \in Waits : WaitForQueue(kind)) \/ WaitWakes \/ WaitTimesOut
  BY <1>6, QueueWait
<1> QED
  BY <1>1, <1>2, <1>3, <1>4, <1>5, <1>6 DEF ManagerNext

LEMMA QueueInvariance ==
    ManagerSpec => [](QueueInv /\ HeadInHand)
<1>1. ManagerInit => QueueInv /\ HeadInHand
  BY QueueInitially DEF ManagerInit, HeadInHand
<1>2. QueueInv /\ HeadInHand /\ [ManagerNext]_managerVars => (QueueInv /\ HeadInHand)'
  BY QueueStep, HeadStaysInHand
<1> QED
  BY <1>1, <1>2, PTL DEF ManagerSpec

\* A WaitForQueue that returns true has been waiting for everything sent before it, also
\* where indexes are reused (CallbackManager.h:205-224).
THEOREM WaitMeansDeliveredHolds ==
    ManagerSpec => []WaitMeansDelivered
<1>1. QueueInv => WaitMeansDelivered
  BY DEF QueueInv
<1> QED
  BY <1>1, QueueInvariance, PTL
-----------------------------------------------------------------------------
(* The table of the listeners. *)

loopVars == <<pc, index, calling, listeners, ids, freed, since, queue, log, heard>>

LEMMA Bounds ==
    ASSUME QueueInv, Slots
    PROVE  /\ ids \in Nat /\ Len(listeners) = ids /\ DOMAIN listeners = 1 .. ids
           /\ 1 .. ids \subseteq Ids /\ MaxAdds \in Nat /\ ids <= MaxAdds
           /\ Len(queue) \in Nat /\ Len(log) \in Nat /\ Retired \in Nat
<1>1. MaxAdds \in Nat
  BY ManagerAssumption
<1>2. ids \in Nat /\ ids <= MaxAdds /\ 1 .. ids \subseteq Ids
  BY <1>1 DEF QueueInv, QueueTypes, Ids
<1>3. Len(listeners) = ids /\ DOMAIN listeners = 1 .. ids
  BY DEF QueueInv, QueueTypes, Slots
<1>4. Len(queue) \in Nat /\ Len(log) \in Nat /\ Len(queue) <= Len(log)
  BY DEF QueueInv, QueueTypes, Queued
<1> QED
  BY <1>1, <1>2, <1>3, <1>4 DEF Retired

\* A used index is that of the listener that was added there.
LEMMA UsedSlots ==
    ASSUME QueueInv, Slots, NEW u \in DOMAIN listeners
    PROVE  /\ listeners[u] \in Listener \cup {Empty}
           /\ Used(u) <=> listeners[u].id = u
           /\ Used(u) \/ listeners[u].id = 0
<1>1. listeners[u] \in Listener \cup {Empty} /\ u \in Nat \ {0}
  BY DEF QueueInv, QueueTypes
<1> QED
  BY <1>1 DEF Slots, Used, Empty

LEMMA SubscribedSlots ==
    QueueInv /\ Slots => Subscribed = {l \in Ids : Used(l)}
<1> SUFFICES ASSUME QueueInv, Slots PROVE Subscribed = {l \in Ids : Used(l)}
  OBVIOUS
<1>1. \A u \in DOMAIN listeners : (Used(u) <=> listeners[u].id = u)
                                  /\ (Used(u) \/ listeners[u].id = 0)
  BY UsedSlots
<1>2. \A l \in Ids : (\E u \in DOMAIN listeners : listeners[u].id = l) <=> Used(l)
  BY <1>1 DEF Used, Ids
<1> QED
  BY <1>2 DEF Subscribed

LEMMA SubscribedSlotsThen ==
    (QueueInv /\ Slots => Subscribed = {l \in Ids : Used(l)})'
<1>1. QueueInv /\ Slots => Subscribed = {l \in Ids : Used(l)}
  BY SubscribedSlots
<1> QED
  BY <1>1, PTL

\* The indexes to reuse are those that nobody is at: too few for one to be reused.
LEMMA NoneReused ==
    ASSUME NoReuse, QueueInv, LoopInv, NEW listener, Emplace(listener), ids < MaxAdds
    PROVE  listeners' = Append(listeners, listener) /\ freed' = freed
<1> DEFINE unused == {u \in DOMAIN listeners : ~ Used(u)}
<1>1. ids \in Nat /\ DOMAIN listeners = 1 .. ids /\ MaxAdds \in Nat
  BY Bounds DEF LoopInv
<1>2. IsFiniteSet(1 .. ids) /\ Cardinality(1 .. ids) = ids
  BY <1>1, FS_Interval
<1>3. Cardinality(unused) <= ids
  BY <1>1, <1>2, FS_Subset
<1>4. Len(freed) <= ids
  BY <1>3 DEF LoopInv, Slots
<1>5. Len(freed) < ReuseThreshold
  BY <1>1, <1>4, ManagerAssumption DEF NoReuse, LoopInv, LoopTypes
<1> QED
  BY <1>5 DEF Emplace

LEMMA ErasedSlots ==
    ASSUME QueueInv, LoopInv, NEW uids, Erase(uids), ids' = ids
    PROVE  Slots' /\ freed' \in Seq(Ids)
<1> DEFINE unused == {u \in DOMAIN listeners : ~ Used(u)}
           gone == {u \in uids : Used(u)}
<1>1. /\ ids \in Nat /\ DOMAIN listeners = 1 .. ids /\ Len(listeners) = ids
      /\ 1 .. ids \subseteq Ids
  BY Bounds DEF LoopInv
<1>2. /\ listeners' \in Seq(Listener \cup {Empty}) /\ Len(listeners') = ids
      /\ \A u \in DOMAIN listeners : listeners'[u] = IF u \in uids THEN Empty ELSE listeners[u]
  BY <1>1, ErasedTypes DEF QueueInv, QueueTypes
<1>3. DOMAIN listeners' = 1 .. ids
  BY <1>1, <1>2
<1>4. {u \in DOMAIN listeners : ~ Used(u)}' = unused \cup gone
  BY <1>1, <1>2, <1>3 DEF Used
<1>5. IsFiniteSet(unused) /\ IsFiniteSet(gone) /\ unused \cap gone = {}
  <2>1. IsFiniteSet(1 .. ids) /\ unused \subseteq 1 .. ids /\ gone \subseteq 1 .. ids
    BY <1>1, FS_Interval DEF Used
  <2> QED
    BY <2>1, FS_Subset
<1>6. Cardinality(unused \cup gone) = Cardinality(unused) + Cardinality(gone)
  <2>1. Cardinality(unused \cup gone)
           = Cardinality(unused) + Cardinality(gone) - Cardinality(unused \cap gone)
    BY <1>5, FS_Union
  <2>2. /\ Cardinality(unused \cap gone) = 0
        /\ Cardinality(unused) \in Nat /\ Cardinality(gone) \in Nat
    BY <1>5, FS_EmptySet, FS_CardinalityType
  <2> QED
    BY <2>1, <2>2
<1>7. PICK order \in Ascending(gone) : freed' = freed \o order
  BY DEF Erase
<1>8. order \in Seq(Ids) /\ Len(order) = Cardinality(gone)
  <2>1. gone \subseteq Ids /\ Cardinality(gone) \in Nat
    BY <1>1, <1>5, FS_CardinalityType DEF Used
  <2>2. order \in [1 .. Cardinality(gone) -> gone]
    BY DEF Ascending
  <2>3. \A n \in Nat : \A f \in [1 .. n -> gone] : f \in Seq(Ids) /\ Len(f) = n
    BY <2>1
  <2> QED
    BY <2>1, <2>2, <2>3
<1>9. freed' \in Seq(Ids) /\ Len(freed') = Len(freed) + Cardinality(gone)
  <2>1. \A s, t \in Seq(Ids) : s \o t \in Seq(Ids) /\ Len(s \o t) = Len(s) + Len(t)
    OBVIOUS
  <2> QED
    BY <1>7, <1>8, <2>1 DEF LoopInv, LoopTypes
<1>10. Len(freed') = Cardinality({u \in DOMAIN listeners : ~ Used(u)}')
  BY <1>4, <1>6, <1>9 DEF LoopInv, Slots
<1>11. \A u \in DOMAIN listeners' : listeners'[u] = Empty \/ listeners'[u].id = u
  BY <1>1, <1>2, <1>3 DEF LoopInv, Slots
<1> QED
  BY <1>2, <1>9, <1>10, <1>11 DEF Slots

LEMMA AddedSlots ==
    ASSUME NoReuse, QueueInv, LoopInv, NEW polled \in Added, DoAdd(polled)
    PROVE  /\ Slots' /\ freed' = freed
           /\ \A u \in DOMAIN listeners : u \in DOMAIN listeners' /\ listeners'[u] = listeners[u]
<1> DEFINE new == [id |-> ids + 1, polled |-> polled]
<1>1. /\ ids \in Nat /\ DOMAIN listeners = 1 .. ids /\ Len(listeners) = ids
      /\ listeners \in Seq(Listener \cup {Empty})
  BY Bounds DEF LoopInv, QueueInv, QueueTypes
<1>2. listeners' = Append(listeners, new) /\ freed' = freed
  <2>1. Emplace(new) /\ ids < MaxAdds
    BY DEF DoAdd
  <2> QED
    BY <2>1, NoneReused
<1>3. ids' = ids + 1
  BY DEF DoAdd
<1>4. /\ Len(listeners') = ids + 1 /\ DOMAIN listeners' = 1 .. ids + 1
      /\ listeners'[ids + 1] = new
      /\ \A u \in 1 .. ids : listeners'[u] = listeners[u]
  BY <1>1, <1>2
<1>5. new # Empty
  BY <1>1 DEF Empty
<1>6. {u \in DOMAIN listeners : ~ Used(u)}' = {u \in DOMAIN listeners : ~ Used(u)}
  BY <1>1, <1>4, <1>5 DEF Used
<1>7. \A u \in DOMAIN listeners' : listeners'[u] = Empty \/ listeners'[u].id = u
  <2>1. \A u \in 1 .. ids : listeners'[u] = Empty \/ listeners'[u].id = u
    BY <1>1, <1>4 DEF LoopInv, Slots
  <2>2. listeners'[ids + 1].id = ids + 1
    BY <1>4
  <2> QED
    BY <1>1, <1>4, <2>1, <2>2
<1>8. Len(freed') = Cardinality({u \in DOMAIN listeners : ~ Used(u)}')
  BY <1>2, <1>6 DEF LoopInv, Slots
<1>9. \A u \in DOMAIN listeners : u \in DOMAIN listeners' /\ listeners'[u] = listeners[u]
  BY <1>1, <1>4
<1>10. Len(listeners') = ids'
  BY <1>3, <1>4
<1> QED
  BY <1>2, <1>7, <1>8, <1>9, <1>10 DEF Slots
-----------------------------------------------------------------------------
(* The loop through the steps. *)

LEMMA LoopInitially ==
    ASSUME ManagerInit PROVE LoopInv
<1>1. LoopTypes
  <2>1. freed \in Seq(Ids) /\ since \in [Ids -> Nat]
    BY DEF ManagerInit
  <2>2. heard \in [Ids -> Seq(Nat)]
    BY DEF ManagerInit
  <2> QED
    BY <2>1, <2>2 DEF ManagerInit, LoopTypes
<1>2. Slots
  <2>1. {u \in DOMAIN listeners : ~ Used(u)} = {}
    BY DEF ManagerInit
  <2> QED
    BY <2>1, FS_EmptySet DEF ManagerInit, Slots
<1>3. Targeted /\ Looping /\ NotAhead /\ NotBehind
  BY DEF ManagerInit, Targeted, Looping, NotAhead, NotBehind, Busy, Passed
<1> QED
  BY <1>1, <1>2, <1>3 DEF LoopInv

LEMMA LoopStutters ==
    ASSUME QueueInv, LoopInv, UNCHANGED loopVars, owner' = "none" => owner = "none"
    PROVE  LoopInv'
<1> USE DEF loopVars
<1>1. LoopTypes' /\ Targeted'
  BY DEF LoopInv, LoopTypes, Targeted
<1>2. Slots'
  BY DEF LoopInv, Slots, Used
<1>3. Looping'
  BY DEF LoopInv, Looping, Busy, First, Past
<1>4. NotAhead' /\ NotBehind'
  BY DEF LoopInv, NotAhead, NotBehind, Passed, Busy, Used, Retired
<1> QED
  BY <1>1, <1>2, <1>3, <1>4 DEF LoopInv

\* The first notification, as long as it is in hand.
LEMMA HandType ==
    ASSUME QueueInv, LoopInv, queue # <<>>
    PROVE  /\ Head(queue) \in Item /\ Head(queue).only \in 0 .. ids
           /\ Head(queue).event = Retired + 1 /\ Retired + 1 \in 1 .. Len(log)
           /\ log[Retired + 1] = Head(queue).only
           /\ First(Head(queue)) \in Nat \ {0}
<1>1. Len(queue) \in Nat /\ Len(log) \in Nat /\ Retired \in Nat /\ ids \in Nat
  BY Bounds DEF LoopInv
<1>2. 1 \in DOMAIN queue /\ Head(queue) = queue[1] /\ Head(queue) \in Item
  BY <1>1 DEF QueueInv, QueueTypes
<1>3. queue[1].event = Retired + 1 /\ Retired + 1 \in 1 .. Len(log)
  BY <1>1, <1>2 DEF QueueInv, QueueTypes, Queued, Retired
<1>4. queue[1].only = log[Retired + 1] /\ queue[1].only <= ids
  BY <1>2, <1>3 DEF LoopInv, Targeted
<1>5. queue[1].only \in Nat
  BY <1>2 DEF Item, Ids, All
<1> QED
  BY <1>1, <1>2, <1>3, <1>4, <1>5 DEF First, All

LEMMA LoopErase ==
    ASSUME QueueInv, LoopInv, NEW uids, Erase(uids),
           UNCHANGED <<owner, pc, index, calling, ids, since, queue, log, heard>>
    PROVE  LoopInv'
<1>1. Slots' /\ freed' \in Seq(Ids)
  BY ErasedSlots
<1>2. /\ Len(listeners') = Len(listeners) /\ DOMAIN listeners' = DOMAIN listeners
      /\ \A u \in DOMAIN listeners : listeners'[u] = IF u \in uids THEN Empty ELSE listeners[u]
  BY ErasedTypes DEF QueueInv, QueueTypes, Erase
<1>3. LoopTypes' /\ Targeted'
  BY <1>1 DEF LoopInv, LoopTypes, Targeted
<1>4. Looping'
  BY <1>2 DEF LoopInv, Looping, Busy, First, Past
<1>5. \A l : Used(l)' => Used(l)
  BY <1>2 DEF Used
<1>6. NotAhead' /\ NotBehind'
  BY <1>5 DEF LoopInv, NotAhead, NotBehind, Passed, Busy, Retired
<1> QED
  BY <1>1, <1>3, <1>4, <1>6 DEF LoopInv

\* A listener that is added while an event is in hand is not due it.
LEMMA LoopAdd ==
    ASSUME NoReuse, QueueInv, LoopInv, NEW polled \in Added, DoAdd(polled)
    PROVE  LoopInv'
<1>1. /\ Slots' /\ freed' = freed
      /\ \A u \in DOMAIN listeners : u \in DOMAIN listeners' /\ listeners'[u] = listeners[u]
  BY AddedSlots
<1>2. /\ ids \in Nat /\ DOMAIN listeners = 1 .. ids /\ Len(listeners) = ids
      /\ Len(log) \in Nat /\ Len(queue) \in Nat /\ ids < MaxAdds /\ MaxAdds \in Nat
  BY Bounds DEF LoopInv, DoAdd
<1>3. /\ UNCHANGED <<index, calling, queue, log, heard>> /\ ids' = ids + 1
      /\ since' = [since EXCEPT ![ids + 1] = Len(log)]
      /\ owner' # "none" /\ pc' = (IF owner = "none" THEN "wait" ELSE pc)
  BY DEF DoAdd, ManagerStart
<1>4. Len(listeners') = ids + 1 /\ DOMAIN listeners' = 1 .. ids + 1
  <2>1. Len(listeners') = ids + 1 /\ listeners' \in Seq(Listener \cup {Empty})
    BY <1>1, <1>3, QueueAdd DEF Slots, QueueInv, QueueTypes
  <2> QED
    BY <2>1
<1>5. Busy' = Busy /\ \A l : Passed(l)' = Passed(l)
  BY <1>3 DEF LoopInv, Looping, Busy, Passed
<1>6. LoopTypes' /\ Targeted'
  <2>1. ids + 1 \in Ids /\ since' \in [Ids -> Nat]
    BY <1>2, <1>3 DEF LoopInv, LoopTypes, Ids
  <2>2. LoopTypes'
    BY <1>1, <1>3, <2>1 DEF LoopInv, LoopTypes
  <2>3. Targeted'
    <3>1. \A i \in DOMAIN queue : queue[i].only \in Nat
      <4>1. \A i \in DOMAIN queue : queue[i] \in Item
        BY DEF QueueInv, QueueTypes
      <4>2. \A item \in Item : item.only \in Nat
        BY <1>2 DEF Item, Ids, All
      <4> QED
        BY <4>1, <4>2
    <3> QED
      BY <1>2, <1>3, <3>1 DEF LoopInv, Targeted
  <2> QED
    BY <2>2, <2>3
<1>7. Looping'
  <2>1. Past(Head(queue))' => Past(Head(queue))
    <3>1. index \in Nat
      BY DEF LoopInv, LoopTypes
    <3> QED
      BY <1>2, <1>3, <1>4, <3>1 DEF Past
  <2> QED
    BY <1>3, <1>5, <2>1 DEF LoopInv, Looping, First, Busy
<1>8. NotAhead'
  BY <1>2, <1>3, <1>5 DEF LoopInv, NotAhead, Retired, Ids
<1>9. NotBehind'
  <2> SUFFICES ASSUME NEW l \in Ids, Passed(l)', Used(l)', since'[l] <= Retired',
                      Head(queue').only \in {All, l}
               PROVE  heard'[l] # <<>> /\ heard'[l][Len(heard'[l])] = Retired' + 1
    BY DEF NotBehind
  <2>1. queue # <<>> /\ Len(queue) # 0
    BY <1>5 DEF Passed, LoopInv, Looping, QueueInv, QueueTypes
  <2>2. l # ids + 1
    BY <1>2, <1>3, <2>1 DEF LoopInv, LoopTypes, Retired
  <2>3. Used(l) /\ since'[l] = since[l]
    BY <1>1, <1>2, <1>3, <1>4, <2>2 DEF Used, LoopInv, LoopTypes
  <2> QED
    BY <1>3, <1>5, <2>3 DEF LoopInv, NotBehind, Retired
<1> QED
  BY <1>1, <1>6, <1>7, <1>8, <1>9 DEF LoopInv

LEMMA LoopCreatePoller ==
    ASSUME QueueInv, LoopInv, CreatePoller PROVE LoopInv'
<1>1. /\ UNCHANGED <<index, calling, listeners, ids, freed, since, queue, log, heard>>
      /\ owner' # "none" /\ pc' = (IF owner = "none" THEN "wait" ELSE pc)
  BY DEF CreatePoller, ManagerStart, tableVars
<1>2. Busy' = Busy /\ \A l : Passed(l)' = Passed(l)
  BY <1>1 DEF LoopInv, Looping, Busy, Passed
<1>3. LoopTypes' /\ Targeted' /\ Slots'
  BY <1>1 DEF LoopInv, LoopTypes, Targeted, Slots, Used
<1>4. Looping'
  BY <1>1, <1>2 DEF LoopInv, Looping, Busy, First, Past
<1>5. NotAhead' /\ NotBehind'
  BY <1>1, <1>2 DEF LoopInv, NotAhead, NotBehind, Used, Retired
<1> QED
  BY <1>3, <1>4, <1>5 DEF LoopInv

\* What is sent to one index is for the listener that is there.
LEMMA LoopSend ==
    ASSUME QueueInv, LoopInv, NEW only \in Ids \cup {All}, Send(only)
    PROVE  LoopInv'
<1> DEFINE item == [event |-> Len(log) + 1, only |-> only]
<1>1. /\ ids \in Nat /\ Len(queue) \in Nat /\ Len(log) \in Nat /\ Retired \in Nat
      /\ DOMAIN listeners = 1 .. ids
  BY Bounds DEF LoopInv
<1>2. only <= ids /\ log' = Append(log, only)
  <2>1. CASE only = All
    BY <1>1, <2>1 DEF Send, All
  <2>2. CASE only # All
    <3>1. Used(only) /\ only \in DOMAIN listeners
      BY <2>2 DEF Send, Used
    <3>2. listeners[only].id = only
      BY <3>1, UsedSlots DEF LoopInv
    <3> QED
      BY <1>1, <2>2, <3>1, <3>2 DEF Send
  <2> QED
    BY <2>1, <2>2
<1>3. /\ UNCHANGED <<owner, pc, index, calling, listeners, ids, freed, since, heard>>
      /\ queue' = Append(queue, item)
  BY DEF Send, callbackVars, tableVars
<1>4. /\ Retired' = Retired
      /\ queue # <<>> => Head(queue') = Head(queue)
      /\ \A i \in 1 .. Len(log) : log'[i] = log[i]
      /\ log'[Len(log) + 1] = only
  BY <1>1, <1>2, <1>3 DEF QueueInv, QueueTypes, Retired
<1>5. Targeted'
  <2> SUFFICES ASSUME NEW i \in DOMAIN queue'
               PROVE  queue'[i].only = log'[queue'[i].event] /\ queue'[i].only <= ids'
    BY DEF Targeted
  <2>1. CASE i = Len(queue) + 1
    <3>1. queue'[i] = item
      BY <1>3, <2>1 DEF QueueInv, QueueTypes
    <3> QED
      BY <1>2, <1>3, <1>4, <3>1
  <2>2. CASE i \in DOMAIN queue
    <3>1. queue'[i] = queue[i] /\ queue[i].event = Retired + i /\ i \in 1 .. Len(queue)
      BY <1>3, <2>2 DEF QueueInv, QueueTypes, Queued
    <3>2. queue[i].event \in 1 .. Len(log)
      BY <1>1, <3>1 DEF Retired, QueueInv, Queued
    <3> QED
      BY <1>3, <1>4, <2>2, <3>1, <3>2 DEF LoopInv, Targeted
  <2>3. i \in DOMAIN queue \/ i = Len(queue) + 1
    BY <1>3 DEF QueueInv, QueueTypes
  <2> QED
    BY <2>1, <2>2, <2>3
<1>6. LoopTypes' /\ Slots'
  BY <1>3 DEF LoopInv, LoopTypes, Slots, Used
<1>7. Looping'
  <2>1. queue' # <<>>
    BY <1>3 DEF QueueInv, QueueTypes
  <2> QED
    BY <1>3, <1>4, <2>1 DEF LoopInv, Looping, Busy, First, Past
<1>8. NotAhead' /\ NotBehind'
  BY <1>3, <1>4 DEF LoopInv, Looping, NotAhead, NotBehind, Passed, Busy, Used
<1> QED
  BY <1>5, <1>6, <1>7, <1>8 DEF LoopInv

\* The loop begins at the event that is now first: it has passed nobody who is due it.
LEMMA BeginsBehindNobody ==
    ASSUME QueueInv, LoopInv, queue # <<>>,
           NEW l \in Ids, l < First(Head(queue))
    PROVE  Head(queue).only \notin {All, l}
  BY HandType DEF First, All, Ids

LEMMA LoopMainWakes ==
    ASSUME QueueInv, LoopInv, ManagerWakes PROVE LoopInv'
<1>1. /\ pc = "wait"
      /\ queue # <<>> \/ ~ running
      /\ UNCHANGED <<owner, calling, listeners, ids, freed, since, queue, log, heard>>
  BY DEF ManagerWakes, tableVars
<1>2. LoopTypes' /\ Targeted' /\ Slots'
  <2>1. pc' \in {"scan", "exited"} /\ index' \in Nat
    <3>1. CASE running
      BY <1>1, <3>1, HandType DEF ManagerWakes
    <3>2. CASE ~ running
      BY <3>2 DEF ManagerWakes
    <3> QED
      BY <3>1, <3>2
  <2> QED
    BY <1>1, <2>1 DEF LoopInv, LoopTypes, Targeted, Slots, Used
<1>3. CASE ~ running
  <2>1. pc' = "exited"
    BY <1>3 DEF ManagerWakes
  <2>2. Looping'
    BY <1>1, <2>1 DEF LoopInv, Looping, Busy
  <2>3. NotAhead' /\ NotBehind'
    BY <1>1, <2>1 DEF LoopInv, NotAhead, NotBehind, Passed, Busy, Retired
  <2> QED
    BY <1>2, <2>2, <2>3 DEF LoopInv
<1>4. CASE running
  <2>1. pc' = "scan" /\ index' = First(Head(queue)) /\ queue # <<>>
    BY <1>1, <1>4 DEF ManagerWakes
  <2>2. Looping'
    BY <1>1, <2>1, HandType DEF LoopInv, Looping, Busy, First
  <2>3. NotAhead'
    BY <1>1, <2>1, Bounds DEF LoopInv, LoopTypes, NotAhead, Passed, Busy, Retired
  <2>4. NotBehind'
    BY <1>1, <2>1, BeginsBehindNobody DEF NotBehind, Passed
  <2> QED
    BY <1>2, <2>2, <2>3, <2>4 DEF LoopInv
<1> QED
  BY <1>3, <1>4

LEMMA LoopSkip ==
    ASSUME QueueInv, LoopInv, SkipListener PROVE LoopInv'
<1>1. /\ pc = "scan" /\ ~ Used(index) /\ index' = index + 1 /\ index \in Nat
      /\ UNCHANGED <<owner, pc, calling, listeners, ids, freed, since, queue, log, heard>>
  BY DEF SkipListener, tableVars, LoopInv, LoopTypes
<1>2. LoopTypes' /\ Targeted' /\ Slots'
  BY <1>1 DEF LoopInv, LoopTypes, Targeted, Slots, Used
<1>3. Looping'
  <2>1. queue # <<>> /\ index >= First(Head(queue))
    BY <1>1 DEF LoopInv, Looping, Busy
  <2> QED
    BY <1>1, <2>1, HandType DEF LoopInv, Looping, Busy, First
<1>4. \A l \in Ids : Passed(l)' <=> Passed(l) \/ l = index
  BY <1>1 DEF Passed, Busy, Ids
<1>5. NotAhead'
  <2>1. Retired \in Nat
    BY Bounds DEF LoopInv
  <2> QED
    BY <1>1, <1>4, <2>1 DEF LoopInv, LoopTypes, NotAhead, Retired
<1>6. NotBehind'
  BY <1>1, <1>4 DEF LoopInv, NotBehind, Used, Retired
<1> QED
  BY <1>2, <1>3, <1>5, <1>6 DEF LoopInv

LEMMA HeardOnce ==
    ASSUME heard \in [Ids -> Seq(Nat)], NEW l \in Ids, NEW event \in Nat,
           heard' = [heard EXCEPT ![l] = Append(@, event)]
    PROVE  /\ heard' \in [Ids -> Seq(Nat)]
           /\ heard'[l] # <<>> /\ heard'[l][Len(heard'[l])] = event
           /\ \A i \in DOMAIN heard'[l] :
                 heard'[l][i] = event \/ (i \in DOMAIN heard[l] /\ heard'[l][i] = heard[l][i])
           /\ \A k \in Ids \ {l} : heard'[k] = heard[k]
<1>1. heard[l] \in Seq(Nat) /\ heard'[l] = Append(heard[l], event)
  OBVIOUS
<1>2. /\ Append(heard[l], event) \in Seq(Nat)
      /\ Len(Append(heard[l], event)) = Len(heard[l]) + 1
      /\ Append(heard[l], event)[Len(heard[l]) + 1] = event
      /\ \A i \in 1 .. Len(heard[l]) : Append(heard[l], event)[i] = heard[l][i]
      /\ DOMAIN Append(heard[l], event) = 1 .. Len(heard[l]) + 1
      /\ DOMAIN heard[l] = 1 .. Len(heard[l]) /\ Len(heard[l]) \in Nat
  BY <1>1
<1>3. heard' \in [Ids -> Seq(Nat)] /\ \A k \in Ids \ {l} : heard'[k] = heard[k]
  BY <1>2
<1>4. heard'[l] # <<>>
  <2>1. Len(heard'[l]) # 0
    BY <1>1, <1>2
  <2> QED
    BY <2>1
<1>5. \A i \in DOMAIN heard'[l] :
         heard'[l][i] = event \/ (i \in DOMAIN heard[l] /\ heard'[l][i] = heard[l][i])
  BY <1>1, <1>2
<1> QED
  BY <1>1, <1>2, <1>3, <1>4, <1>5

\* The listener the loop is at hears of the event in hand, and with that is passed.
LEMMA HearsTheEvent ==
    ASSUME QueueInv, LoopInv, Busy, NEW at \in Ids, at = index, at <= ids,
           UNCHANGED <<listeners, ids, since, queue, log>>, ~ Passed(at),
           heard' = [heard EXCEPT ![at] = Append(@, Head(queue).event)],
           \A l \in Ids : Passed(l)' <=> Passed(l) \/ l = at
    PROVE  heard' \in [Ids -> Seq(Nat)] /\ NotAhead' /\ NotBehind'
<1>1. Retired \in Nat /\ Retired' = Retired /\ ids \in Nat
  BY Bounds DEF LoopInv, Retired
<1>2. Head(queue).event = Retired + 1
  BY HandType DEF LoopInv, Looping
<1>3. PICK event \in Nat : event = Retired + 1
  BY <1>1
<1>4. /\ heard' \in [Ids -> Seq(Nat)]
      /\ heard'[at] # <<>> /\ heard'[at][Len(heard'[at])] = event
      /\ \A i \in DOMAIN heard'[at] :
            heard'[at][i] = event \/ (i \in DOMAIN heard[at] /\ heard'[at][i] = heard[at][i])
      /\ \A k \in Ids \ {at} : heard'[k] = heard[k]
  <2>1. heard \in [Ids -> Seq(Nat)] /\ heard' = [heard EXCEPT ![at] = Append(@, event)]
    BY <1>2, <1>3 DEF LoopInv, LoopTypes
  <2> QED
    BY <2>1, HeardOnce
<1>5. NotAhead'
  <2> SUFFICES ASSUME NEW l \in Ids
               PROVE  /\ \A i \in DOMAIN heard'[l] :
                            heard'[l][i] <= Retired' + (IF Passed(l)' THEN 1 ELSE 0)
                      /\ l > ids' => heard'[l] = <<>>
    BY DEF NotAhead
  <2>1. CASE l = at
    <3>1. \A i \in DOMAIN heard[at] : heard[at][i] <= Retired
      BY <1>1 DEF LoopInv, LoopTypes, NotAhead
    <3>2. heard[at] \in Seq(Nat)
      BY DEF LoopInv, LoopTypes
    <3>3. \A i \in DOMAIN heard'[at] : heard'[at][i] <= Retired + 1
      BY <1>1, <1>3, <1>4, <3>1, <3>2
    <3> QED
      BY <1>1, <2>1, <3>3 DEF Ids
  <2>2. CASE l # at
    BY <1>1, <1>4, <2>2 DEF LoopInv, NotAhead
  <2> QED
    BY <2>1, <2>2
<1>6. NotBehind'
  <2> SUFFICES ASSUME NEW l \in Ids, Passed(l)', Used(l)', since'[l] <= Retired',
                      Head(queue').only \in {All, l}
               PROVE  heard'[l] # <<>> /\ heard'[l][Len(heard'[l])] = Retired' + 1
    BY DEF NotBehind
  <2>1. CASE l = at
    BY <1>1, <1>3, <1>4, <2>1
  <2>2. CASE l # at
    BY <1>1, <1>4, <2>2 DEF LoopInv, NotBehind, Used
  <2> QED
    BY <2>1, <2>2
<1> QED
  BY <1>4, <1>5, <1>6

LEMMA UsedIndex ==
    ASSUME QueueInv, LoopInv, Used(index)
    PROVE  index \in Ids /\ index \in 1 .. ids /\ listeners[index].id = index
  BY Bounds, UsedSlots DEF LoopInv, Used

LEMMA LoopStore ==
    ASSUME QueueInv, LoopInv, StoreForPoller PROVE LoopInv'
<1>1. /\ pc = "scan" /\ Used(index) /\ index' = index + 1 /\ index \in Nat
      /\ UNCHANGED <<owner, pc, calling, listeners, ids, freed, since, queue, log>>
      /\ heard' = [heard EXCEPT ![listeners[index].id] = Append(@, Head(queue).event)]
  BY DEF StoreForPoller, HearAt, tableVars, LoopInv, LoopTypes
<1>2. index \in Ids /\ index \in 1 .. ids /\ listeners[index].id = index
  BY <1>1, UsedIndex
<1>3. \A l \in Ids : Passed(l)' <=> Passed(l) \/ l = index
  BY <1>1 DEF Passed, Busy, Ids
<1>4. Busy /\ ~ Passed(index) /\ index <= ids
  BY <1>1, <1>2 DEF Passed, Busy
<1>5. heard' \in [Ids -> Seq(Nat)] /\ NotAhead' /\ NotBehind'
  BY <1>1, <1>2, <1>3, <1>4, HearsTheEvent
<1>6. LoopTypes' /\ Targeted' /\ Slots'
  BY <1>1, <1>5 DEF LoopInv, LoopTypes, Targeted, Slots, Used
<1>7. Looping'
  <2>1. queue # <<>> /\ index >= First(Head(queue))
    BY <1>1 DEF LoopInv, Looping, Busy
  <2> QED
    BY <1>1, <2>1, HandType DEF LoopInv, Looping, Busy, First
<1> QED
  BY <1>5, <1>6, <1>7 DEF LoopInv

LEMMA LoopBegin ==
    ASSUME QueueInv, LoopInv, BeginCallback PROVE LoopInv'
<1>1. /\ pc = "scan" /\ Used(index) /\ pc' = "copy" /\ calling' = listeners[index].id
      /\ ~ Past(Head(queue))
      /\ UNCHANGED <<owner, index, listeners, ids, freed, since, queue, log, heard>>
  BY DEF BeginCallback, tableVars
<1>2. index \in Ids /\ index \in 1 .. ids /\ listeners[index].id = index
  BY <1>1, UsedIndex
<1>3. LoopTypes' /\ Targeted' /\ Slots'
  BY <1>1, <1>2 DEF LoopInv, LoopTypes, Targeted, Slots, Used
<1>4. Looping'
  <2>1. index # All
    BY <1>2 DEF Ids, All
  <2> QED
    BY <1>1, <1>2, <2>1 DEF LoopInv, Looping, Busy, First, Past
<1>5. NotAhead' /\ NotBehind'
  BY <1>1 DEF LoopInv, NotAhead, NotBehind, Passed, Busy, Used, Retired
<1> QED
  BY <1>3, <1>4, <1>5 DEF LoopInv

\* The loop's bounds: a listener that it is at has been added.
LEMMA AtAdded ==
    ASSUME QueueInv, LoopInv, queue # <<>>, ~ Past(Head(queue))
    PROVE  index <= ids
  BY Bounds, HandType DEF Past, LoopInv, LoopTypes

LEMMA LoopCopy ==
    ASSUME QueueInv, LoopInv, CopyCallback PROVE LoopInv'
<1>1. /\ pc = "copy" /\ UNCHANGED <<owner, index, listeners, ids, freed, since, queue, log>>
  BY DEF CopyCallback, tableVars
<1>2. /\ calling = index /\ index \in Ids /\ index <= ids /\ Busy
      /\ queue # <<>> /\ ~ Past(Head(queue)) /\ index >= First(Head(queue))
  <2>1. /\ calling = index /\ calling # All /\ queue # <<>> /\ ~ Past(Head(queue)) /\ Busy
        /\ index >= First(Head(queue))
    BY <1>1 DEF LoopInv, Looping, Busy
  <2> QED
    BY <2>1, AtAdded DEF LoopInv, LoopTypes
<1>3. CASE pc' = "call" /\ HearAt(calling) /\ calling' = All
  <2>1. heard' = [heard EXCEPT ![index] = Append(@, Head(queue).event)]
    BY <1>2, <1>3 DEF HearAt
  <2>2. ~ Passed(index) /\ \A l \in Ids : Passed(l)' <=> Passed(l) \/ l = index
    BY <1>1, <1>2, <1>3 DEF Passed, Busy, Ids
  <2>3. heard' \in [Ids -> Seq(Nat)] /\ NotAhead' /\ NotBehind'
    BY <1>1, <1>2, <2>1, <2>2, HearsTheEvent
  <2>4. LoopTypes' /\ Targeted' /\ Slots'
    BY <1>1, <1>3, <2>3 DEF LoopInv, LoopTypes, Targeted, Slots, Used
  <2>5. Looping'
    BY <1>1, <1>2, <1>3 DEF LoopInv, Looping, Busy, First, Past
  <2> QED
    BY <2>3, <2>4, <2>5 DEF LoopInv
<1>4. CASE pc' = "crashed" /\ UNCHANGED <<calling, heard>>
  <2>1. LoopTypes' /\ Targeted' /\ Slots'
    BY <1>1, <1>4 DEF LoopInv, LoopTypes, Targeted, Slots, Used
  <2>2. Looping'
    BY <1>1, <1>2, <1>4 DEF LoopInv, Looping, Busy, First, Past
  <2>3. NotAhead' /\ NotBehind'
    BY <1>1, <1>4 DEF LoopInv, NotAhead, NotBehind, Passed, Busy, Used, Retired
  <2> QED
    BY <2>1, <2>2, <2>3 DEF LoopInv
<1> QED
  BY <1>3, <1>4 DEF CopyCallback

LEMMA LoopEnd ==
    ASSUME QueueInv, LoopInv, EndCallback PROVE LoopInv'
<1>1. /\ pc = "call" /\ pc' = "scan" /\ index' = index + 1 /\ index \in Nat
      /\ UNCHANGED <<owner, calling, listeners, ids, freed, since, queue, log, heard>>
  BY DEF EndCallback, tableVars, LoopInv, LoopTypes
<1>2. LoopTypes' /\ Targeted' /\ Slots'
  BY <1>1 DEF LoopInv, LoopTypes, Targeted, Slots, Used
<1>3. Looping'
  <2>1. queue # <<>> /\ index >= First(Head(queue))
    BY <1>1 DEF LoopInv, Looping, Busy
  <2> QED
    BY <1>1, <2>1, HandType DEF LoopInv, Looping, Busy, First
<1>4. \A l \in Ids : Passed(l)' <=> Passed(l)
  BY <1>1 DEF Passed, Busy, Ids
<1>5. NotAhead' /\ NotBehind'
  BY <1>1, <1>4 DEF LoopInv, NotAhead, NotBehind, Used, Retired
<1> QED
  BY <1>2, <1>3, <1>5 DEF LoopInv

\* A popped event has been heard of by all who will hear of it.
LEMMA LoopPop ==
    ASSUME QueueInv, LoopInv, Pop PROVE LoopInv'
<1>1. /\ pc = "scan" /\ queue' = Tail(queue)
      /\ UNCHANGED <<owner, calling, listeners, ids, freed, since, log, heard>>
  BY DEF Pop, tableVars
<1>2. queue # <<>> /\ calling = All
  BY <1>1 DEF LoopInv, Looping, Busy
<1>3. QueueInv' /\ Retired' = Retired + 1
  BY <1>2, QueuePop
<1>4. Slots'
  BY <1>1 DEF LoopInv, Slots, Used
<1>5. Targeted'
  <2>1. \A i \in DOMAIN queue' : i + 1 \in DOMAIN queue /\ queue'[i] = queue[i + 1]
    BY <1>1, <1>2 DEF QueueInv, QueueTypes
  <2> QED
    BY <1>1, <2>1 DEF LoopInv, Targeted
<1>6. /\ index' \in Nat /\ pc' \in {"wait", "scan", "exited"}
      /\ pc' = "scan" => queue' # <<>> /\ index' = First(Head(queue'))
  <2>1. CASE queue' = <<>>
    BY <2>1 DEF Pop
  <2>2. CASE queue' # <<>>
    <3>1. Head(queue') \in Item
      BY <1>3, <2>2 DEF QueueInv, QueueTypes
    <3>2. First(Head(queue')) \in Nat
      BY <3>1 DEF First, Item, Ids, All
    <3> QED
      BY <2>2, <3>2 DEF Pop
  <2> QED
    BY <2>1, <2>2
<1>7. LoopTypes'
  BY <1>1, <1>6 DEF LoopInv, LoopTypes
<1>8. Looping'
  <2>1. pc' = "scan" => index' >= index'
    BY <1>6
  <2> QED
    BY <1>1, <1>2, <1>6, <2>1 DEF LoopInv, Looping, Busy, First
<1>9. NotAhead'
  <2>1. \A l \in Ids : \A i \in DOMAIN heard[l] :
           heard[l][i] \in Nat /\ heard[l][i] <= Retired + 1
    <3>1. Retired \in Nat
      BY Bounds DEF LoopInv
    <3> QED
      BY <3>1 DEF LoopInv, LoopTypes, NotAhead
  <2>2. Retired \in Nat
    BY Bounds DEF LoopInv
  <2>3. \A l \in Ids : l > ids => heard[l] = <<>>
    BY DEF LoopInv, NotAhead
  <2> QED
    BY <1>1, <1>3, <2>1, <2>2, <2>3 DEF NotAhead
<1>10. NotBehind'
  <2> SUFFICES ASSUME NEW l \in Ids, Passed(l)', Head(queue').only \in {All, l}
               PROVE  FALSE
    BY DEF NotBehind
  <2>1. pc' = "scan" /\ l < First(Head(queue')) /\ Head(queue') \in Item
    BY <1>3, <1>6 DEF Passed, Busy, QueueInv, QueueTypes
  <2> QED
    BY <2>1 DEF First, Item, Ids, All
<1> QED
  BY <1>4, <1>5, <1>7, <1>8, <1>9, <1>10 DEF LoopInv

LEMMA LoopStep ==
    ASSUME NoReuse, QueueInv, LoopInv, [ManagerNext]_managerVars PROVE LoopInv'
<1>1. CASE UNCHANGED managerVars \/ ManagerStop \/ Destroy \/ (\E kind \in Waits : WaitForQueue(kind))
           \/ WaitWakes \/ WaitTimesOut \/ (\E kind \in Polls : Poll(kind)) \/ PollTests
           \/ PollerTimesOut \/ CancelPoll
  <2>1. UNCHANGED loopVars /\ (owner' = "none" => owner = "none")
    BY <1>1 DEF managerVars, callbackVars, tableVars, loopVars, ManagerStop, Destroy, WaitForQueue, WaitWakes,
                WaitTimesOut, Poll, PollTests, PollerTimesOut, CancelPoll
  <2> QED
    BY <2>1, LoopStutters
<1>2. CASE ManagerMain
  BY <1>2, LoopMainWakes, LoopSkip, LoopStore, LoopBegin, LoopCopy, LoopEnd, LoopPop DEF ManagerMain
<1>3. CASE (\E only \in Ids \cup {All} : Send(only)) \/ (\E polled \in Added : DoAdd(polled))
           \/ CreatePoller
  BY <1>3, LoopSend, LoopAdd, LoopCreatePoller
<1>4. CASE \E uid \in Ids : Remove(uid)
  <2>1. PICK uid \in Ids : Remove(uid)
    BY <1>4
  <2>2. Erase({uid}) /\ UNCHANGED <<owner, pc, index, calling, ids, since, queue, log, heard>>
    BY <2>1 DEF Remove
  <2> QED
    BY <2>2, LoopErase
<1>5. CASE RemovePoller
  <2>1. /\ Erase({u \in DOMAIN listeners : listeners[u].polled})
        /\ UNCHANGED <<owner, pc, index, calling, ids, since, queue, log, heard>>
    BY <1>5 DEF RemovePoller
  <2> QED
    BY <2>1, LoopErase
<1> QED
  BY <1>1, <1>2, <1>3, <1>4, <1>5 DEF ManagerNext

LEMMA HeadFollows ==
    ASSUME LoopInv PROVE HeadInHand
  BY DEF LoopInv, Looping, Busy, HeadInHand

\* The loop and the queue keep their invariant, however the table changes while the
\* mutex is released for a callback (CallbackManager.h:118-152).
THEOREM LoopInvariance ==
    ASSUME NoReuse PROVE ManagerSpec => []IInv
<1>1. ManagerInit => IInv
  BY QueueInitially, LoopInitially DEF IInv
<1>2. IInv /\ [ManagerNext]_managerVars => IInv'
  BY QueueStep, LoopStep, HeadFollows DEF IInv
<1> QED
  BY <1>1, <1>2, PTL DEF ManagerSpec
-----------------------------------------------------------------------------
(* The steps are those of a NotificationLog. *)

LEMMA InitialLog ==
    ASSUME ManagerInit PROVE Promise!LogInit
<1>1. Len(log) - Len(queue) = 0 /\ Subscribed = {}
  BY DEF ManagerInit, Subscribed
<1> QED
  BY <1>1 DEF ManagerInit, Promise!LogInit

\* What a step leaves alone of what the log is about.
LEMMA LogUnchanged ==
    ASSUME UNCHANGED <<listeners, queue, log, since, calling, heard>>
    PROVE  UNCHANGED Promise!logVars
  BY DEF Promise!logVars, Subscribed

LEMMA LogErase ==
    ASSUME QueueInv, LoopInv, NEW uids, Erase(uids),
           UNCHANGED <<owner, running, pc, index, calling, ids, since, queue, waiter, log, heard>>
    PROVE  [Promise!LogNext]_(Promise!logVars)
<1>1. /\ DOMAIN listeners' = DOMAIN listeners
      /\ \A u \in DOMAIN listeners : listeners'[u] = IF u \in uids THEN Empty ELSE listeners[u]
  BY ErasedTypes DEF QueueInv, QueueTypes, Erase
<1>2. \A l : Used(l)' <=> Used(l) /\ l \notin uids
  BY <1>1 DEF Used
<1>3. Subscribed = {l \in Ids : Used(l)} /\ Subscribed' = {l \in Ids : Used(l)'}
  <2>1. QueueInv' /\ LoopInv'
    BY LoopErase, QueueErase
  <2> QED
    BY <2>1, SubscribedSlots, SubscribedSlotsThen DEF LoopInv
<1>4. Subscribed' = Subscribed \ uids
  BY <1>2, <1>3
<1>5. CASE Subscribed \cap uids = {}
  BY <1>4, <1>5 DEF Promise!logVars
<1>6. CASE Subscribed \cap uids # {}
  <2>1. Promise!Unsubscribe(Subscribed \cap uids)
    BY <1>4, <1>6 DEF Promise!Unsubscribe
  <2>2. Subscribed \cap uids \in SUBSET Ids
    BY <1>3
  <2> QED
    BY <2>1, <2>2 DEF Promise!LogNext
<1> QED
  BY <1>5, <1>6

LEMMA LogAdd ==
    ASSUME NoReuse, QueueInv, LoopInv, NEW polled \in Added, DoAdd(polled)
    PROVE  Promise!LogNext
<1>1. QueueInv' /\ LoopInv'
  BY QueueAdd, LoopAdd
<1>2. /\ ids \in Nat /\ DOMAIN listeners = 1 .. ids /\ ids < MaxAdds /\ MaxAdds \in Nat
      /\ ids' = ids + 1
  BY Bounds DEF LoopInv, DoAdd
<1>3. /\ ids + 1 \in Ids
      /\ \A l \in Ids : Used(l)' <=> Used(l) \/ l = ids + 1
  <2>1. listeners' = Append(listeners, [id |-> ids + 1, polled |-> polled])
    BY <1>2, NoneReused DEF DoAdd
  <2>2. /\ DOMAIN listeners' = 1 .. ids + 1 /\ listeners'[ids + 1].id = ids + 1
        /\ \A u \in 1 .. ids : listeners'[u] = listeners[u]
    BY <1>2, <2>1, Bounds DEF LoopInv, QueueInv, QueueTypes
  <2>3. listeners'[ids + 1] # Empty
    BY <1>2, <2>2 DEF Empty
  <2> QED
    BY <1>2, <2>2, <2>3 DEF Used, Ids
<1>4. Subscribed = {l \in Ids : Used(l)} /\ Subscribed' = {l \in Ids : Used(l)'}
  BY <1>1, SubscribedSlots, SubscribedSlotsThen DEF LoopInv
<1>5. Subscribed' = Subscribed \cup {ids + 1} /\ ids + 1 \notin Subscribed
  BY <1>2, <1>3, <1>4 DEF Used
<1>6. heard[ids + 1] = <<>>
  BY <1>2, <1>3 DEF LoopInv, NotAhead
<1>7. Promise!Subscribe(ids + 1)
  BY <1>5, <1>6 DEF Promise!Subscribe, DoAdd
<1> QED
  BY <1>3, <1>7 DEF Promise!LogNext

LEMMA LogSend ==
    ASSUME QueueInv, LoopInv, NEW only \in Ids \cup {All}, Send(only)
    PROVE  Promise!LogNext
<1> DEFINE target == IF only = All THEN All ELSE listeners[only].id
<1>1. target \in Ids \cup {All}
  <2>1. only # All => listeners[only] \in Listener
    BY DEF Send, Used, QueueInv, QueueTypes
  <2> QED
    BY <2>1 DEF Listener
<1>2. /\ log' = Append(log, target)
      /\ queue' = Append(queue, [event |-> Len(log) + 1, only |-> only])
      /\ UNCHANGED <<listeners, since, calling, heard>>
  BY DEF Send, callbackVars, tableVars
<1>3. Len(log') - Len(queue') = Len(log) - Len(queue)
  BY <1>1, <1>2 DEF QueueInv, QueueTypes
<1>4. Promise!Publish(target)
  BY <1>2, <1>3 DEF Promise!Publish, Subscribed
<1> QED
  BY <1>1, <1>4 DEF Promise!LogNext

\* The listener that the loop is at may hear of the event in hand.
LEMMA AtMayHear ==
    ASSUME QueueInv, LoopInv, pc = "scan", Used(index), ~ Past(Head(queue))
    PROVE  /\ index \in Ids /\ listeners[index].id = index /\ calling = All
           /\ Head(queue).event = Promise!Current
           /\ Promise!May(index)
<1>1. index \in Ids /\ listeners[index].id = index
  BY UsedIndex
<1>2. queue # <<>> /\ calling = All /\ index >= First(Head(queue))
  BY DEF LoopInv, Looping, Busy
<1>3. /\ Head(queue).event = Retired + 1 /\ Retired + 1 \in 1 .. Len(log)
      /\ log[Retired + 1] = Head(queue).only /\ Head(queue).only \in 0 .. ids
  BY <1>2, HandType
<1>4. /\ Promise!Current = Retired + 1 /\ Retired \in Nat /\ Len(log) \in Nat
      /\ ids \in Nat
  BY Bounds DEF Promise!Current, Retired, LoopInv
<1>5. log[Retired + 1] \in {All, index}
  BY <1>1, <1>2, <1>3, <1>4 DEF Past, First, All, Ids
<1>6. index \in Subscribed
  BY <1>1, SubscribedSlots DEF LoopInv
<1>7. Len(heard[index]) = 0 \/ heard[index][Len(heard[index])] < Retired + 1
  <2>1. ~ Passed(index)
    BY <1>1 DEF Passed, Ids
  <2>2. heard[index] \in Seq(Nat)
    BY <1>1 DEF LoopInv, LoopTypes
  <2>3. \A i \in DOMAIN heard[index] : heard[index][i] <= Retired
    BY <1>1, <1>4, <2>1, <2>2 DEF LoopInv, NotAhead
  <2> QED
    BY <1>4, <2>2, <2>3
<1> QED
  BY <1>1, <1>2, <1>3, <1>4, <1>5, <1>6, <1>7 DEF Promise!May, Retired

LEMMA LogStore ==
    ASSUME QueueInv, LoopInv, StoreForPoller PROVE Promise!LogNext
<1>1. /\ pc = "scan" /\ Used(index) /\ ~ Past(Head(queue))
      /\ UNCHANGED <<listeners, queue, log, since, calling>>
      /\ heard' = [heard EXCEPT ![listeners[index].id] = Append(@, Head(queue).event)]
  BY DEF StoreForPoller, HearAt, tableVars
<1>2. /\ index \in Ids /\ listeners[index].id = index /\ calling = All
      /\ Head(queue).event = Promise!Current /\ Promise!May(index)
  BY <1>1, AtMayHear
<1>3. Promise!Store(index)
  BY <1>1, <1>2 DEF Promise!Store, Promise!Hear, Subscribed
<1> QED
  BY <1>2, <1>3 DEF Promise!LogNext

LEMMA LogBegin ==
    ASSUME QueueInv, LoopInv, BeginCallback PROVE Promise!LogNext
<1>1. /\ pc = "scan" /\ Used(index) /\ ~ Past(Head(queue)) /\ calling' = listeners[index].id
      /\ UNCHANGED <<listeners, queue, log, since, heard>>
  BY DEF BeginCallback, tableVars
<1>2. index \in Ids /\ listeners[index].id = index /\ calling = All /\ Promise!May(index)
  BY <1>1, AtMayHear
<1>3. Promise!BeginCall(index)
  BY <1>1, <1>2 DEF Promise!BeginCall, Subscribed
<1> QED
  BY <1>2, <1>3 DEF Promise!LogNext

LEMMA LogCopy ==
    ASSUME QueueInv, LoopInv, CopyCallback
    PROVE  [Promise!LogNext]_(Promise!logVars)
<1>1. pc = "copy" /\ UNCHANGED <<listeners, queue, log, since>>
  BY DEF CopyCallback, tableVars
<1>2. calling # All /\ queue # <<>>
  BY <1>1 DEF LoopInv, Looping, Busy
<1>3. CASE HearAt(calling) /\ calling' = All
  <2>1. Head(queue).event = Promise!Current
    BY <1>2, HandType DEF Promise!Current, Retired
  <2>2. Promise!EndCall
    BY <1>1, <1>2, <1>3, <2>1 DEF Promise!EndCall, Promise!Hear, HearAt, Subscribed
  <2> QED
    BY <2>2 DEF Promise!LogNext
<1>4. CASE UNCHANGED <<calling, heard>>
  BY <1>1, <1>4, LogUnchanged
<1> QED
  BY <1>3, <1>4 DEF CopyCallback

\* Once the loop is past the end, nobody is due the event in hand any more.
LEMMA LogPop ==
    ASSUME QueueInv, LoopInv, Pop PROVE Promise!LogNext
<1>1. /\ pc = "scan" /\ Past(Head(queue)) /\ queue' = Tail(queue)
      /\ UNCHANGED <<listeners, log, since, calling, heard>>
  BY DEF Pop, tableVars
<1>2. queue # <<>> /\ calling = All
  BY <1>1 DEF LoopInv, Looping, Busy
<1>3. /\ Retired \in Nat /\ Len(log) \in Nat /\ Retired + 1 \in 1 .. Len(log)
      /\ log[Retired + 1] = Head(queue).only /\ Retired' = Retired + 1
      /\ Head(queue).only \in 0 .. ids /\ ids \in Nat /\ DOMAIN listeners = 1 .. ids
      /\ Len(listeners) = ids /\ index \in Nat
  BY <1>2, HandType, QueuePop, Bounds DEF LoopInv, LoopTypes
<1>4. ASSUME NEW l \in Ids PROVE ~ Promise!Must(l)
  <2> SUFFICES ASSUME Promise!Must(l) PROVE FALSE
    OBVIOUS
  <2>1. /\ log[Retired + 1] \in {All, l} /\ l \in Subscribed
        /\ Len(heard[l]) = 0 \/ heard[l][Len(heard[l])] < Retired + 1
        /\ since[l] < Retired + 1
    BY DEF Promise!Must, Promise!May, Promise!Current, Retired
  <2>2. Used(l) /\ l \in 1 .. ids
    BY <1>3, <2>1, SubscribedSlots DEF LoopInv, Used
  <2>3. Passed(l)
    BY <1>1, <1>3, <2>1, <2>2 DEF Past, Passed, Busy, All
  <2>4. since[l] <= Retired
    BY <1>3, <2>1 DEF LoopInv, LoopTypes
  <2>5. heard[l] # <<>> /\ heard[l][Len(heard[l])] = Retired + 1
    BY <1>3, <2>1, <2>2, <2>3, <2>4 DEF LoopInv, NotBehind
  <2>6. heard[l] \in Seq(Nat)
    BY DEF LoopInv, LoopTypes
  <2> QED
    BY <1>3, <2>1, <2>5, <2>6
<1>5. Promise!Retire
  BY <1>1, <1>2, <1>3, <1>4 DEF Promise!Retire, Promise!Current, Subscribed, Retired
<1> QED
  BY <1>5 DEF Promise!LogNext

LEMMA LogStep ==
    ASSUME NoReuse, IInv, [ManagerNext]_managerVars
    PROVE  [Promise!LogNext]_(Promise!logVars)
<1> USE DEF IInv
<1>1. CASE UNCHANGED managerVars \/ ManagerStop \/ Destroy \/ (\E kind \in Waits : WaitForQueue(kind))
           \/ WaitWakes \/ WaitTimesOut \/ (\E kind \in Polls : Poll(kind)) \/ PollTests
           \/ PollerTimesOut \/ CancelPoll \/ CreatePoller
           \/ ManagerWakes \/ SkipListener \/ EndCallback
  <2>1. UNCHANGED <<listeners, queue, log, since, calling, heard>>
    BY <1>1 DEF managerVars, callbackVars, tableVars, ManagerStop, Destroy, WaitForQueue, WaitWakes,
                WaitTimesOut, Poll, PollTests, PollerTimesOut, CancelPoll, CreatePoller,
                ManagerWakes, SkipListener, EndCallback
  <2> QED
    BY <2>1, LogUnchanged
<1>2. CASE StoreForPoller \/ BeginCallback \/ CopyCallback \/ Pop
  BY <1>2, LogStore, LogBegin, LogCopy, LogPop
<1>3. CASE (\E only \in Ids \cup {All} : Send(only)) \/ (\E polled \in Added : DoAdd(polled))
  BY <1>3, LogSend, LogAdd
<1>4. CASE \E uid \in Ids : Remove(uid)
  <2>1. PICK uid \in Ids : Remove(uid)
    BY <1>4
  <2>2. /\ Erase({uid})
        /\ UNCHANGED <<owner, running, pc, index, calling, ids, since, queue, waiter, log, heard>>
    BY <2>1 DEF Remove
  <2> QED
    BY <2>2, LogErase
<1>5. CASE RemovePoller
  <2>1. /\ Erase({u \in DOMAIN listeners : listeners[u].polled})
        /\ UNCHANGED <<owner, running, pc, index, calling, ids, since, queue, waiter, log, heard>>
    BY <1>5 DEF RemovePoller
  <2> QED
    BY <2>1, LogErase
<1> QED
  BY <1>1, <1>2, <1>3, <1>4, <1>5 DEF ManagerNext, ManagerMain

\* The callback manager is a notifier as NotificationLog describes it, for as many
\* listeners as are added before UidVector reuses an index: whatever is added and removed
\* while a callback runs, every listener that is due an event is called with it, once, in
\* order, and before the next (CallbackManager.h:104-157).
THEOREM IsNotificationLogHolds ==
    ASSUME NoReuse PROVE ManagerSpec => IsNotificationLog
<1>1. ManagerInit => Promise!LogInit
  BY InitialLog
<1>2. IInv /\ [ManagerNext]_managerVars => [Promise!LogNext]_(Promise!logVars)
  BY LogStep
<1> QED
  BY <1>1, <1>2, LoopInvariance, PTL DEF ManagerSpec, IsNotificationLog, Promise!LogSpec
===============================================================================
