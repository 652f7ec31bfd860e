---------------------------- MODULE CallbackManager ----------------------------
(***************************************************************************)
(* The native library's callback manager (CallbackManager.h) as its        *)
(* connection notifier uses it (ConnectionNotifier.cpp): one thread that    *)
(* takes notifications from m_queue and calls, or stores for a poller,     *)
(* every listener; and the calls that any other thread makes meanwhile.    *)
(*                                                                         *)
(* GetThread returns a proxy that holds m_mutex, so a call is one step,    *)
(* cut where it waits.  The callback thread holds m_mutex while it scans   *)
(* the listeners and not while a callback is copied (DoCallback takes it   *)
(* by value) and runs.  wpi::UidVector, which reuses an index only when    *)
(* ReuseThreshold of them have been freed, and wpi::SafeThreadOwner are    *)
(* not in the repository: Emplace, Erase, Start and Stop are what          *)
(* CallbackManager.h needs them to be.  There is one poller, and Add and   *)
(* CreatePoller are not called after Stop, which the instance's end calls. *)
(***************************************************************************)
EXTENDS Integers, Sequences, FiniteSets

CONSTANTS
    ReuseThreshold,   \* 64 in the code
    Added,            \* the listeners added: with a callback (FALSE), polled (TRUE)
    Waits, Polls,     \* the time-outs of WaitForQueue and Poll: "timed", "forever"
    MaxAdds, MaxSends, MaxPollCancels   \* bounds on the calls

ASSUME ManagerAssumption ==
    /\ {ReuseThreshold, MaxAdds, MaxSends, MaxPollCancels} \subseteq Nat
    /\ Added \subseteq BOOLEAN
    /\ Waits \cup Polls \subseteq {"timed", "forever"}

All == 0              \* UINT_MAX: the notification is for every listener
Empty == [id |-> 0, polled |-> FALSE]    \* a default constructed listener

VARIABLES
    owner,       \* m_owner: "none", "started" or "stopped"
    running,     \* m_active
    pc,          \* where the callback thread is
    index,       \* the listener it is at
    calling,     \* the id of the listener it took a reference to, or All
    intact,      \* the reference still leads to that listener
    listeners,   \* m_listeners; an id stands for the callback
    freed,       \* the indices UidVector has to reuse
    queue,       \* m_queue
    waiter,      \* a thread in WaitForQueue
    eventPoller, \* m_pollers[1], which outlives its removal in the hands of Poll
    poll,        \* the thread that polls it
    ids,         \* how many listeners were added
    log, since, heard, got, cancels   \* history

callbackVars == <<pc, index, calling, intact>>
tableVars == <<listeners, freed, ids, since>>
pollerVars == <<eventPoller, poll, got, cancels>>
managerVars == <<owner, running, callbackVars, tableVars, queue, waiter, pollerVars, log, heard>>

Ids == 1 .. MaxAdds

ManagerTypeOK ==
    /\ owner \in {"none", "started", "stopped"}
    /\ running \in BOOLEAN /\ intact \in BOOLEAN
    /\ pc \in {"none", "wait", "scan", "copy", "call", "exited", "crashed"}
    /\ index \in 1 .. MaxAdds + 1 /\ calling \in Ids \cup {All}
    /\ Len(listeners) <= MaxAdds
    /\ listeners \in Seq([id : Ids, polled : BOOLEAN] \cup {Empty})
    /\ freed \in Seq(1 .. MaxAdds)
    /\ queue \in Seq([event : 1 .. MaxSends, only : Ids \cup {All}])
    /\ waiter \in [pc : {"out", "waiting", "true", "timed_out"}, kind : {"timed", "forever"},
                   from : 0 .. MaxSends, woken : BOOLEAN]
    /\ eventPoller \in [life : {"absent", "live", "gone"}, queue : Seq(1 .. MaxSends),
                   terminating : BOOLEAN, cancelling : BOOLEAN]
    /\ poll \in [pc : {"out", "check", "waiting"}, kind : {"timed", "forever"},
                 cancelled : BOOLEAN, baseless : BOOLEAN]
    /\ ids \in 0 .. MaxAdds /\ cancels \in 0 .. MaxPollCancels
    /\ log \in Seq(Ids \cup {All}) /\ since \in [Ids -> 0 .. MaxSends]
    /\ heard \in [Ids -> Seq(1 .. MaxSends)] /\ got \in Seq(1 .. MaxSends)

ManagerInit ==
    /\ owner = "none" /\ running = FALSE
    /\ pc = "none" /\ index = 1 /\ calling = All /\ intact = TRUE
    /\ listeners = <<>> /\ freed = <<>> /\ queue = <<>>
    /\ waiter = [pc |-> "out", kind |-> "timed", from |-> 0, woken |-> FALSE]
    /\ eventPoller = [life |-> "absent", queue |-> <<>>, terminating |-> FALSE, cancelling |-> FALSE]
    /\ poll = [pc |-> "out", kind |-> "timed", cancelled |-> FALSE, baseless |-> FALSE]
    /\ ids = 0 /\ log = <<>> /\ cancels = 0
    /\ since = [l \in Ids |-> 0]
    /\ heard = [l \in Ids |-> <<>>] /\ got = <<>>

Free == pc \notin {"scan", "crashed"}       \* m_mutex can be taken
Running == owner = "started" /\ Free       \* GetThread gave a thread

\* uid is the index of a listener
Used(uid) == uid \in DOMAIN listeners /\ listeners[uid] # Empty
Subscribed == {l \in Ids : \E uid \in DOMAIN listeners : listeners[uid].id = l}
-----------------------------------------------------------------------------
(* Start, Stop, and the table of the listeners. *)

\* m_owner.Start: the thread is there once
ManagerStart ==
    /\ owner # "stopped"
    /\ owner' = "started"
    /\ running' = TRUE
    /\ pc' = IF owner = "none" THEN "wait" ELSE pc

ManagerStop ==
    /\ owner = "started" /\ pc # "crashed"
    /\ owner' = "stopped"
    /\ running' = FALSE
    /\ UNCHANGED <<callbackVars, tableVars, queue, waiter, pollerVars, log, heard>>

\* UidVector.emplace_back.  Appending may move the vector: a reference that is
\* in use then leads to freed memory.
Emplace(listener) ==
    IF Len(freed) < ReuseThreshold
    THEN /\ listeners' = Append(listeners, listener)
         /\ intact' \in {intact, intact /\ calling = All}
         /\ UNCHANGED freed
    ELSE /\ listeners' = [listeners EXCEPT ![Head(freed)] = listener]
         /\ freed' = Tail(freed)
         /\ UNCHANGED intact

\* Erase from a plain vector: the listeners after it move down
EraseCompact(uids) ==
    /\ listeners' = SelectSeq(listeners, LAMBDA l : \A u \in uids : Used(u) => l # listeners[u])
    /\ UNCHANGED <<freed, intact>>

Ascending(S) ==
    {f \in [1 .. Cardinality(S) -> S] : \A i, j \in 1 .. Cardinality(S) : i < j => f[i] < f[j]}

\* UidVector.erase of each uid, one after the other: what was there is destroyed
Erase(uids) ==
    /\ listeners' = [u \in DOMAIN listeners |-> IF u \in uids THEN Empty ELSE listeners[u]]
    /\ \E order \in Ascending({u \in uids : Used(u)}) : freed' = freed \o order
    /\ intact' = (intact /\ \A u \in uids : Used(u) => listeners[u].id # calling)

DoAdd(polled) ==
    /\ Free /\ ids < MaxAdds
    /\ polled => eventPoller.life = "live"
    /\ ManagerStart
    /\ Emplace([id |-> ids + 1, polled |-> polled])
    /\ ids' = ids + 1
    /\ since' = [since EXCEPT ![ids + 1] = Len(log)]
    /\ UNCHANGED <<index, calling, queue, waiter, pollerVars, log, heard>>

Remove(uid) ==
    /\ Running
    /\ Erase({uid})
    /\ UNCHANGED <<owner, running, pc, index, calling, ids, since, queue, waiter, pollerVars, log, heard>>
-----------------------------------------------------------------------------
(* Send, and the callback thread. *)

\* Send, also to a uid whose listener is gone
Send(only) ==
    /\ Running /\ Subscribed # {} /\ Len(log) < MaxSends
    /\ only = All \/ Used(only)
    /\ queue' = Append(queue, [event |-> Len(log) + 1, only |-> only])
    /\ log' = Append(log, IF only = All THEN All ELSE listeners[only].id)
    /\ UNCHANGED <<owner, running, callbackVars, tableVars, waiter, pollerVars, heard>>

First(item) == IF item.only = All THEN 1 ELSE item.only
Past(item) == index > IF item.only = All THEN Len(listeners) ELSE item.only

\* m_cond.wait until there is something to do, and the tests of m_active
ManagerWakes ==
    /\ pc = "wait" /\ (queue # <<>> \/ ~ running)
    /\ IF running THEN pc' = "scan" /\ index' = First(Head(queue))
                 ELSE pc' = "exited" /\ index' = 1
    /\ UNCHANGED <<owner, running, calling, intact, tableVars, queue, waiter, pollerVars, log, heard>>

\* an empty slot, or an index past the end
SkipListener ==
    /\ pc = "scan" /\ ~ Past(Head(queue)) /\ ~ Used(index)
    /\ index' = index + 1
    /\ UNCHANGED <<owner, running, pc, calling, intact, tableVars, queue, waiter, pollerVars, log, heard>>

HearAt(l) == heard' = [heard EXCEPT ![l] = Append(@, Head(queue).event)]

\* NotifyPoll, forgotten
NotifyNobody == UNCHANGED poll

NotifyPoll == IF poll.pc = "waiting" THEN poll' = [poll EXCEPT !.pc = "check"] ELSE UNCHANGED poll

\* SendPoller
StoreForPoller ==
    /\ pc = "scan" /\ ~ Past(Head(queue)) /\ Used(index) /\ listeners[index].polled
    /\ eventPoller' = [eventPoller EXCEPT !.queue = Append(@, Head(queue).event)]
    /\ NotifyPoll
    /\ HearAt(listeners[index].id)
    /\ index' = index + 1
    /\ UNCHANGED <<owner, running, pc, calling, intact, tableVars, queue, waiter, got, cancels, log>>

\* lock.unlock() with the reference in hand
BeginCallback ==
    /\ pc = "scan" /\ ~ Past(Head(queue)) /\ Used(index) /\ ~ listeners[index].polled
    /\ pc' = "copy"
    /\ calling' = listeners[index].id
    /\ intact' = TRUE
    /\ UNCHANGED <<owner, running, index, tableVars, queue, waiter, pollerVars, log, heard>>

\* DoCallback copies the callback the reference leads to.  When that is gone,
\* the copy is empty or read from freed memory, and calling it ends the program;
\* or the memory still holds what it did.
CopyCallback ==
    /\ pc = "copy"
    /\ \/ /\ pc' = "call"
          /\ HearAt(calling)
          /\ calling' = All
       \/ /\ ~ intact
          /\ pc' = "crashed"
          /\ UNCHANGED <<calling, heard>>
    /\ intact' = TRUE
    /\ UNCHANGED <<owner, running, index, tableVars, queue, waiter, pollerVars, log>>

\* the callback returns and lock.lock()
EndCallback ==
    /\ pc = "call"
    /\ pc' = "scan" /\ index' = index + 1
    /\ UNCHANGED <<owner, running, calling, intact, tableVars, queue, waiter, pollerVars, log, heard>>

\* Pop, without notify_all
PopSilently ==
    /\ pc = "scan" /\ Past(Head(queue))
    /\ queue' = Tail(queue)
    /\ IF queue' = <<>> THEN pc' = "wait" /\ index' = 1
                       ELSE pc' = "scan" /\ index' = First(Head(queue'))
    /\ UNCHANGED <<owner, running, calling, intact, tableVars, waiter, pollerVars, log, heard>>

\* m_queue.pop(), and m_queue_empty.notify_all() when that was the last
Pop ==
    /\ pc = "scan" /\ Past(Head(queue))
    /\ queue' = Tail(queue)
    /\ IF queue' = <<>>
       THEN /\ pc' = "wait" /\ index' = 1
            /\ waiter' = [waiter EXCEPT !.woken = waiter.pc = "waiting"]
       ELSE /\ IF running THEN pc' = "scan" /\ index' = First(Head(queue'))
                         ELSE pc' = "exited" /\ index' = 1
            /\ UNCHANGED waiter
    /\ UNCHANGED <<owner, running, calling, intact, tableVars, pollerVars, log, heard>>

\* The last shared_ptr to the thread object goes: not before its Main has
\* returned, nor while a proxy is held.  ~CallbackThread ends the polls.
Destroy ==
    /\ owner = "stopped" /\ pc = "exited" /\ waiter.pc # "waiting"
    /\ eventPoller.life = "live"
    /\ eventPoller' = [eventPoller EXCEPT !.terminating = TRUE, !.life = "gone"]
    /\ NotifyPoll
    /\ UNCHANGED <<owner, running, callbackVars, tableVars, queue, waiter, got, cancels, log, heard>>
-----------------------------------------------------------------------------
(* WaitForQueue. *)

WaitReturns(result) == waiter' = [waiter EXCEPT !.pc = result, !.kind = "timed", !.woken = FALSE]

\* WaitForQueue, content with one event left: the one in progress
WaitForAllButOne(kind) ==
    /\ waiter.pc # "waiting" /\ Free
    /\ IF owner # "started" \/ Len(queue) <= 1
       THEN waiter' = [waiter EXCEPT !.pc = "true", !.from = Len(log)]
       ELSE waiter' = [pc |-> "waiting", kind |-> kind, from |-> Len(log), woken |-> FALSE]
    /\ UNCHANGED <<owner, running, callbackVars, tableVars, queue, pollerVars, log, heard>>

\* at once when there is no thread or nothing in the queue
WaitForQueue(kind) ==
    /\ waiter.pc # "waiting" /\ Free
    /\ IF owner # "started" \/ queue = <<>>
       THEN waiter' = [waiter EXCEPT !.pc = "true", !.from = Len(log)]
       ELSE waiter' = [pc |-> "waiting", kind |-> kind, from |-> Len(log), woken |-> FALSE]
    /\ UNCHANGED <<owner, running, callbackVars, tableVars, queue, pollerVars, log, heard>>

\* m_queue_empty was notified: the loop's tests again
WaitWakes ==
    /\ waiter.pc = "waiting" /\ waiter.woken /\ Free
    /\ IF queue = <<>> \/ ~ running THEN WaitReturns("true")
                                   ELSE waiter' = [waiter EXCEPT !.woken = FALSE]
    /\ UNCHANGED <<owner, running, callbackVars, tableVars, queue, pollerVars, log, heard>>

WaitTimesOut ==
    /\ waiter.pc = "waiting" /\ waiter.kind = "timed" /\ ~ waiter.woken /\ Free
    /\ WaitReturns("timed_out")
    /\ UNCHANGED <<owner, running, callbackVars, tableVars, queue, pollerVars, log, heard>>
-----------------------------------------------------------------------------
(* The poller. *)

CreatePoller ==
    /\ eventPoller.life = "absent" /\ Free /\ TRUE \in Added
    /\ ManagerStart
    /\ eventPoller' = [eventPoller EXCEPT !.life = "live"]
    /\ UNCHANGED <<index, calling, intact, tableVars, queue, waiter, poll, got, cancels, log, heard>>

RemovePoller ==
    /\ Running /\ eventPoller.life = "live"
    /\ Erase({u \in DOMAIN listeners : listeners[u].polled})
    /\ eventPoller' = [eventPoller EXCEPT !.life = "gone", !.terminating = TRUE]
    /\ NotifyPoll
    /\ UNCHANGED <<owner, running, pc, index, calling, ids, since, queue, waiter, got, cancels, log, heard>>

\* Poll finds the poller
Poll(kind) ==
    /\ poll.pc = "out" /\ Running /\ eventPoller.life = "live"
    /\ poll' = [poll EXCEPT !.pc = "check", !.kind = kind, !.cancelled = FALSE]
    /\ UNCHANGED <<owner, running, callbackVars, tableVars, queue, waiter, eventPoller, got, cancels, log, heard>>

PollEnds(baseless) ==
    poll' = [pc |-> "out", kind |-> "timed", cancelled |-> FALSE, baseless |-> baseless]

\* the loop of Poll, under poll_mutex
PollTests ==
    /\ poll.pc = "check"
    /\ CASE eventPoller.queue # <<>> ->
              /\ got' = got \o eventPoller.queue
              /\ eventPoller' = [eventPoller EXCEPT !.queue = <<>>]
              /\ PollEnds(poll.baseless)
         [] eventPoller.queue = <<>> /\ eventPoller.terminating ->
              /\ PollEnds(poll.baseless)
              /\ UNCHANGED <<got, eventPoller>>
         [] eventPoller.queue = <<>> /\ ~ eventPoller.terminating /\ eventPoller.cancelling ->
              /\ eventPoller' = [eventPoller EXCEPT !.cancelling = FALSE]
              /\ PollEnds(poll.baseless \/ ~ poll.cancelled)
              /\ UNCHANGED got
         [] OTHER ->
              /\ poll' = [poll EXCEPT !.pc = "waiting"]
              /\ UNCHANGED <<got, eventPoller>>
    /\ UNCHANGED <<owner, running, callbackVars, tableVars, queue, waiter, cancels, log, heard>>

PollerTimesOut ==
    /\ poll.pc = "waiting" /\ poll.kind = "timed"
    /\ PollEnds(poll.baseless)
    /\ UNCHANGED <<owner, running, callbackVars, tableVars, queue, waiter, eventPoller, got, cancels, log, heard>>

CancelPoll ==
    /\ Running /\ eventPoller.life = "live" /\ cancels < MaxPollCancels
    /\ cancels' = cancels + 1
    /\ eventPoller' = [eventPoller EXCEPT !.cancelling = TRUE]
    /\ poll' = [poll EXCEPT !.pc = IF @ = "waiting" THEN "check" ELSE @,
                            !.cancelled = @ \/ poll.pc # "out"]
    /\ UNCHANGED <<owner, running, callbackVars, tableVars, queue, waiter, got, log, heard>>
-----------------------------------------------------------------------------
ManagerMain ==
    \/ ManagerWakes \/ SkipListener \/ StoreForPoller
    \/ BeginCallback \/ CopyCallback \/ EndCallback \/ Pop

ManagerNext ==
    \/ ManagerMain \/ ManagerStop \/ Destroy
    \/ \E polled \in Added : DoAdd(polled)
    \/ \E uid \in Ids : Remove(uid)
    \/ \E only \in Ids \cup {All} : Send(only)
    \/ \E kind \in Waits : WaitForQueue(kind)
    \/ \E kind \in Polls : Poll(kind)
    \/ WaitWakes \/ WaitTimesOut
    \/ CreatePoller \/ RemovePoller \/ PollTests \/ PollerTimesOut \/ CancelPoll

ManagerSpec == ManagerInit /\ [][ManagerNext]_managerVars

\* The threads that are inside the manager go on, callbacks return, time passes
\* and the last reference to an object destroys it.  Nobody need call anything.
ManagerFairness ==
    /\ WF_managerVars(ManagerMain) /\ WF_managerVars(Destroy)
    /\ WF_managerVars(WaitWakes) /\ WF_managerVars(WaitTimesOut)
    /\ WF_managerVars(PollTests) /\ WF_managerVars(PollerTimesOut)

ManagerFairSpec == ManagerSpec /\ ManagerFairness
-----------------------------------------------------------------------------
\* The manager is a notifier as NotificationLog describes it: the loop by index
\* over a table that changes under it (CallbackManager.h:136-150) misses no
\* listener and calls none twice.
Promise == INSTANCE NotificationLog WITH
    Listeners <- Ids,
    retired <- Len(log) - Len(queue),
    subscribed <- Subscribed

IsNotificationLog == Promise!LogSpec

\* When WaitForQueue has returned true, every event sent before the call has been
\* through every callback: the event in progress stays in m_queue until its last
\* callback returns (CallbackManager.h:116-152, 212-223).  Stop is the exception.
WaitMeansDelivered ==
    waiter.pc = "true" /\ owner = "started" =>
        \A i \in DOMAIN queue : queue[i].event > waiter.from

\* What a polled listener heard reaches Poll's callers in that order, with
\* nothing lost to a cancelled, timed out or aborted call (231-275).
PollKeepsEvents ==
    LET stored == got \o eventPoller.queue
        times(e) == Len(SelectSeq(stored, LAMBDA x : x = e))
        polled == {l \in Ids : \E u \in DOMAIN listeners :
                     listeners[u].id = l /\ listeners[u].polled}
    IN /\ \A i, j \in DOMAIN stored : i < j => stored[i] <= stored[j]
       /\ \A l \in polled : \A i \in DOMAIN heard[l] : times(heard[l][i]) > 0

\* The queue is emptied, unless the manager is stopped or the program has ended.
QueueDrains == queue # <<>> ~> queue = <<>> \/ owner = "stopped" \/ pc = "crashed"

\* A thread in WaitForQueue returns (its wake-up is never lost), without a Stop.
WaiterReturns ==
    waiter.pc = "waiting" ~> waiter.pc # "waiting" \/ owner = "stopped" \/ pc = "crashed"

\* A Poll that is not over when there is an event for it, a cancel or the end of
\* its poller returns to its caller, whether it was blocked or about to block, and
\* without a time-out (240-275).
PollerReturns ==
    poll.pc # "out" /\ (eventPoller.queue # <<>> \/ eventPoller.cancelling \/ eventPoller.terminating)
        ~> poll.pc = "out" \/ pc = "crashed"

\* Stopping the manager ends a Poll: "Wake up any blocked pollers" (61), "Only
\* returns empty if [...] the instance was invalid or is shutting down"
\* (ntcore_cpp.h:846).
StopEndsPoll == owner = "stopped" ~> poll.pc = "out" \/ pc = "crashed"

\* Poll "only returns empty if an error occurred" (ntcore_cpp.h:846) or because
\* of a CancelPoll, which "wakes up a call" and makes it return (869).
EmptyPollHasCause == ~ poll.baseless

\* "Use index because iterator might get invalidated" (CallbackManager.h:135):
\* the loop works on the table whatever is done to it meanwhile, and so does not
\* use a listener that is gone.
ListenerOutlivesUse == pc = "copy" => intact
=============================================================================
