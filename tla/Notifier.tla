-------------------------------- MODULE Notifier --------------------------------
(***************************************************************************)
(* The notifier (Notifier.cs): a table of listeners, a queue of            *)
(* notifications, the thread that calls each listener with each of them,   *)
(* and the threads that add and remove listeners, notify, start and stop.  *)
(*                                                                         *)
(* There are two tables and two queues, of entry and of connection         *)
(* listeners, which differ in how a listener is erased: Entries says which *)
(* of them a model is of, the other being no more than other work for the  *)
(* thread.  What holds m_mutex is one step, and the thread holds it between *)
(* callbacks.  Which flags and prefix a listener wants is left out: it     *)
(* wants all; nor is NotifyLocal told apart.                               *)
(***************************************************************************)
EXTENDS Integers, Sequences

CONSTANTS
    Entries,      \* the entry listeners, or the connection listeners
    Direct,       \* notifications are also sent to one callback only
    Overlap,      \* Start may be called while Stop is waiting
    Throwing,     \* callbacks may throw
    MaxAdds, MaxRemoves, MaxSends, MaxThreads    \* bounds

ASSUME NotifierAssumption ==
    /\ {MaxAdds, MaxRemoves, MaxSends, MaxThreads} \subseteq Nat
    /\ {Entries, Direct, Overlap, Throwing} \subseteq BOOLEAN

LOCAL Ext == INSTANCE SequencesExt

All == 0       \* no "only" callback; and in the table, null

VARIABLES
    running,      \* m_active
    signal,       \* m_cond, an AutoResetEvent
    threads, thread,     \* every thread there was, and m_thread
    starter, stopper,    \* where the threads in Start and Stop are
    list, free,   \* m_list, m_free
    queue,        \* m_entryNotifications or m_connNotifications
    ids, removes, \* how many listeners were added, and removals made
    log, since,   \* as in NotificationLog (history)
    gone,         \* what had been sent when each listener was removed, plus 1 (history)
    freed,        \* the slots put in m_free while they were there (history)
    heard         \* the notifications each listener was called with (history)

mainVars == <<running, signal, threads, thread, starter, stopper>>
tableVars == <<list, free, ids, removes, since, gone, freed>>
notifierVars == <<mainVars, tableVars, queue, log, heard>>

Ids == 1 .. MaxAdds

NotifierTypeOK ==
    /\ running \in BOOLEAN /\ signal \in BOOLEAN /\ starter \in BOOLEAN
    /\ threads \in Seq([at : {"run", "wait", "scan", "call", "ended", "faulted"},
                        event : 0 .. MaxSends, only : Ids \cup {All},
                        index : 1 .. MaxAdds + 1, calling : Ids \cup {All}])
    /\ Len(threads) <= MaxThreads /\ thread \in 0 .. Len(threads)
    /\ stopper \in {"idle", "set", "join"}
    /\ list \in Seq(Ids \cup {All}) /\ Len(list) <= MaxAdds
    /\ free \in Seq(DOMAIN list) /\ freed \subseteq DOMAIN list
    /\ queue \in Seq([event : 1 .. MaxSends, only : Ids \cup {All}])
    /\ ids \in 0 .. MaxAdds /\ removes \in 0 .. MaxRemoves
    /\ log \in Seq(Ids \cup {All}) /\ Len(log) <= MaxSends
    /\ since \in [Ids -> 0 .. MaxSends] /\ gone \in [Ids -> 0 .. MaxSends + 1]
    /\ heard \in [Ids -> Seq(1 .. MaxSends)]

NotifierInit ==
    /\ running = FALSE /\ signal = FALSE /\ threads = <<>> /\ thread = 0
    /\ starter = FALSE /\ stopper = "idle"
    /\ list = <<>> /\ free = <<>> /\ queue = <<>> /\ ids = 0 /\ removes = 0
    /\ log = <<>> /\ since = [l \in Ids |-> 0] /\ gone = [l \in Ids |-> 0]
    /\ freed = {} /\ heard = [l \in Ids |-> <<>>]

Free == \A t \in DOMAIN threads : threads[t].at # "scan"     \* m_mutex can be taken
-----------------------------------------------------------------------------
(* Listeners. *)

\* Add, without taking the slot out of m_free
AddPeek ==
    IF free = <<>>
    THEN list' = Append(list, ids + 1) /\ UNCHANGED <<free, freed>>
    ELSE list' = [list EXCEPT ![Head(free)] = ids + 1] /\ UNCHANGED <<free, freed>>

\* UidList...Add
Add ==
    IF free = <<>>
    THEN list' = Append(list, ids + 1) /\ UNCHANGED <<free, freed>>
    ELSE /\ list' = [list EXCEPT ![Head(free)] = ids + 1]
         /\ free' = Tail(free)
         /\ UNCHANGED freed

AddListener ==
    /\ Free /\ ids < MaxAdds
    /\ Add
    /\ ids' = ids + 1
    /\ since' = [since EXCEPT ![ids + 1] = Len(log)]
    /\ UNCHANGED <<mainVars, removes, gone, queue, log, heard>>

\* Erase, of the listener and its place
EraseShrinks(slot) ==
    /\ list' = Ext!RemoveAt(list, slot)
    /\ UNCHANGED free

\* UidListEntryListener.Erase calls SetNull on the copy of the struct that the
\* list's indexer returns: the list keeps the listener.
Erase(slot) ==
    /\ free' = Append(free, slot)
    /\ list' = IF Entries THEN list ELSE [list EXCEPT ![slot] = All]

RemoveListener(slot) ==
    /\ Free /\ removes < MaxRemoves
    /\ slot \in DOMAIN list /\ list[slot] # All
    /\ Erase(slot)
    /\ removes' = removes + 1
    /\ gone' = [gone EXCEPT ![list[slot]] = IF @ = 0 THEN Len(log) + 1 ELSE @]
    /\ freed' = IF \E i \in DOMAIN free : free[i] = slot THEN freed \cup {slot} ELSE freed
    /\ UNCHANGED <<mainVars, ids, since, queue, log, heard>>
-----------------------------------------------------------------------------
(* Notifications: NotifyEntry and NotifyConnection test m_active first. *)

Notify(only) ==
    /\ Free /\ running /\ Len(log) < MaxSends
    /\ queue' = Append(queue, [event |-> Len(log) + 1, only |-> only])
    /\ log' = Append(log, only)
    /\ signal' = TRUE
    /\ UNCHANGED <<running, threads, thread, starter, stopper, tableVars, heard>>
-----------------------------------------------------------------------------
(* ThreadMain. *)

ThreadIs(t, place) == threads' = [threads EXCEPT ![t].at = place]
ThreadUnchanged == UNCHANGED <<running, thread, starter, stopper, tableVars, log>>

\* the tests of m_active and of the queue, with m_mutex
MainRuns(t) ==
    /\ threads[t].at = "run" /\ Free
    /\ CASE ~ running -> ThreadIs(t, "ended") /\ UNCHANGED queue
         [] running /\ queue = <<>> -> ThreadIs(t, "wait") /\ UNCHANGED queue
         [] OTHER -> /\ queue' = Tail(queue)
                     /\ threads' = [threads EXCEPT ![t] =
                          [at |-> IF Head(queue).only = All THEN "scan" ELSE "call",
                           event |-> Head(queue).event, only |-> Head(queue).only,
                           index |-> 1, calling |-> Head(queue).only]]
    /\ ThreadUnchanged /\ UNCHANGED <<signal, heard>>

\* WaitOne resets the event
MainWakes(t) ==
    /\ threads[t].at = "wait" /\ signal
    /\ ThreadIs(t, "run")
    /\ signal' = FALSE
    /\ ThreadUnchanged /\ UNCHANGED <<queue, heard>>

SkipRemoved(t) ==
    /\ threads[t].at = "scan" /\ threads[t].index <= Len(list) /\ list[threads[t].index] = All
    /\ threads' = [threads EXCEPT ![t].index = @ + 1]
    /\ ThreadUnchanged /\ UNCHANGED <<signal, queue, heard>>

\* Monitor.Exit with a copy of the callback in hand
BeginCallback(t) ==
    /\ threads[t].at = "scan" /\ threads[t].index <= Len(list) /\ list[threads[t].index] # All
    /\ threads' = [threads EXCEPT ![t].at = "call", ![t].calling = list[threads[t].index]]
    /\ ThreadUnchanged /\ UNCHANGED <<signal, queue, heard>>

\* the callback returns and Monitor.Enter; or it throws, which ends the thread
\* with m_active still true
EndCallback(t) ==
    /\ threads[t].at = "call" /\ Free
    /\ LET done == threads[t].only # All
       IN threads' = [threads EXCEPT ![t] =
            IF done THEN [@ EXCEPT !.at = "run", !.calling = All, !.only = All, !.event = 0]
                    ELSE [@ EXCEPT !.at = "scan", !.index = threads[t].index + 1, !.calling = All]]
    /\ heard' = [heard EXCEPT ![threads[t].calling] = Append(@, threads[t].event)]
    /\ ThreadUnchanged /\ UNCHANGED <<signal, queue>>

CallbackThrows(t) ==
    /\ Throwing /\ threads[t].at = "call"
    /\ ThreadIs(t, "faulted")
    /\ ThreadUnchanged /\ UNCHANGED <<signal, queue, heard>>

EndScan(t) ==
    /\ threads[t].at = "scan" /\ threads[t].index > Len(list)
    /\ threads' = [threads EXCEPT ![t].at = "run", ![t].event = 0, ![t].index = 1]
    /\ ThreadUnchanged /\ UNCHANGED <<signal, queue, heard>>
-----------------------------------------------------------------------------
(* Start and Stop. *)

Unended == {t \in DOMAIN threads : threads[t].at \notin {"ended", "faulted"}}

NotifierStart ==
    /\ Free /\ ~ running /\ ~ starter /\ Len(threads) < MaxThreads
    /\ Overlap \/ (stopper = "idle" /\ Unended = {})
    /\ running' = TRUE /\ starter' = TRUE
    /\ UNCHANGED <<signal, threads, thread, stopper, tableVars, queue, log, heard>>

StartThread ==
    /\ starter
    /\ starter' = FALSE
    /\ threads' = Append(threads, [at |-> "run", event |-> 0, only |-> All, index |-> 1,
                                   calling |-> All])
    /\ thread' = Len(threads')
    /\ UNCHANGED <<running, signal, stopper, tableVars, queue, log, heard>>

NotifierStop ==
    /\ stopper = "idle" /\ (Overlap \/ ~ starter)
    /\ running' = FALSE /\ stopper' = "set"
    /\ UNCHANGED <<signal, threads, thread, starter, tableVars, queue, log, heard>>

StopSets ==
    /\ stopper = "set"
    /\ signal' = TRUE /\ stopper' = "join"
    /\ UNCHANGED <<running, threads, thread, starter, tableVars, queue, log, heard>>

StopWaits ==
    /\ stopper = "join" /\ (thread = 0 \/ thread \notin Unended)
    /\ stopper' = "idle"
    /\ UNCHANGED <<running, signal, threads, thread, starter, tableVars, queue, log, heard>>
-----------------------------------------------------------------------------
Main(t) ==
    \/ MainRuns(t) \/ MainWakes(t) \/ SkipRemoved(t) \/ BeginCallback(t) \/ EndCallback(t) \/ EndScan(t)

NotifierNext ==
    \/ AddListener
    \/ \E slot \in Ids : RemoveListener(slot)
    \/ \E only \in {All} \cup (IF Direct THEN 1 .. ids ELSE {}) : Notify(only)
    \/ \E t \in DOMAIN threads : Main(t) \/ CallbackThrows(t)
    \/ NotifierStart \/ StartThread \/ NotifierStop \/ StopSets \/ StopWaits

NotifierSpec == NotifierInit /\ [][NotifierNext]_notifierVars

\* The thread runs, callbacks return, and a Start or a Stop that has begun goes on.
NotifierFairness ==
    /\ \A t \in 1 .. MaxThreads : WF_notifierVars(t \in DOMAIN threads /\ Main(t))
    /\ WF_notifierVars(StartThread) /\ WF_notifierVars(StopSets) /\ WF_notifierVars(StopWaits)

NotifierFairSpec == NotifierSpec /\ NotifierFairness
-----------------------------------------------------------------------------
Subscribed == {l \in Ids : \E slot \in DOMAIN list : list[slot] = l}

\* The events that a thread has taken from the queue and not been through
InHand == {t \in DOMAIN threads : threads[t].event # 0}

\* how many events were dealt with: not those in the queue, nor the one in hand
Retired == Len(log) - Len(queue) - (IF InHand = {} THEN 0 ELSE 1)

CallingNow ==
    IF \E t \in DOMAIN threads : threads[t].at = "call"
    THEN threads[CHOOSE t \in DOMAIN threads : threads[t].at = "call"].calling ELSE All

\* The connection listeners' half of the notifier is a notifier as NotificationLog
\* describes it, across Stop and Start: what was queued when it stopped is dealt
\* with when it starts again (Notifier.cs:64-86, 182-269).  A callback that throws
\* is another matter: it ends the thread, and no one after it hears of the event.
Promise == INSTANCE NotificationLog WITH
    Listeners <- Ids,
    retired <- Retired,
    subscribed <- Subscribed,
    calling <- CallingNow

IsNotificationLog == Promise!LogSpec

\* Notifications are delivered, unless the notifier is stopped or a callback throws:
\* m_active then stays true, and no Start makes another thread (282-288).
Drains ==
    queue # <<>> ~>
        queue = <<>> \/ ~ running \/ \E t \in DOMAIN threads : threads[t].at = "faulted"

\* Stop returns, with the thread anywhere, unless Start set m_active again before
\* the thread had looked at it.  That thread then goes on, and another is made: this
\* Stop waits for the first, and a later one wakes one of the two (282-301).
NotifierStops ==
    stopper = "set" ~> stopper = "idle" \/ running \/ \E t, u \in Unended : t # u

\* A listener that was added is in the table until it is removed, in a slot that no
\* other is given; unless an entry's slot was freed twice, which the list's test
\* for a null listener cannot see (28-51).
AddedStays ==
    \A l \in 1 .. ids : gone[l] = 0 =>
        \/ \E slot \in DOMAIN list : list[slot] = l
        \/ freed # {}

\* "continue; //removed" (Notifier.cs:211): a listener hears nothing that was sent
\* after it was removed.
RemovedIsSilent ==
    \A l \in Ids : gone[l] # 0 => \A i \in DOMAIN heard[l] : heard[l][i] < gone[l]
=============================================================================
