---------------------------- MODULE NotificationLog ----------------------------
(***************************************************************************)
(* What a notifier promises, however it does it: events are published to   *)
(* every listener or to one, and are dealt with one after the other in the *)
(* order they were published.  An event is retired only when every         *)
(* listener that was there when it was published, and still is, has heard  *)
(* it; nobody hears an event twice, or out of order, or one meant for      *)
(* another.  A listener removed while it is being called hears that one    *)
(* event more.                                                             *)
(***************************************************************************)
EXTENDS Integers, Sequences

CONSTANTS Listeners,   \* every listener there can ever be
          All          \* the target of an event for everyone, itself no listener

VARIABLES
    log,          \* the target of each event published
    retired,      \* how many events are dealt with
    subscribed,   \* the listeners there now
    since,        \* how many events each listener came after
    calling,      \* who is being called, or All when nobody is
    heard         \* the events each listener heard

logVars == <<log, retired, subscribed, since, calling, heard>>

LogInit ==
    /\ log = <<>> /\ retired = 0
    /\ subscribed = {}
    /\ since = [l \in Listeners |-> 0]
    /\ calling = All
    /\ heard = [l \in Listeners |-> <<>>]

Current == retired + 1

\* l may be given the current event, or must before it is retired
May(l) ==
    /\ retired < Len(log)
    /\ log[Current] \in {All, l}
    /\ l \in subscribed
    /\ Len(heard[l]) = 0 \/ heard[l][Len(heard[l])] < Current
Must(l) == May(l) /\ since[l] < Current

Publish(target) ==
    /\ log' = Append(log, target)
    /\ UNCHANGED <<retired, subscribed, since, calling, heard>>

Subscribe(l) ==
    /\ l \notin subscribed /\ heard[l] = <<>>
    /\ subscribed' = subscribed \cup {l}
    /\ since' = [since EXCEPT ![l] = Len(log)]
    /\ UNCHANGED <<log, retired, calling, heard>>

Unsubscribe(S) ==
    /\ S # {} /\ S \subseteq subscribed
    /\ subscribed' = subscribed \ S
    /\ UNCHANGED <<log, retired, since, calling, heard>>

Hear(l) == heard' = [heard EXCEPT ![l] = Append(@, Current)]

\* a call, from the moment it cannot be taken back, or the event stored for l
BeginCall(l) ==
    /\ calling = All /\ May(l)
    /\ calling' = l
    /\ UNCHANGED <<log, retired, subscribed, since, heard>>

EndCall ==
    /\ calling # All
    /\ Hear(calling)
    /\ calling' = All
    /\ UNCHANGED <<log, retired, subscribed, since>>

Store(l) ==
    /\ calling = All /\ May(l)
    /\ Hear(l)
    /\ UNCHANGED <<log, retired, subscribed, since, calling>>

Retire ==
    /\ calling = All /\ retired < Len(log)
    /\ \A l \in Listeners : ~ Must(l)
    /\ retired' = Current
    /\ UNCHANGED <<log, subscribed, since, calling, heard>>

LogNext ==
    \/ \E t \in Listeners \cup {All} : Publish(t)
    \/ \E l \in Listeners : Subscribe(l) \/ BeginCall(l) \/ Store(l)
    \/ \E S \in SUBSET Listeners : Unsubscribe(S)
    \/ EndCall
    \/ Retire

LogSpec == LogInit /\ [][LogNext]_logVars
=============================================================================
