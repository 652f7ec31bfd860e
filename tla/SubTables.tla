------------------------------- MODULE SubTables -------------------------------
(***************************************************************************)
(* The dashboard's table of views of a table's subtables                   *)
(* (TableProcessor.cs): the constructor, on the UI thread, lists the       *)
(* subtables there are and then adds a listener for those to come          *)
(* (IndependentNetworkTable.cs, IndependentNtCore.cs, Notifier.cs).  The   *)
(* notifier's thread posts to the UI thread, which has its turn when the   *)
(* constructor is done.                                                    *)
(*                                                                         *)
(* A subtable stands for its entries.  What a processor shows, and the     *)
(* processors it makes for its own subtables, are left out.                *)
(***************************************************************************)
EXTENDS Integers, Sequences, SequencesExt

CONSTANTS Tables, MaxAssigns    \* the subtables; a bound on assignments

ASSUME SubTablesAssumption == MaxAssigns \in Nat

VARIABLES
    there,       \* the subtables that have entries
    ui,          \* where the constructor is
    found,       \* the subtables listed that have no view yet
    listening,   \* the listener is in the notifier's table
    started,     \* the notifier has been started
    notices,     \* its notifications
    notified,    \* notifiedTables
    posts,       \* what is posted to the UI thread
    views,       \* the keys of keyToMultiProcessorMap
    built,       \* how many times processors were made for each subtable (history)
    missed,      \* subtables assigned since the listing, unheard by the listener (history)
    assigns

subTablesVars == <<there, ui, found, listening, started, notices, notified, posts, views, built,
                   missed, assigns>>

SubTablesTypeOK ==
    /\ there \subseteq Tables /\ views \subseteq Tables /\ missed \subseteq Tables
    /\ found \subseteq Tables /\ notified \subseteq Tables
    /\ ui \in {"list", "views", "listen", "start", "idle"}
    /\ listening \in BOOLEAN /\ started \in BOOLEAN
    /\ notices \in Seq(Tables) /\ posts \in Seq(Tables)
    /\ built \in [Tables -> 0 .. 2] /\ assigns \in 0 .. MaxAssigns

\* another table may have started the notifier
SubTablesInit ==
    /\ there = {} /\ ui = "list" /\ found = {}
    /\ listening = FALSE /\ started \in BOOLEAN
    /\ notices = <<>> /\ notified = {} /\ posts = <<>>
    /\ views = {} /\ built = [t \in Tables |-> 0] /\ missed = {} /\ assigns = 0

AssignUnchanged == UNCHANGED <<ui, found, listening, started, notified, posts, views, built>>

\* the server assigns an entry of the subtable: NotifyEntry queues nothing unless started
RemoteAssign(t) ==
    /\ assigns < MaxAssigns /\ assigns' = assigns + 1
    /\ there' = there \cup {t}
    /\ notices' = IF started THEN Append(notices, t) ELSE notices
    /\ missed' = IF started THEN missed \ {t}
                 ELSE IF ui = "list" THEN missed ELSE missed \cup {t}
    /\ AssignUnchanged

\* the listener does not ask for this program's own assignments
LocalAssign(t) ==
    /\ assigns < MaxAssigns /\ assigns' = assigns + 1
    /\ there' = there \cup {t}
    /\ missed' = IF ui = "list" \/ t \in there THEN missed ELSE missed \cup {t}
    /\ AssignUnchanged /\ UNCHANGED notices
-----------------------------------------------------------------------------
(* The UI thread. *)

UiUnchanged == UNCHANGED <<there, notices, posts, assigns>>

GetSubTables ==
    /\ ui = "list" /\ ui' = "views"
    /\ found' = there
    /\ UiUnchanged /\ UNCHANGED <<listening, started, notified, views, built, missed>>

\* AddProcessorOptionsForTable: the processors are made before the key is looked up
AddProcessorOptions(t) ==
    /\ built' = [built EXCEPT ![t] = @ + 1]
    /\ views' = views \cup {t}

InitCurrentSubTables ==
    /\ ui = "views"
    /\ IF found = {} THEN ui' = "listen" /\ UNCHANGED <<found, views, built>>
       ELSE \E t \in found : /\ AddProcessorOptions(t)
                             /\ found' = found \ {t}
                             /\ UNCHANGED ui
    /\ UiUnchanged /\ UNCHANGED <<listening, started, notified, missed>>

\* AddSubTableListener, with the subtables there are as already notified
ListenForOthers ==
    /\ ui = "listen" /\ ui' = "start"
    /\ listening' = TRUE /\ notified' = there
    /\ UiUnchanged /\ UNCHANGED <<found, started, views, built, missed>>

AddSubTableListener ==
    /\ ui = "listen" /\ ui' = "start"
    /\ listening' = TRUE /\ notified' = {}
    /\ UiUnchanged /\ UNCHANGED <<found, started, views, built, missed>>

StartNotifier ==
    /\ ui = "start" /\ ui' = "idle"
    /\ started' = TRUE
    /\ UiUnchanged /\ UNCHANGED <<found, listening, notified, views, built, missed>>

RunPost ==
    /\ ui = "idle" /\ posts # <<>>
    /\ AddProcessorOptions(Head(posts))
    /\ posts' = Tail(posts)
    /\ UNCHANGED <<there, ui, found, listening, started, notices, notified, missed, assigns>>
-----------------------------------------------------------------------------
(* The notifier's thread. *)

NotifyUnchanged == UNCHANGED <<there, ui, found, listening, started, views, built, assigns>>

\* a notification that is dealt with before the listener is there is not heard
NotifyEntries ==
    /\ started /\ notices # <<>>
    /\ notices' = Tail(notices)
    /\ LET t == Head(notices)
       IN IF listening /\ t \notin notified
          THEN notified' = notified \cup {t} /\ posts' = Append(posts, t) /\ UNCHANGED missed
          ELSE /\ UNCHANGED <<notified, posts>>
               /\ missed' = IF listening \/ t \in found \cup views \/ ui = "list" THEN missed
                            ELSE missed \cup {t}
    /\ NotifyUnchanged
-----------------------------------------------------------------------------
UiThread == GetSubTables \/ InitCurrentSubTables \/ AddSubTableListener \/ StartNotifier \/ RunPost

SubTablesNext ==
    \/ \E t \in Tables : RemoteAssign(t) \/ LocalAssign(t)
    \/ UiThread
    \/ NotifyEntries

SubTablesSpec == SubTablesInit /\ [][SubTablesNext]_subTablesVars

\* both threads run
SubTablesFairness == WF_subTablesVars(UiThread) /\ WF_subTablesVars(NotifyEntries)
SubTablesFairSpec == SubTablesSpec /\ SubTablesFairness
-----------------------------------------------------------------------------
\* Every subtable has a view, or is on its way to one, but for those created between
\* the listing and the listener, or by this program, and not assigned by the server
\* since (TableProcessor.cs:33-34).
NothingElseMissed ==
    ui = "list" \/ \A t \in there :
        t \in views \cup found \cup ToSet(notices) \cup ToSet(posts) \cup missed

\* The listing and the listener overlap, and a subtable is notified at each of its
\* assignments; its processors, which listen for as long as the program runs, are
\* made twice at most (TableProcessor.cs:95-107, IndependentNetworkTable.cs:586-603).
BuiltAtMostTwice == \A t \in Tables : built[t] + Len(SelectSeq(posts, LAMBDA p : p = t)) <= 2

\* A subtable the server assigns once the dashboard listens is shown.
AssignedIsShown ==
    \A t \in Tables : started /\ listening /\ t \in ToSet(notices) ~> t \in views
================================================================================
