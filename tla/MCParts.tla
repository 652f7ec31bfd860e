--------------------------------- MODULE MCParts ---------------------------------
(***************************************************************************)
(* The components that share no state, for TLC to check in one run, for    *)
(* what they never do: the initial state picks the component that moves,   *)
(* and the others stay as they begin.  Each is its own module, with its    *)
(* constants' values in Parts.cfg: for Notifier, those of the entry        *)
(* listeners, whose callbacks throw and whose Start and Stop overlap.      *)
(***************************************************************************)
EXTENDS SequenceWindow, PersistentFile, EntryFlags, SubTables, Notifier, NativeDispatcher

VARIABLE part

\* the connection listeners' half of the notifier
OfConnections == INSTANCE Notifier WITH
    Entries <- FALSE, Direct <- FALSE, Overlap <- FALSE, Throwing <- FALSE,
    MaxAdds <- 3, MaxRemoves <- 2, MaxSends <- 2, MaxThreads <- 2

partsVars ==
    <<part, windowVars, fileVars, flagsVars, subTablesVars, notifierVars, vars>>

PartsInit ==
    /\ part \in {"window", "file", "flags", "tables", "connections", "entries", "native"}
    /\ WindowInit /\ FileInit /\ FlagsInit
    /\ SubTablesInit /\ (started => part = "tables")
    /\ NotifierInit
    /\ Init /\ (peer # 0 => part = "native")

Moves(p) == part = p /\ UNCHANGED part

PartsNext ==
    \/ /\ Moves("window") /\ WindowNext
       /\ UNCHANGED <<fileVars, flagsVars, subTablesVars, notifierVars, vars>>
    \/ /\ Moves("file") /\ FileNext
       /\ UNCHANGED <<windowVars, flagsVars, subTablesVars, notifierVars, vars>>
    \/ /\ Moves("flags") /\ FlagsNext
       /\ UNCHANGED <<windowVars, fileVars, subTablesVars, notifierVars, vars>>
    \/ /\ Moves("tables") /\ SubTablesNext
       /\ UNCHANGED <<windowVars, fileVars, flagsVars, notifierVars, vars>>
    \/ /\ Moves("connections") /\ OfConnections!NotifierNext
       /\ UNCHANGED <<windowVars, fileVars, flagsVars, subTablesVars, vars>>
    \/ /\ Moves("entries") /\ NotifierNext
       /\ UNCHANGED <<windowVars, fileVars, flagsVars, subTablesVars, vars>>
    \/ /\ Moves("native") /\ Next
       /\ UNCHANGED <<windowVars, fileVars, flagsVars, subTablesVars, notifierVars>>

PartsSpec == PartsInit /\ [][PartsNext]_partsVars
-----------------------------------------------------------------------------
\* Notifier: the connection listeners' half is a notifier as NotificationLog says.
NotifierIsLog ==
    /\ OfConnections!Promise!LogInit
    /\ [][part = "connections" => OfConnections!Promise!LogNext]_(OfConnections!Promise!logVars)
=============================================================================
