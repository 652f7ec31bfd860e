----------------------------- MODULE PersistentFile -----------------------------
(***************************************************************************)
(* The file of the persistent entries (StorageSaving.cs): the server's     *)
(* periodic save, the saves a user asks for, the restart that loads the    *)
(* file, crashes between any two file operations, and failing operations.  *)
(*                                                                         *)
(* The persistent entries are one version number, larger for a later       *)
(* change; 0 is no entry at all.  A file is a version, Absent, or Torn:    *)
(* cut short, which loads as some of its entries.  File operations are     *)
(* .NET's: a Move fails if its source is open or absent or its target      *)
(* exists; a Delete does not fail for want of the file.                    *)
(***************************************************************************)
EXTENDS Integers

CONSTANTS
    Files, Home,      \* the files saved to; Home is the server's
    UserFiles,        \* those the user saves to
    MaxVersion, MaxFailures, MaxCrashes    \* bounds

ASSUME PersistentFileAssumption ==
    /\ Home \in Files /\ UserFiles \subseteq Files
    /\ {MaxVersion, MaxFailures, MaxCrashes} \subseteq Nat

Absent == -1
Torn == -2
Savers == {"server", "user"}
Names == {"file", "tmp", "bak"}

VARIABLES
    version,    \* the persistent entries in memory
    clock,      \* the largest version there was
    dirty,      \* m_persistentDirty
    disk,       \* what is under filename, .tmp and .bak, for each of Files
    saver,      \* of each saver, where it is, its file and its entries
    saved,      \* the latest version that a save of Home reported written (history)
    unrestored, \* restoring the backup of Home failed (history)
    failures, crashes

fileVars == <<version, clock, dirty, disk, saver, saved, unrestored, failures, crashes>>

Idle == [pc |-> "idle", file |-> Home, entries |-> 0]

Larger(a, b) == IF a >= b THEN a ELSE b

FileTypeOK ==
    /\ version \in 0 .. clock /\ clock \in 0 .. MaxVersion /\ dirty \in BOOLEAN
    /\ disk \in [Files -> [Names -> {Absent, Torn} \cup 0 .. clock]]
    /\ saver \in [Savers -> [pc : {"idle", "open", "write", "delete", "backup", "rename", "restore"},
                             file : Files, entries : 0 .. clock]]
    /\ saved \in 0 .. clock /\ unrestored \in BOOLEAN
    /\ failures \in 0 .. MaxFailures /\ crashes \in 0 .. MaxCrashes

FileInit ==
    /\ version = 0 /\ clock = 0 /\ dirty = FALSE
    /\ disk = [f \in Files |-> [name \in Names |-> Absent]]
    /\ saver = [s \in Savers |-> Idle]
    /\ saved = 0 /\ unrestored = FALSE /\ failures = 0 /\ crashes = 0

Fails == failures < MaxFailures /\ failures' = failures + 1

Step(s, pc) == saver' = [saver EXCEPT ![s].pc = pc]

\* the finally block of a save that did not succeed, without the flag
ReportError(s) ==
    /\ Step(s, "idle")
    /\ UNCHANGED dirty

\* the finally block of a save that did not succeed
Error(s) ==
    /\ Step(s, "idle")
    /\ dirty' = (dirty \/ s = "server")

FileOf(s) == disk[saver[s].file]
Put(s, name, content) == disk' = [disk EXCEPT ![saver[s].file][name] = content]

\* some save has the temporary file open
Open(f) == \E s \in Savers : saver[s].pc = "write" /\ saver[s].file = f

Movable(s, from, to) ==
    /\ FileOf(s)[from] # Absent /\ FileOf(s)[to] = Absent
    /\ from = "tmp" => ~ Open(saver[s].file)

Move(s, from, to) ==
    disk' = [disk EXCEPT ![saver[s].file][to] = FileOf(s)[from], ![saver[s].file][from] = Absent]

Rest == UNCHANGED <<version, clock, crashes>>
-----------------------------------------------------------------------------
\* a persistent entry is assigned, changed or removed
Change ==
    /\ clock < MaxVersion
    /\ clock' = clock + 1 /\ version' = clock + 1 /\ dirty' = TRUE
    /\ UNCHANGED <<disk, saver, saved, unrestored, failures, crashes>>

\* GetPersistentEntries of a periodic save reads the flag, and of any save clears it
GetPersistentEntries(s, file) ==
    /\ saver[s].pc = "idle" /\ (s = "server" => dirty)
    /\ saver' = [saver EXCEPT ![s] = [pc |-> "open", file |-> file, entries |-> version]]
    /\ dirty' = FALSE
    /\ Rest /\ UNCHANGED <<disk, saved, unrestored, failures>>

\* File.Open, which truncates and shares the file with readers only
OpenTemp(s) ==
    /\ saver[s].pc = "open"
    /\ \/ /\ ~ Open(saver[s].file)
          /\ Put(s, "tmp", Torn) /\ Step(s, "write")
          /\ UNCHANGED <<dirty, failures>>
       \/ Open(saver[s].file) /\ Error(s) /\ UNCHANGED <<disk, failures>>
       \/ Fails /\ Error(s) /\ UNCHANGED disk
    /\ Rest /\ UNCHANGED <<saved, unrestored>>

WriteTemp(s) ==
    /\ saver[s].pc = "write"
    /\ \/ Put(s, "tmp", saver[s].entries) /\ Step(s, "delete") /\ UNCHANGED <<dirty, failures>>
       \/ Fails /\ Error(s) /\ UNCHANGED disk
    /\ Rest /\ UNCHANGED <<saved, unrestored>>

\* an exception leaves out the move
DeleteBackup(s) ==
    /\ saver[s].pc = "delete"
    /\ \/ Put(s, "bak", Absent) /\ Step(s, "backup") /\ UNCHANGED failures
       \/ Fails /\ Step(s, "rename") /\ UNCHANGED disk
    /\ Rest /\ UNCHANGED <<saved, unrestored, dirty>>

BackUp(s) ==
    /\ saver[s].pc = "backup"
    /\ \/ Movable(s, "file", "bak") /\ Move(s, "file", "bak") /\ UNCHANGED failures
       \/ ~ Movable(s, "file", "bak") /\ UNCHANGED <<disk, failures>>
       \/ Fails /\ UNCHANGED disk
    /\ Step(s, "rename")
    /\ Rest /\ UNCHANGED <<saved, unrestored, dirty>>

\* Rename, when the error of the move is not reported
RenameIgnoring(s) ==
    /\ saver[s].pc = "rename"
    /\ IF Movable(s, "tmp", "file") THEN Move(s, "tmp", "file") ELSE UNCHANGED disk
    /\ Step(s, "idle")
    /\ saved' = IF saver[s].file = Home THEN Larger(saved, saver[s].entries) ELSE saved
    /\ Rest /\ UNCHANGED <<dirty, unrestored, failures>>

Rename(s) ==
    /\ saver[s].pc = "rename"
    /\ \/ /\ Movable(s, "tmp", "file") /\ Move(s, "tmp", "file")
          /\ Step(s, "idle")
          /\ saved' = IF saver[s].file = Home THEN Larger(saved, saver[s].entries) ELSE saved
          /\ UNCHANGED failures
       \/ ~ Movable(s, "tmp", "file") /\ Step(s, "restore") /\ UNCHANGED <<disk, saved, failures>>
       \/ Fails /\ Step(s, "restore") /\ UNCHANGED <<disk, saved>>
    /\ Rest /\ UNCHANGED <<dirty, unrestored>>

Restore(s) ==
    /\ saver[s].pc = "restore"
    /\ \/ /\ IF Movable(s, "bak", "file") THEN Move(s, "bak", "file") ELSE UNCHANGED disk
          /\ UNCHANGED <<unrestored, failures>>
       \/ /\ Fails
          /\ unrestored' = (unrestored \/ saver[s].file = Home)
          /\ UNCHANGED disk
    /\ Error(s)
    /\ Rest /\ UNCHANGED saved

\* the server's program ends, and starts by loading its file, whose absence is ignored;
\* loading one that is Torn is left out
Crash ==
    /\ crashes < MaxCrashes /\ crashes' = crashes + 1
    /\ saver' = [s \in Savers |-> Idle]
    /\ disk[Home]["file"] # Torn
    /\ version' = Larger(disk[Home]["file"], 0)
    /\ dirty' = FALSE
    /\ UNCHANGED <<clock, disk, saved, unrestored, failures>>

Save(s) ==
    \/ OpenTemp(s) \/ WriteTemp(s) \/ DeleteBackup(s) \/ BackUp(s) \/ Rename(s) \/ Restore(s)

FileNext ==
    \/ Change \/ Crash
    \/ GetPersistentEntries("server", Home)
    \/ \E file \in UserFiles : GetPersistentEntries("user", file)
    \/ \E s \in Savers : Save(s)

FileSpec == FileInit /\ [][FileNext]_fileVars

\* the dispatch thread tests the flag every second; a save that began goes on
FileFairness ==
    /\ WF_fileVars(GetPersistentEntries("server", Home))
    /\ \A s \in Savers : WF_fileVars(Save(s))

FairFileSpec == FileSpec /\ FileFairness
-----------------------------------------------------------------------------
\* The file is never cut short: it only gets complete contents, by Move (299-329).
FileIsWhole == \A f \in Files : disk[f]["file"] # Torn

\* While the server runs, some file has what was last reported saved, or later, whatever
\* fails: the backup is deleted only when a new file is there (317-329).  Once a backup
\* could not be put back (336), the next save deletes it, and may fail too.
SavedIsSomewhere ==
    saved > 0 /\ crashes = 0 /\ ~ unrestored => \E name \in Names : disk[Home][name] >= saved

\* The server's file gets every change, if its operations do not fail for ever (30,
\* 348): a save that failed leaves the flag set for the next.
ChangeIsSaved == clock > 0 ~> disk[Home]["file"] = version

\* After a restart the server's file is missing, or it is what was last reported saved,
\* or later: the file never goes back to an older version (317-343).
RestartFindsLatest ==
    [][Crash => version' >= saved \/ disk[Home]["file"] = Absent]_fileVars

\* What was reported saved is there after a restart ("persistent through program
\* restarts", IndependentNetworkTable.cs:132), or something later.
RestartKeepsSaved == [][Crash => version' >= saved]_fileVars
=============================================================================
