------------------------------ MODULE Parts_proofs ------------------------------
(***************************************************************************)
(* The parts that share no state: the sequence numbers (SequenceWindow),   *)
(* the file of the persistent entries (PersistentFile), the flags of an    *)
(* entry (EntryFlags), the dashboard's subtables (SubTables) and the       *)
(* notifier (Notifier).                                                    *)
(*                                                                         *)
(* The order of the 16-bit sequence numbers is the order of the writes     *)
(* they were given to, for every size of the number circle and every       *)
(* number of writes; in particular for HalfRange = 2^15.  The invariant    *)
(* relates numbers pairwise: of any two writes that the system still knows *)
(* of and that are less than once round the circle apart, the number of    *)
(* the later is that many increments ahead.                                *)
(*                                                                         *)
(* What a save may rely on is proved for any files, versions, failures and *)
(* crashes.  The invariant follows the server's file through the steps of  *)
(* a save: a complete temporary file, a backup that is never older than    *)
(* what was saved unless the file itself is there, and one of the two      *)
(* while a save is between its moves.  The user saves to files of its own: *)
(* PersistentFileTorn.cfg shows that it must.                              *)
(*                                                                         *)
(* A single caller has its way with the flags because each stream ends     *)
(* with what its sender has now, but for what the sender has yet to queue. *)
(* No subtable is missed because what the listener was notified of is      *)
(* posted.  The notifier is a notifier as NotificationLog describes it,    *)
(* in its connection listeners' form, because one thread at a time has one *)
(* event in hand, those before it in the table have heard of it, and no    *)
(* listener is in two slots.                                               *)
(***************************************************************************)
EXTENDS SequenceWindow, PersistentFile, EntryFlags, SubTables, Notifier,
        FiniteSetTheorems, SequenceTheorems, TLAPS

\* a write, with the sequence number it got
Stamp == [seq : SeqNums, write : 0 .. MaxWrites]

Known ==
    updates \cup {[seq |-> held, write |-> heldWrite], [seq |-> seq, write |-> writes]}

InStep(u, v) ==
    u.write <= v.write /\ v.write - u.write < 2 * HalfRange =>
        v.seq = Ahead(u.seq, v.write - u.write)

WindowInv ==
    /\ WindowTypeOK
    /\ \A u \in Known : u.write <= writes
    /\ \A u, v \in Known : InStep(u, v)
-----------------------------------------------------------------------------
(* The numbers. *)

\* The successor of a sequence number is a sequence number.
LEMMA IncType == \A a \in SeqNums : Inc(a) \in SeqNums
  BY HalfRangeAssumption DEF SeqNums, Inc

\* One more increment is one step further ahead.
LEMMA IncAhead ==
  ASSUME NEW a \in SeqNums, NEW d \in 0 .. (2 * HalfRange - 1)
  PROVE  Inc(Ahead(a, d)) = Ahead(a, d + 1)
  BY HalfRangeAssumption DEF SeqNums, Inc, Ahead

\* Less than half the circle ahead is newer, and not older.
LEMMA AheadIsNewer ==
  ASSUME NEW a \in SeqNums, NEW d \in 1 .. (HalfRange - 1)
  PROVE  /\ Newer(Ahead(a, d), a) /\ ~ Older(Ahead(a, d), a)
         /\ Older(a, Ahead(a, d)) /\ ~ Newer(a, Ahead(a, d))
         /\ Ahead(a, d) # a
  BY HalfRangeAssumption DEF SeqNums, Ahead, Newer, Older

\* Nothing ahead is where it started from.
LEMMA AheadZero == \A a \in SeqNums : Ahead(a, 0) = a /\ ~ Older(a, a) /\ ~ Newer(a, a)
  BY HalfRangeAssumption DEF SeqNums, Ahead, Newer, Older

\* Two writes less than half the circle apart are ordered by their numbers.
LEMMA InStepOrder ==
  ASSUME NEW u \in Stamp, NEW v \in Stamp, InStep(u, v), InStep(v, u),
         u.write - v.write < HalfRange, v.write - u.write < HalfRange
  PROVE  /\ Older(u.seq, v.seq) <=> u.write < v.write
         /\ Newer(u.seq, v.seq) <=> u.write > v.write
         /\ u.seq = v.seq <=> u.write = v.write
<1>1. CASE u.write < v.write
  <2>1. v.seq = Ahead(u.seq, v.write - u.write)
    BY <1>1, MaxWritesAssumption, HalfRangeAssumption DEF Stamp, InStep
  <2>2. v.write - u.write \in 1 .. (HalfRange - 1)
    BY <1>1, MaxWritesAssumption, HalfRangeAssumption DEF Stamp
  <2> QED BY <1>1, <2>1, <2>2, AheadIsNewer, MaxWritesAssumption DEF Stamp
<1>2. CASE u.write = v.write
  <2>1. v.seq = Ahead(u.seq, 0)
    BY <1>2, MaxWritesAssumption, HalfRangeAssumption DEF Stamp, InStep
  <2> QED BY <1>2, <2>1, AheadZero, MaxWritesAssumption DEF Stamp
<1>3. CASE u.write > v.write
  <2>1. u.seq = Ahead(v.seq, u.write - v.write)
    BY <1>3, MaxWritesAssumption, HalfRangeAssumption DEF Stamp, InStep
  <2>2. u.write - v.write \in 1 .. (HalfRange - 1)
    BY <1>3, MaxWritesAssumption, HalfRangeAssumption DEF Stamp
  <2> QED BY <1>3, <2>1, <2>2, AheadIsNewer, MaxWritesAssumption DEF Stamp
<1> QED BY <1>1, <1>2, <1>3, MaxWritesAssumption DEF Stamp
-----------------------------------------------------------------------------
(* The invariant. *)

\* What the system knows of are stamps.
LEMMA KnownType == WindowTypeOK => Known \subseteq Stamp
  BY MaxWritesAssumption DEF WindowTypeOK, Known, Stamp

\* At first nobody has written, and nothing is out of step.
LEMMA WindowInitially == WindowInit => WindowInv
<1> SUFFICES ASSUME WindowInit PROVE WindowInv
  OBVIOUS
<1>1. WindowTypeOK
  BY HalfRangeAssumption, MaxWritesAssumption DEF WindowInit, WindowTypeOK, SeqNums
<1>2. Known = {[seq |-> 0, write |-> 0]}
  BY DEF WindowInit, Known
<1>3. \A u, v \in Known : InStep(u, v)
  BY <1>2, HalfRangeAssumption DEF InStep, Ahead
<1> QED BY <1>1, <1>2, <1>3 DEF WindowInit, WindowInv

\* A write gets the number one step ahead of the writer's last.
LEMMA WriteStep == WindowInv /\ Write => WindowInv'
<1> SUFFICES ASSUME WindowInv, Write PROVE WindowInv'
  OBVIOUS
<1> DEFINE last == [seq |-> seq, write |-> writes]
           next == [seq |-> Inc(seq), write |-> writes + 1]
<1>1. WindowTypeOK'
  BY IncType, MaxWritesAssumption DEF WindowInv, WindowTypeOK, Write
<1>2. Known' \subseteq Known \cup {next}
  BY DEF Known, Write
<1>3. Known \subseteq Stamp /\ last \in Known
  BY KnownType DEF WindowInv, Known
<1>4. next \in Stamp
  BY IncType, MaxWritesAssumption DEF WindowInv, WindowTypeOK, Write, Stamp
<1>5. \A u \in Known : u.write <= writes
  BY DEF WindowInv
<1>6. \A u \in Known : InStep(u, next)
  <2> SUFFICES ASSUME NEW u \in Known, next.write - u.write < 2 * HalfRange
               PROVE  next.seq = Ahead(u.seq, next.write - u.write)
    BY DEF InStep
  <2> DEFINE d == writes - u.write
  <2>1. u \in Stamp /\ writes \in Nat /\ u.write <= writes
    BY <1>3, <1>5, MaxWritesAssumption DEF WindowInv, WindowTypeOK
  <2>2. d \in 0 .. (2 * HalfRange - 1) /\ next.write - u.write = d + 1
    BY <2>1, HalfRangeAssumption, MaxWritesAssumption DEF Stamp
  <2>3. seq = Ahead(u.seq, d)
    <3>1. InStep(u, last)
      BY <1>3 DEF WindowInv
    <3> QED BY <2>1, <2>2, <3>1, HalfRangeAssumption DEF InStep
  <2> QED BY <2>1, <2>2, <2>3, IncAhead DEF Stamp
<1>7. \A u \in Known : InStep(next, u)
  BY <1>3, <1>5, MaxWritesAssumption DEF InStep, Stamp, WindowInv, WindowTypeOK
<1>8. InStep(next, next)
  BY <1>4, AheadZero, MaxWritesAssumption, HalfRangeAssumption DEF InStep, Stamp
<1>9. \A u, v \in Known' : InStep(u, v)
  BY <1>2, <1>6, <1>7, <1>8 DEF WindowInv
<1>10. \A u \in Known' : u.write <= writes'
  <2>1. writes' = writes + 1 /\ writes \in Nat
    BY MaxWritesAssumption DEF WindowInv, WindowTypeOK, Write
  <2> QED BY <1>2, <1>3, <1>5, <2>1, MaxWritesAssumption DEF Stamp
<1> QED BY <1>1, <1>9, <1>10 DEF WindowInv, InStep

\* A receiver that keeps or loses an update knows of no write it did not.
LEMMA ReceiveStep ==
  ASSUME NEW u \in updates, Keep(u) \/ Drop(u), WindowInv
  PROVE  WindowInv'
<1>1. WindowTypeOK'
  BY MaxWritesAssumption DEF WindowInv, WindowTypeOK, Keep, Drop
<1>2. Known' \subseteq Known
  <2>1. u \in [seq : SeqNums, write : 1 .. MaxWrites]
    BY DEF WindowInv, WindowTypeOK
  <2>2. u = [seq |-> u.seq, write |-> u.write]
    BY <2>1
  <2>3. CASE Keep(u)
    <3>1. held' = u.seq /\ heldWrite' = u.write /\ seq' = seq /\ writes' = writes
      BY <2>3 DEF Keep
    <3>2. updates' \subseteq updates
      BY <2>3 DEF Keep
    <3> QED BY <2>2, <3>1, <3>2 DEF Known
  <2>4. CASE Drop(u)
    BY <2>4 DEF Known, Drop
  <2> QED BY <2>3, <2>4
<1>3. writes' = writes
  BY DEF Keep, Drop
<1> QED BY <1>1, <1>2, <1>3 DEF WindowInv, InStep

\* Every step keeps the numbers in step with the writes.
LEMMA Inductive == WindowInv /\ [WindowNext]_windowVars => WindowInv'
<1> SUFFICES ASSUME WindowInv, [WindowNext]_windowVars PROVE WindowInv'
  OBVIOUS
<1>1. CASE Write
  BY <1>1, WriteStep
<1>2. CASE \E u \in updates : Keep(u) \/ Drop(u)
  BY <1>2, ReceiveStep
<1>3. CASE UNCHANGED windowVars
  BY <1>3 DEF windowVars, WindowInv, WindowTypeOK, Known, InStep
<1> QED BY <1>1, <1>2, <1>3 DEF WindowNext

\* In every reachable state the numbers are in step with the writes.
THEOREM WindowInvariance == WindowSpec => []WindowInv
<1>1. WindowInit => WindowInv
  BY WindowInitially
<1>2. WindowInv /\ [WindowNext]_windowVars => WindowInv'
  BY Inductive
<1> QED BY <1>1, <1>2, PTL DEF WindowSpec

\* The receiver's comparison of numbers orders an update and the value it holds
\* as they were written, if they are less than half the circle apart.
LEMMA InvImpliesOrder == WindowInv => OrderIsWriteOrder
<1> SUFFICES ASSUME WindowInv, NEW u \in updates,
                    u.write - heldWrite < HalfRange, -(u.write - heldWrite) < HalfRange
             PROVE  LET ahead == u.write - heldWrite IN
                    /\ Older(u.seq, held) <=> ahead < 0
                    /\ Newer(u.seq, held) <=> ahead > 0
                    /\ u.seq = held <=> ahead = 0
  BY DEF OrderIsWriteOrder
<1> DEFINE v == [seq |-> held, write |-> heldWrite]
<1>1. u \in Known /\ v \in Known /\ u \in Stamp /\ v \in Stamp
  BY KnownType DEF WindowInv, Known
<1>2. InStep(u, v) /\ InStep(v, u)
  BY <1>1 DEF WindowInv
<1>3. u.write \in Int /\ heldWrite \in Int
  BY <1>1, MaxWritesAssumption DEF Stamp
<1>4. v.write - u.write < HalfRange
  BY <1>3
<1> HIDE DEF v
<1>5. /\ Older(u.seq, v.seq) <=> u.write < v.write
      /\ Newer(u.seq, v.seq) <=> u.write > v.write
      /\ u.seq = v.seq <=> u.write = v.write
  BY <1>1, <1>2, <1>4, InStepOrder, u.write - v.write < HalfRange DEF v
<1> QED BY <1>3, <1>5 DEF v

\* The order of the numbers is the order of the writes.
THEOREM OrderHolds == WindowSpec => []OrderIsWriteOrder
<1>1. WindowSpec => []WindowInv
  BY WindowInvariance
<1>2. WindowInv => OrderIsWriteOrder
  BY InvImpliesOrder
<1> QED BY <1>1, <1>2, PTL

\* A receiver never goes back to an older write, but one half the circle behind.
THEOREM NeverBack == WindowSpec => NeverBackInWindow
<1>1. WindowInv /\ [WindowNext]_windowVars => [heldWrite' < heldWrite => heldWrite - heldWrite' >= HalfRange]_windowVars
  <2> SUFFICES ASSUME WindowInv, WindowNext, heldWrite' < heldWrite
               PROVE  heldWrite - heldWrite' >= HalfRange
    BY DEF windowVars
  <2>0. heldWrite \in Nat
    BY MaxWritesAssumption DEF WindowInv, WindowTypeOK
  <2>1. PICK u \in updates : Keep(u)
    BY <2>0 DEF WindowNext, Write, Drop
  <2>2. heldWrite' = u.write /\ ~ NotNewer(u.seq, held)
    BY <2>1 DEF Keep
  <2>3. u.write \in Nat /\ HalfRange \in Nat
    BY MaxWritesAssumption, HalfRangeAssumption DEF WindowInv, WindowTypeOK
  <2>4. u.write - heldWrite < HalfRange
    BY <2>0, <2>2, <2>3, HalfRangeAssumption
  <2>5. ~ Older(u.seq, held)
    BY <2>2 DEF NotNewer
  <2>6. ASSUME -(u.write - heldWrite) < HalfRange PROVE FALSE
    <3>1. Older(u.seq, held) <=> u.write - heldWrite < 0
      BY <2>4, <2>6, InvImpliesOrder DEF OrderIsWriteOrder
    <3> QED BY <2>0, <2>2, <2>3, <2>5, <3>1
  <2> QED BY <2>0, <2>2, <2>3, <2>6
<1> QED BY <1>1, WindowInvariance, PTL DEF WindowSpec, NeverBackInWindow
-----------------------------------------------------------------------------
(* The file. *)

Busy(s) == saver[s].pc # "idle"

\* No two saves under way have the same file: the server's is Home, a user's is not.
Apart ==
    /\ saver["server"].file = Home
    /\ Busy("user") => saver["user"].file # Home

\* A temporary file that will be moved is complete, and so is all it was moved to.
Whole ==
    /\ \A f \in Files : disk[f]["file"] # Torn /\ disk[f]["bak"] # Torn
    /\ \A s \in Savers :
          saver[s].pc \in {"delete", "backup", "rename"} => FileOf(s)["tmp"] = saver[s].entries

\* What the server saves is the latest version, also after a restart that lost some.
Fresh ==
    /\ dirty \/ Busy("server") => version = clock
    /\ Busy("server") => saver["server"].entries >= saved

\* The file is not older than what was saved, and where it is not there the backup is not.
NeverOld ==
    /\ disk[Home]["file"] # Absent => disk[Home]["file"] >= saved
    /\ disk[Home]["file"] = Absent /\ disk[Home]["bak"] # Absent => disk[Home]["bak"] >= saved

\* Until a crash the file is there, or the backup while it is being replaced.
Kept ==
    saved > 0 /\ crashes = 0 /\ ~ unrestored =>
        \/ disk[Home]["file"] # Absent
        \/ saver["server"].pc \in {"rename", "restore"} /\ disk[Home]["bak"] # Absent

FileInv == FileTypeOK /\ Apart /\ Whole /\ Fresh /\ NeverOld /\ Kept
-----------------------------------------------------------------------------
SaverStates ==
    [pc : {"idle", "open", "write", "delete", "backup", "rename", "restore"},
     file : Files, entries : 0 .. clock]

LEMMA IdleIsASaver ==
    ASSUME clock \in Nat
    PROVE  [s \in Savers |-> Idle] \in [Savers -> SaverStates]
<1>1. 0 \in 0 .. clock
  OBVIOUS
<1>2. Idle \in SaverStates
  BY <1>1, PersistentFileAssumption DEF Idle, SaverStates
<1> QED
  BY <1>2

\* What a failing save leaves has its type.
LEMMA ErrorTypes ==
    ASSUME NEW s \in Savers, FileTypeOK, Error(s)
    PROVE  saver' \in [Savers -> SaverStates] /\ dirty' \in BOOLEAN
<1>1. saver' \in [Savers -> SaverStates]
  BY DEF Error, Step, SaverStates, FileTypeOK
<1>2. dirty' \in BOOLEAN
  BY Zenon DEF Error, FileTypeOK
<1> QED
  BY <1>1, <1>2

LEMMA FileInitially == FileInit => FileInv
<1> SUFFICES ASSUME FileInit PROVE FileInv
  OBVIOUS
<1>1. saver \in [Savers -> SaverStates]
  BY IdleIsASaver DEF FileInit
<1>2. FileTypeOK
  <2>1. disk \in [Files -> [Names -> {Absent, Torn} \cup 0 .. clock]]
    BY DEF FileInit
  <2>2. 0 \in 0 .. MaxVersion /\ 0 \in 0 .. MaxFailures /\ 0 \in 0 .. MaxCrashes
    BY PersistentFileAssumption
  <2>3. version \in 0 .. clock /\ saved \in 0 .. clock
    BY DEF FileInit
  <2> QED
    BY <1>1, <2>1, <2>2, <2>3 DEF FileInit, FileTypeOK, SaverStates
<1>3. Apart /\ Whole /\ Fresh /\ NeverOld /\ Kept
  BY PersistentFileAssumption
     DEF FileInit, Apart, Whole, Fresh, NeverOld, Kept, Busy, Idle, FileOf, Savers, Names,
         Absent, Torn
<1> QED
  BY <1>2, <1>3 DEF FileInv

LEMMA ChangeKeeps ==
    ASSUME FileInv, Change
    PROVE  FileInv'
<1> USE PersistentFileAssumption DEF FileInv, FileTypeOK, FileOf, Savers, Names, Absent, Torn
<1>1. FileTypeOK'
  BY DEF Change, FileTypeOK
<1>2. Apart'
  BY DEF Change, Apart, Busy
<1>3. Whole'
  BY DEF Change, Whole, Apart, Busy
<1>4. Fresh'
  BY DEF Change, Fresh, Apart, Busy
<1>5. NeverOld'
  BY DEF Change, NeverOld, Whole, Fresh, Apart, Busy
<1>6. Kept'
  BY DEF Change, Kept, Apart, Busy
<1> QED
  BY <1>1, <1>2, <1>3, <1>4, <1>5, <1>6

LEMMA CrashKeeps ==
    ASSUME FileInv, Crash
    PROVE  FileInv'
<1> USE PersistentFileAssumption DEF FileInv, FileTypeOK, FileOf, Savers, Names, Absent, Torn
<1>1. FileTypeOK'
  <2>1. saver' \in [Savers -> SaverStates]
    BY IdleIsASaver DEF Crash
  <2>2. version' \in 0 .. clock
    BY DEF Crash, Larger
  <2>3. crashes' \in 0 .. MaxCrashes
    BY DEF Crash
  <2> QED
    BY <2>1, <2>2, <2>3 DEF Crash, SaverStates
<1>2. Apart'
  BY DEF Crash, Idle, Larger, Apart, Busy
<1>3. Whole'
  BY DEF Crash, Idle, Larger, Whole, Apart, Busy
<1>4. Fresh'
  BY DEF Crash, Idle, Larger, Fresh, Apart, Busy
<1>5. NeverOld'
  BY DEF Crash, Idle, Larger, NeverOld, Whole, Fresh, Apart, Busy
<1>6. Kept'
  BY DEF Crash, Idle, Larger, Kept, Apart, Busy
<1> QED
  BY <1>1, <1>2, <1>3, <1>4, <1>5, <1>6

LEMMA BeginKeeps ==
    ASSUME NEW s \in Savers, NEW f \in Files, FileInv, GetPersistentEntries(s, f),
              s = "server" => f = Home, s = "user" => f # Home
    PROVE  FileInv'
<1> USE PersistentFileAssumption DEF FileInv, FileTypeOK, FileOf, Savers, Names, Absent, Torn
<1>1. FileTypeOK'
  BY DEF GetPersistentEntries, Rest, FileTypeOK
<1>2. Apart'
  BY DEF GetPersistentEntries, Rest, Apart, Busy
<1>3. Whole'
  BY DEF GetPersistentEntries, Rest, Whole, Apart, Busy
<1>4. Fresh'
  BY DEF GetPersistentEntries, Rest, Fresh, Apart, Busy
<1>5. NeverOld'
  BY DEF GetPersistentEntries, Rest, NeverOld, Whole, Fresh, Apart, Busy
<1>6. Kept'
  BY DEF GetPersistentEntries, Rest, Kept, Apart, Busy
<1> QED
  BY <1>1, <1>2, <1>3, <1>4, <1>5, <1>6

LEMMA OpenTempKeeps ==
    ASSUME NEW s \in Savers, FileInv, OpenTemp(s)
    PROVE  FileInv'
<1> USE PersistentFileAssumption DEF FileInv, FileTypeOK, FileOf, Savers, Names, Absent, Torn
<1>1. FileTypeOK'
  <2>1. saver' \in [Savers -> SaverStates] /\ dirty' \in BOOLEAN
    <3>1. CASE Error(s)
      BY <3>1, ErrorTypes
    <3>2. CASE ~ Error(s)
      BY <3>2 DEF OpenTemp, Open, Put, Fails, Rest, Step, SaverStates
    <3> QED
      BY <3>1, <3>2
  <2>2. disk' \in [Files -> [Names -> {Absent, Torn} \cup 0 .. clock]]
    BY DEF OpenTemp, Open, Put, Fails, Rest, Step
  <2>3. failures' \in 0 .. MaxFailures
    BY DEF OpenTemp, Open, Put, Fails, Rest, Step
  <2> QED
    BY <2>1, <2>2, <2>3 DEF OpenTemp, Rest, SaverStates
<1>2. Apart'
  BY DEF OpenTemp, Open, Put, Step, Error, Fails, Rest, Apart, Busy
<1>3. Whole'
  BY DEF OpenTemp, Open, Put, Step, Error, Fails, Rest, Whole, Apart, Busy
<1>4. Fresh'
  BY DEF OpenTemp, Open, Put, Step, Error, Fails, Rest, Fresh, Apart, Busy
<1>5. NeverOld'
  BY DEF OpenTemp, Open, Put, Step, Error, Fails, Rest, NeverOld, Whole, Fresh, Apart, Busy
<1>6. Kept'
  BY DEF OpenTemp, Open, Put, Step, Error, Fails, Rest, Kept, Apart, Busy
<1> QED
  BY <1>1, <1>2, <1>3, <1>4, <1>5, <1>6

LEMMA WriteTempKeeps ==
    ASSUME NEW s \in Savers, FileInv, WriteTemp(s)
    PROVE  FileInv'
<1> USE PersistentFileAssumption DEF FileInv, FileTypeOK, FileOf, Savers, Names, Absent, Torn
<1>1. FileTypeOK'
  <2>1. saver' \in [Savers -> SaverStates] /\ dirty' \in BOOLEAN
    <3>1. CASE Error(s)
      BY <3>1, ErrorTypes
    <3>2. CASE ~ Error(s)
      BY <3>2 DEF WriteTemp, Put, Fails, Rest, Step, SaverStates
    <3> QED
      BY <3>1, <3>2
  <2>2. disk' \in [Files -> [Names -> {Absent, Torn} \cup 0 .. clock]]
    BY DEF WriteTemp, Put, Fails, Rest, Step
  <2>3. failures' \in 0 .. MaxFailures
    BY DEF WriteTemp, Put, Fails, Rest, Step
  <2> QED
    BY <2>1, <2>2, <2>3 DEF WriteTemp, Rest, SaverStates
<1>2. Apart'
  BY DEF WriteTemp, Put, Step, Error, Fails, Rest, Apart, Busy
<1>3. Whole'
  BY DEF WriteTemp, Put, Step, Error, Fails, Rest, Whole, Apart, Busy
<1>4. Fresh'
  BY DEF WriteTemp, Put, Step, Error, Fails, Rest, Fresh, Apart, Busy
<1>5. NeverOld'
  BY DEF WriteTemp, Put, Step, Error, Fails, Rest, NeverOld, Whole, Fresh, Apart, Busy
<1>6. Kept'
  BY DEF WriteTemp, Put, Step, Error, Fails, Rest, Kept, Apart, Busy
<1> QED
  BY <1>1, <1>2, <1>3, <1>4, <1>5, <1>6

LEMMA DeleteBackupKeeps ==
    ASSUME NEW s \in Savers, FileInv, DeleteBackup(s)
    PROVE  FileInv'
<1> USE PersistentFileAssumption DEF FileInv, FileTypeOK, FileOf, Savers, Names, Absent, Torn
<1>1. FileTypeOK'
  BY DEF DeleteBackup, Put, Step, Fails, Rest, FileTypeOK
<1>2. Apart'
  BY DEF DeleteBackup, Put, Step, Fails, Rest, Apart, Busy
<1>3. Whole'
  BY DEF DeleteBackup, Put, Step, Fails, Rest, Whole, Apart, Busy
<1>4. Fresh'
  BY DEF DeleteBackup, Put, Step, Fails, Rest, Fresh, Apart, Busy
<1>5. NeverOld'
  BY DEF DeleteBackup, Put, Step, Fails, Rest, NeverOld, Whole, Fresh, Apart, Busy
<1>6. Kept'
  BY DEF DeleteBackup, Put, Step, Fails, Rest, Kept, Apart, Busy
<1> QED
  BY <1>1, <1>2, <1>3, <1>4, <1>5, <1>6

LEMMA BackUpKeeps ==
    ASSUME NEW s \in Savers, FileInv, BackUp(s)
    PROVE  FileInv'
<1> USE PersistentFileAssumption DEF FileInv, FileTypeOK, FileOf, Savers, Names, Absent, Torn
<1>1. FileTypeOK'
  BY DEF BackUp, Movable, Move, Step, Fails, Rest, FileTypeOK
<1>2. Apart'
  BY DEF BackUp, Movable, Move, Step, Fails, Rest, Apart, Busy
<1>3. Whole'
  BY DEF BackUp, Movable, Move, Step, Fails, Rest, Whole, Apart, Busy
<1>4. Fresh'
  BY DEF BackUp, Movable, Move, Step, Fails, Rest, Fresh, Apart, Busy
<1>5. NeverOld'
  BY DEF BackUp, Movable, Move, Step, Fails, Rest, NeverOld, Whole, Fresh, Apart, Busy
<1>6. Kept'
  BY DEF BackUp, Movable, Move, Step, Fails, Rest, Kept, Apart, Busy
<1> QED
  BY <1>1, <1>2, <1>3, <1>4, <1>5, <1>6

LEMMA RenameKeeps ==
    ASSUME NEW s \in Savers, FileInv, Rename(s)
    PROVE  FileInv'
<1> USE PersistentFileAssumption DEF FileInv, FileTypeOK, FileOf, Savers, Names, Absent, Torn
<1>1. FileTypeOK'
  BY DEF Rename, Movable, Move, Step, Fails, Larger, Rest, FileTypeOK
<1>2. Apart'
  BY DEF Rename, Movable, Move, Step, Fails, Larger, Rest, Apart, Busy
<1>3. Whole'
  BY DEF Rename, Movable, Move, Step, Fails, Larger, Rest, Whole, Apart, Busy
<1>4. Fresh'
  BY DEF Rename, Movable, Move, Step, Fails, Larger, Rest, Fresh, Apart, Busy
<1>5. NeverOld'
  BY DEF Rename, Movable, Move, Step, Fails, Larger, Rest, NeverOld, Whole, Fresh, Apart, Busy
<1>6. Kept'
  BY DEF Rename, Movable, Move, Step, Fails, Larger, Rest, Kept, Apart, Busy
<1> QED
  BY <1>1, <1>2, <1>3, <1>4, <1>5, <1>6

LEMMA RestoreKeeps ==
    ASSUME NEW s \in Savers, FileInv, Restore(s)
    PROVE  FileInv'
<1> USE PersistentFileAssumption DEF FileInv, FileTypeOK, FileOf, Savers, Names, Absent, Torn
<1>1. FileTypeOK'
  <2>1. saver' \in [Savers -> SaverStates] /\ dirty' \in BOOLEAN
    BY ErrorTypes DEF Restore
  <2>2. disk' \in [Files -> [Names -> {Absent, Torn} \cup 0 .. clock]]
    BY DEF Restore, Movable, Move
  <2>3. failures' \in 0 .. MaxFailures
    BY DEF Restore, Fails
  <2>4. unrestored' \in BOOLEAN
    BY Zenon DEF Restore
  <2> QED
    BY <2>1, <2>2, <2>3, <2>4 DEF Restore, Rest, SaverStates
<1>2. Apart'
  BY DEF Restore, Movable, Move, Error, Step, Fails, Rest, Apart, Busy
<1>3. Whole'
  BY DEF Restore, Movable, Move, Error, Step, Fails, Rest, Whole, Apart, Busy
<1>4. Fresh'
  BY DEF Restore, Movable, Move, Error, Step, Fails, Rest, Fresh, Apart, Busy
<1>5. NeverOld'
  BY DEF Restore, Movable, Move, Error, Step, Fails, Rest, NeverOld, Whole, Fresh, Apart, Busy
<1>6. Kept'
  <2>1. CASE Fails /\ disk' = disk /\ unrestored' = (unrestored \/ saver[s].file = Home)
    <3>1. CASE s = "server"
      BY <2>1, <3>1, Zenon DEF Kept, Apart
    <3>2. CASE s = "user"
      <4>1. ~ unrestored' => ~ unrestored
        BY <2>1, Zenon
      <4>2. saver'["server"] = saver["server"] /\ saved' = saved /\ crashes' = crashes
        BY <3>2 DEF Restore, Error, Step, Rest
      <4> QED
        BY <2>1, <4>1, <4>2, Zenon DEF Kept
    <3> QED
      BY <3>1, <3>2
  <2>2. CASE Movable(s, "bak", "file") /\ Move(s, "bak", "file")
    BY <2>2 DEF Restore, Movable, Move, Error, Step, Rest, Kept, Apart, Busy
  <2>3. CASE ~ Movable(s, "bak", "file") /\ disk' = disk
    BY <2>3 DEF Restore, Movable, Error, Step, Rest, Kept, Apart, Busy
  <2> QED
    BY <2>1, <2>2, <2>3 DEF Restore
<1> QED
  BY <1>1, <1>2, <1>3, <1>4, <1>5, <1>6

LEMMA StutterKeeps ==
    ASSUME FileInv, UNCHANGED fileVars
    PROVE  FileInv'
<1> USE DEF FileInv, FileOf, Busy, fileVars
<1>1. FileTypeOK' /\ Apart' /\ Whole'
  BY DEF FileTypeOK, Apart, Whole
<1>2. Fresh' /\ NeverOld' /\ Kept'
  BY DEF Fresh, NeverOld, Kept
<1> QED
  BY <1>1, <1>2

LEMMA StepKeeps ==
    ASSUME Home \notin UserFiles, FileInv, [FileNext]_fileVars
    PROVE  FileInv'
<1>1. CASE Change
  BY <1>1, ChangeKeeps
<1>2. CASE Crash
  BY <1>2, CrashKeeps
<1>3. CASE GetPersistentEntries("server", Home)
  BY <1>3, BeginKeeps, PersistentFileAssumption DEF Savers
<1>4. ASSUME NEW file \in UserFiles, GetPersistentEntries("user", file)
      PROVE  FileInv'
  BY <1>4, BeginKeeps, PersistentFileAssumption DEF Savers
<1>5. ASSUME NEW s \in Savers, Save(s)
      PROVE  FileInv'
  <2>1. CASE OpenTemp(s)
    BY <2>1, OpenTempKeeps
  <2>2. CASE WriteTemp(s)
    BY <2>2, WriteTempKeeps
  <2>3. CASE DeleteBackup(s)
    BY <2>3, DeleteBackupKeeps
  <2>4. CASE BackUp(s)
    BY <2>4, BackUpKeeps
  <2>5. CASE Rename(s)
    BY <2>5, RenameKeeps
  <2>6. CASE Restore(s)
    BY <2>6, RestoreKeeps
  <2> QED
    BY <1>5, <2>1, <2>2, <2>3, <2>4, <2>5, <2>6 DEF Save
<1>6. CASE UNCHANGED fileVars
  BY <1>6, StutterKeeps
<1> QED
  BY <1>1, <1>2, <1>3, <1>4, <1>5, <1>6 DEF FileNext

LEMMA FileInvariance ==
    ASSUME Home \notin UserFiles
    PROVE  FileSpec => []FileInv
<1>1. FileInv /\ [FileNext]_fileVars => FileInv'
  BY StepKeeps
<1> QED
  BY FileInitially, <1>1, PTL DEF FileSpec
-----------------------------------------------------------------------------
\* The variables of the saves have their types, in particular no version on any disk is
\* later than the latest there was.
THEOREM FileTypeCorrect ==
    ASSUME Home \notin UserFiles
    PROVE  FileSpec => []FileTypeOK
<1>1. FileInv => FileTypeOK
  BY DEF FileInv
<1> QED
  BY FileInvariance, <1>1, PTL

\* Where the user does not save to the server's file, no file, the user's own included,
\* is ever cut short under its name, whatever fails and whenever the program ends.
THEOREM FileStaysWhole ==
    ASSUME Home \notin UserFiles
    PROVE  FileSpec => []FileIsWhole
<1>1. FileInv => FileIsWhole
  BY DEF FileInv, Whole, FileIsWhole
<1> QED
  BY FileInvariance, <1>1, PTL

\* Until a crash, what was last reported saved, or something later, is under one of the
\* three names of the server's file, unless a backup could not be put back.
THEOREM SavedStaysSomewhere ==
    ASSUME Home \notin UserFiles
    PROVE  FileSpec => []SavedIsSomewhere
<1>1. ASSUME FileInv, saved > 0, crashes = 0, ~ unrestored
      PROVE  \E name \in Names : disk[Home][name] >= saved
  <2>1. CASE disk[Home]["file"] # Absent
    BY <1>1, <2>1 DEF FileInv, NeverOld, Names
  <2>2. CASE disk[Home]["file"] = Absent
    BY <1>1, <2>2 DEF FileInv, NeverOld, Kept, Names
  <2> QED
    BY <2>1, <2>2
<1>2. FileInv => SavedIsSomewhere
  BY <1>1 DEF SavedIsSomewhere
<1> QED
  BY FileInvariance, <1>2, PTL

\* A restart that finds the server's file never finds one older than what was last
\* reported saved.
THEOREM RestartIsLatest ==
    ASSUME Home \notin UserFiles
    PROVE  FileSpec => RestartFindsLatest
<1>1. ASSUME FileInv, Crash
      PROVE  version' >= saved \/ disk[Home]["file"] = Absent
  <2>1. disk[Home]["file"] \in {Absent, Torn} \cup 0 .. clock /\ saved \in 0 .. clock
    BY <1>1, PersistentFileAssumption DEF FileInv, FileTypeOK, Names
  <2> QED
    BY <1>1, <2>1 DEF FileInv, NeverOld, Crash, Larger, Absent, Torn
<1>2. FileInv /\ [FileNext]_fileVars
      => [Crash => version' >= saved \/ disk[Home]["file"] = Absent]_fileVars
  BY <1>1
<1> QED
  BY FileInvariance, <1>2, PTL DEF FileSpec, RestartFindsLatest
-----------------------------------------------------------------------------
(* The flags of one entry. *)

\* What a node's flags will be when it has received all of a stream.
Ends(stream, now) == IF stream = <<>> THEN now ELSE stream[Len(stream)]

\* The caller computes its flags from those it has, which are those it asked for.
CallerKnows(t) ==
    /\ calling[t].pc = "set" => calling[t].flags = asked
    /\ calling[t].pc # "set" => flags[t[1]] = asked
    /\ calling[t].pc = "queue" => calling[t].flags = asked

\* Nothing comes from the nodes that do not call.
OthersSilent(t) ==
    /\ \A u \in Nodes \X Threads : u # t => calling[u].pc = "idle"
    /\ \A c \in Clients : c # t[1] => up[c] = <<>> /\ relay[c] = <<>>

\* The clients other than n will have the server's flags.
ClientsFollow(n) == \A c \in Clients : c # n => Ends(down[c], flags[c]) = flags[Server]

\* What the caller has queued ends with its flags, and what the server passes on ends
\* with the server's: it has queued all but what its reader still holds.
Follow(t) ==
    IF t[1] = Server
    THEN calling[t].pc # "queue" => ClientsFollow(Server)
    ELSE /\ down[t[1]] = <<>>
         /\ calling[t].pc # "queue" => Ends(up[t[1]], flags[Server]) = flags[t[1]]
         /\ IF relay[t[1]] = <<>> THEN ClientsFollow(t[1])
            ELSE relay[t[1]] = <<flags[Server]>>

Alone(t) == CallerKnows(t) /\ OthersSilent(t) /\ Follow(t)

FlagTypes ==
    /\ flags \in [Nodes -> SUBSET KnownFlags]
    /\ calling \in [Nodes \X Threads -> [pc : {"idle", "set", "queue"}, flags : SUBSET KnownFlags]]
    /\ up \in [Clients -> Seq(SUBSET KnownFlags)] /\ down \in [Clients -> Seq(SUBSET KnownFlags)]
    /\ relay \in [Clients -> Seq(SUBSET KnownFlags)]
    /\ callers \subseteq Nodes \X Threads /\ IsFiniteSet(callers)

FlagsInv ==
    /\ FlagTypes
    /\ \A t \in Nodes \X Threads : callers \subseteq {t} => Alone(t)
-----------------------------------------------------------------------------
\* what a stream ends with once more is sent, and once some is received
LEMMA EndsAppend ==
    ASSUME NEW S, NEW s \in Seq(S), NEW x \in S, NEW f PROVE Ends(Append(s, x), f) = x
  BY DEF Ends

LEMMA EndsTail ==
    ASSUME NEW S, NEW s \in Seq(S), s # <<>>, NEW f PROVE Ends(Tail(s), Head(s)) = Ends(s, f)
<1>1. Tail(s) \in Seq(S) /\ Len(Tail(s)) = Len(s) - 1 /\ Len(s) \in Nat \ {0}
  BY EmptySeq
<1>2. \A i \in 1 .. Len(Tail(s)) : Tail(s)[i] = s[i + 1]
  OBVIOUS
<1>3. Head(s) = s[1]
  OBVIOUS
<1>4. Tail(s) = <<>> <=> Len(Tail(s)) = 0
  BY <1>1, EmptySeq
<1>5. CASE Len(s) = 1
  BY <1>1, <1>3, <1>4, <1>5 DEF Ends
<1>6. CASE Len(s) # 1
  <2>1. Len(Tail(s)) \in 1 .. Len(Tail(s)) /\ Tail(s) # <<>>
    BY <1>1, <1>4, <1>6
  <2>2. Tail(s)[Len(Tail(s))] = s[Len(s)]
    BY <1>1, <1>2, <2>1
  <2> QED BY <2>1, <2>2 DEF Ends
<1> QED BY <1>5, <1>6

LEMMA FlagsInitially == FlagsInit => FlagsInv
<1> SUFFICES ASSUME FlagsInit PROVE FlagsInv
  OBVIOUS
<1>1. FlagTypes
  BY FS_EmptySet DEF FlagsInit, FlagTypes, NotCalling
<1>2. ASSUME NEW t \in Nodes \X Threads PROVE Alone(t)
  <2>1. t[1] \in Nodes
    OBVIOUS
  <2>2. CallerKnows(t) /\ OthersSilent(t)
    BY <2>1 DEF FlagsInit, CallerKnows, OthersSilent, NotCalling
  <2>3. Follow(t)
    BY <2>1 DEF FlagsInit, Follow, ClientsFollow, Ends, Nodes
  <2> QED BY <2>2, <2>3 DEF Alone
<1> QED BY <1>1, <1>2 DEF FlagsInv

\* the flags that a call computes are of those there are
LEMMA ApplyType ==
    ASSUME NEW op, NEW have \in SUBSET KnownFlags, NEW flag \in KnownFlags
    PROVE ApplyFlags(op, have, flag) \in SUBSET KnownFlags
  BY DEF ApplyFlags

LEMMA FlagsGet ==
    ASSUME FlagsInv, NEW u \in Nodes \X Threads, NEW op \in Ops, NEW flag \in KnownFlags,
           GetEntryFlags(u, op, flag)
    PROVE FlagsInv'
<1>0. FlagTypes /\ u[1] \in Nodes
  BY DEF FlagsInv
<1> DEFINE computed == ApplyFlags(op, flags[u[1]], flag)
<1>1. computed \in SUBSET KnownFlags
  BY <1>0, ApplyType DEF FlagTypes
<1>2. calling' = [calling EXCEPT ![u] = [pc |-> "set", flags |-> computed]]
  BY DEF GetEntryFlags
<1>3. asked' = ApplyFlags(op, asked, flag) /\ callers' = callers \cup {u} /\ calling[u].pc = "idle"
  BY DEF GetEntryFlags
<1>4. UNCHANGED <<flags, up, down, relay>>
  BY DEF GetEntryFlags
<1>5. FlagTypes'
  <2>1. calling' \in [Nodes \X Threads -> [pc : {"idle", "set", "queue"}, flags : SUBSET KnownFlags]]
    BY <1>0, <1>1, <1>2 DEF FlagTypes
  <2>2. callers' \subseteq Nodes \X Threads /\ IsFiniteSet(callers')
    BY <1>0, <1>3, FS_AddElement DEF FlagTypes
  <2> QED BY <1>0, <1>4, <2>1, <2>2 DEF FlagTypes
<1>6. ASSUME NEW t \in Nodes \X Threads, callers' \subseteq {t} PROVE Alone(t)'
  <2>1. u = t /\ callers \subseteq {t}
    BY <1>3, <1>6
  <2>2. Alone(t)
    BY <2>1 DEF FlagsInv
  <2>3. calling'[t] = [pc |-> "set", flags |-> computed] /\ flags[t[1]] = asked
    BY <1>0, <1>2, <1>3, <2>1, <2>2 DEF Alone, CallerKnows, FlagTypes
  <2>4. computed = asked'
    BY <1>3, <2>1, <2>3
  <2>5. CallerKnows(t)'
    BY <2>3, <2>4 DEF CallerKnows
  <2>6. OthersSilent(t)'
    BY <1>0, <1>2, <1>4, <2>1, <2>2 DEF Alone, OthersSilent, FlagTypes
  <2>7. Follow(t)'
    <3>1. calling[t].pc # "queue"
      BY <1>3, <2>1
    <3> QED BY <1>4, <2>2, <3>1 DEF Alone, Follow, ClientsFollow
  <2> QED BY <2>5, <2>6, <2>7 DEF Alone
<1> QED BY <1>5, <1>6 DEF FlagsInv

LEMMA FlagsSet ==
    ASSUME FlagsInv, NEW u \in Nodes \X Threads, SetEntryFlags(u)
    PROVE FlagsInv'
<1>0. FlagTypes /\ u[1] \in Nodes
  BY DEF FlagsInv
<1>1. PICK c \in [pc : {"idle", "set", "queue"}, flags : SUBSET KnownFlags] : c = calling[u]
  BY <1>0 DEF FlagTypes
<1>2. c.pc = "set" /\ c.flags \in SUBSET KnownFlags
  BY <1>1 DEF SetEntryFlags
<1>3. flags' = [flags EXCEPT ![u[1]] = c.flags] /\ UNCHANGED <<up, down, relay, callers, asked>>
  BY <1>1 DEF SetEntryFlags
<1>4. PICK d \in [pc : {"idle", "set", "queue"}, flags : SUBSET KnownFlags] :
        /\ calling' = [calling EXCEPT ![u] = d]
        /\ \/ flags[u[1]] = c.flags /\ d.pc = "idle"
           \/ flags[u[1]] # c.flags /\ d.pc = "queue" /\ d.flags = c.flags
  <2>1. CASE flags[u[1]] = c.flags
    <3>1. calling' = [calling EXCEPT ![u] = NotCalling]
      BY <1>1, <2>1 DEF SetEntryFlags
    <3>2. NotCalling \in [pc : {"idle", "set", "queue"}, flags : SUBSET KnownFlags] /\ NotCalling.pc = "idle"
      BY DEF NotCalling
    <3> QED BY <2>1, <3>1, <3>2
  <2>2. CASE flags[u[1]] # c.flags
    <3>1. calling' = [calling EXCEPT ![u] = [c EXCEPT !.pc = "queue"]]
      BY <1>1, <2>2 DEF SetEntryFlags
    <3>2. /\ [c EXCEPT !.pc = "queue"] \in [pc : {"idle", "set", "queue"}, flags : SUBSET KnownFlags]
          /\ [c EXCEPT !.pc = "queue"].pc = "queue" /\ [c EXCEPT !.pc = "queue"].flags = c.flags
      OBVIOUS
    <3> QED BY <2>2, <3>1, <3>2
  <2> QED BY <2>1, <2>2
<1>5. FlagTypes'
  BY <1>0, <1>2, <1>3, <1>4 DEF FlagTypes
<1>6. ASSUME NEW t \in Nodes \X Threads, callers' \subseteq {t} PROVE Alone(t)'
  <2>1. Alone(t)
    BY <1>3, <1>6 DEF FlagsInv
  <2>2. u = t
    BY <1>1, <1>2, <2>1 DEF Alone, OthersSilent
  <2>3. c.flags = asked /\ flags'[t[1]] = asked
    BY <1>0, <1>1, <1>2, <1>3, <2>1, <2>2 DEF Alone, CallerKnows, FlagTypes
  <2>4. calling'[t] = d
    BY <1>0, <1>4, <2>2 DEF FlagTypes
  <2>5. CallerKnows(t)'
    BY <1>3, <1>4, <2>3, <2>4 DEF CallerKnows
  <2>6. OthersSilent(t)'
    BY <1>0, <1>3, <1>4, <2>1, <2>2 DEF Alone, OthersSilent, FlagTypes
  <2>7. Follow(t)'
    <3>1. CASE d.pc = "queue"
      <4>1. calling'[t].pc = "queue"
        BY <2>4, <3>1
      <4>2. CASE t[1] = Server
        BY <4>1, <4>2 DEF Follow
      <4>3. CASE t[1] # Server
        <5>1. flags'[Server] = flags[Server] /\ \A k \in Clients : k # t[1] => flags'[k] = flags[k]
          BY <1>0, <1>3, <2>2, <4>3 DEF FlagTypes, Nodes
        <5>2. ClientsFollow(t[1]) => ClientsFollow(t[1])'
          BY <1>3, <5>1 DEF ClientsFollow
        <5> QED BY <1>3, <2>1, <4>1, <4>3, <5>1, <5>2 DEF Alone, Follow
      <4> QED BY <4>2, <4>3
    <3>2. CASE d.pc # "queue"
      <4>1. flags' = flags
        BY <1>0, <1>3, <1>4, <3>2 DEF FlagTypes
      <4>2. calling[t].pc # "queue"
        BY <1>1, <1>2, <2>2
      <4> QED BY <1>3, <2>1, <4>1, <4>2 DEF Alone, Follow, ClientsFollow
    <3> QED BY <3>1, <3>2
  <2> QED BY <2>5, <2>6, <2>7 DEF Alone
<1> QED BY <1>5, <1>6 DEF FlagsInv

LEMMA FlagsQueue ==
    ASSUME FlagsInv, NEW u \in Nodes \X Threads, QueueFlags(u)
    PROVE FlagsInv'
<1>0. FlagTypes /\ u[1] \in Nodes
  BY DEF FlagsInv
<1>1. PICK c \in [pc : {"idle", "set", "queue"}, flags : SUBSET KnownFlags] : c = calling[u]
  BY <1>0 DEF FlagTypes
<1>2. c.pc = "queue" /\ c.flags \in SUBSET KnownFlags
  BY <1>1 DEF QueueFlags
<1>3. UNCHANGED <<flags, relay, callers, asked>> /\ calling' = [calling EXCEPT ![u] = NotCalling]
  BY DEF QueueFlags
<1>4. \/ /\ u[1] = Server /\ up' = up
         /\ down' = [k \in Clients |-> Append(down[k], c.flags)]
      \/ /\ u[1] # Server /\ u[1] \in Clients /\ down' = down
         /\ up' = [up EXCEPT ![u[1]] = Append(up[u[1]], c.flags)]
  BY <1>0, <1>1 DEF QueueFlags, Broadcast, Nodes, FlagTypes
<1>5. FlagTypes'
  <2>1. calling' \in [Nodes \X Threads -> [pc : {"idle", "set", "queue"}, flags : SUBSET KnownFlags]]
    BY <1>0, <1>3 DEF FlagTypes, NotCalling
  <2>2. /\ up' \in [Clients -> Seq(SUBSET KnownFlags)]
        /\ down' \in [Clients -> Seq(SUBSET KnownFlags)]
    <3>1. \A k \in Clients : Append(down[k], c.flags) \in Seq(SUBSET KnownFlags)
      BY <1>0, <1>2 DEF FlagTypes
    <3>2. \A k \in Clients : Append(up[k], c.flags) \in Seq(SUBSET KnownFlags)
      BY <1>0, <1>2 DEF FlagTypes
    <3>3. CASE up' = up /\ down' = [k \in Clients |-> Append(down[k], c.flags)]
      BY <1>0, <3>1, <3>3 DEF FlagTypes
    <3>4. CASE /\ u[1] \in Clients /\ down' = down
               /\ up' = [up EXCEPT ![u[1]] = Append(up[u[1]], c.flags)]
      BY <1>0, <3>2, <3>4 DEF FlagTypes
    <3> QED BY <1>4, <3>3, <3>4
  <2> QED BY <1>0, <1>3, <2>1, <2>2 DEF FlagTypes
<1>6. ASSUME NEW t \in Nodes \X Threads, callers' \subseteq {t} PROVE Alone(t)'
  <2>1. Alone(t)
    BY <1>3, <1>6 DEF FlagsInv
  <2>2. u = t
    BY <1>1, <1>2, <2>1 DEF Alone, OthersSilent
  <2>3. c.flags = asked /\ flags[t[1]] = asked
    BY <1>1, <1>2, <2>1, <2>2 DEF Alone, CallerKnows
  <2>4. calling'[t].pc = "idle"
    BY <1>0, <1>3, <2>2 DEF FlagTypes, NotCalling
  <2>5. CallerKnows(t)'
    BY <1>3, <2>3, <2>4 DEF CallerKnows
  <2>6. OthersSilent(t)'
    <3>1. \A v \in Nodes \X Threads : v # t => calling'[v] = calling[v]
      BY <1>0, <1>3, <2>2 DEF FlagTypes
    <3>2. \A k \in Clients : k # t[1] => up'[k] = up[k]
      BY <1>0, <1>4, <2>2 DEF FlagTypes
    <3> QED BY <1>3, <2>1, <3>1, <3>2 DEF Alone, OthersSilent
  <2>7. Follow(t)'
    <3>1. CASE u[1] = Server
      <4>1. \A k \in Clients : Ends(down'[k], flags'[k]) = c.flags
        <5> TAKE k \in Clients
        <5>1. down'[k] = Append(down[k], c.flags) /\ down[k] \in Seq(SUBSET KnownFlags)
          BY <1>0, <1>4, <3>1 DEF FlagTypes
        <5> QED BY <1>2, <5>1, EndsAppend
      <4>2. c.flags = flags'[Server]
        BY <1>3, <2>2, <2>3, <3>1
      <4>3. ClientsFollow(Server)'
        BY <4>1, <4>2 DEF ClientsFollow
      <4> QED BY <2>2, <3>1, <4>3 DEF Follow
    <3>2. CASE u[1] # Server
      <4>1. u[1] \in Clients /\ down' = down
            /\ up' = [up EXCEPT ![u[1]] = Append(up[u[1]], c.flags)]
        BY <1>4, <3>2
      <4>2. up'[u[1]] = Append(up[u[1]], c.flags) /\ up[u[1]] \in Seq(SUBSET KnownFlags)
        BY <1>0, <4>1 DEF FlagTypes
      <4>3. Ends(up'[u[1]], flags'[Server]) = flags'[u[1]]
        <5>1. Ends(up'[u[1]], flags'[Server]) = c.flags
          BY <1>2, <4>2, EndsAppend
        <5> QED BY <1>3, <2>2, <2>3, <5>1
      <4>4. ClientsFollow(t[1]) => ClientsFollow(t[1])'
        BY <1>3, <4>1 DEF ClientsFollow
      <4> QED BY <1>3, <2>1, <2>2, <3>2, <4>1, <4>3, <4>4 DEF Alone, Follow
    <3> QED BY <3>1, <3>2
  <2> QED BY <2>5, <2>6, <2>7 DEF Alone
<1> QED BY <1>5, <1>6 DEF FlagsInv

LEMMA FlagsClientReceives ==
    ASSUME FlagsInv, NEW c \in Clients, ClientReceives(c)
    PROVE FlagsInv'
<1>0. FlagTypes /\ c \in Nodes /\ Server \in Nodes /\ c # Server
  BY EntryFlagsAssumption DEF FlagsInv, Nodes
<1>1. /\ down[c] # <<>> /\ down[c] \in Seq(SUBSET KnownFlags)
      /\ Head(down[c]) \in SUBSET KnownFlags /\ Tail(down[c]) \in Seq(SUBSET KnownFlags)
  BY <1>0 DEF ClientReceives, FlagTypes
<1>2. /\ flags' = [flags EXCEPT ![c] = Head(down[c])] /\ down' = [down EXCEPT ![c] = Tail(down[c])]
      /\ UNCHANGED <<calling, up, relay, callers, asked>>
  BY DEF ClientReceives
<1>3. FlagTypes'
  BY <1>0, <1>1, <1>2 DEF FlagTypes
<1>4. ASSUME NEW t \in Nodes \X Threads, callers' \subseteq {t} PROVE Alone(t)'
  <2>1. Alone(t)
    BY <1>2, <1>4 DEF FlagsInv
  <2>2. t[1] # c
    BY <1>0, <1>1, <2>1 DEF Alone, Follow
  <2>3. flags'[t[1]] = flags[t[1]] /\ flags'[Server] = flags[Server] /\ t[1] \in Nodes
    BY <1>0, <1>2, <2>2 DEF FlagTypes
  <2>4. CallerKnows(t)' /\ OthersSilent(t)'
    BY <1>2, <2>1, <2>3 DEF Alone, CallerKnows, OthersSilent
  <2>5. \A k \in Clients : Ends(down'[k], flags'[k]) = Ends(down[k], flags[k])
    <3> TAKE k \in Clients
    <3>1. CASE k = c
      <4>1. down'[k] = Tail(down[k]) /\ flags'[k] = Head(down[k])
        BY <1>0, <1>2, <3>1 DEF FlagTypes
      <4> QED BY <1>1, <3>1, <4>1, EndsTail
    <3>2. CASE k # c
      BY <1>0, <1>2, <3>2 DEF FlagTypes, Nodes
    <3> QED BY <3>1, <3>2
  <2>6. ASSUME NEW n, ClientsFollow(n) PROVE ClientsFollow(n)'
    BY <2>3, <2>5, <2>6 DEF ClientsFollow
  <2>7. t[1] # Server => down'[t[1]] = down[t[1]]
    BY <1>0, <1>2, <2>2, <2>3 DEF FlagTypes, Nodes
  <2>8. Follow(t)'
    BY <1>2, <2>1, <2>3, <2>6, <2>7 DEF Alone, Follow
  <2> QED BY <2>4, <2>8 DEF Alone
<1> QED BY <1>3, <1>4 DEF FlagsInv

\* what the server's reader receives is of the caller's node
LEMMA FlagsServerReceives ==
    ASSUME FlagsInv, NEW c \in Clients, ServerReceives(c)
    PROVE FlagsInv'
<1>0. FlagTypes /\ c \in Nodes /\ Server \in Nodes /\ c # Server /\ Server \notin Clients
  BY EntryFlagsAssumption DEF FlagsInv, Nodes
<1>1. PICK x \in SUBSET KnownFlags : x = Head(up[c])
  BY <1>0 DEF ServerReceives, FlagTypes
<1>2. /\ up[c] # <<>> /\ up[c] \in Seq(SUBSET KnownFlags) /\ Tail(up[c]) \in Seq(SUBSET KnownFlags)
      /\ relay[c] = <<>>
  BY <1>0 DEF ServerReceives, FlagTypes
<1>3. PICK r \in Seq(SUBSET KnownFlags) :
        /\ relay' = [relay EXCEPT ![c] = r]
        /\ \/ flags[Server] = x /\ r = <<>>
           \/ flags[Server] # x /\ r = <<x>>
  <2>0. <<>> \in Seq(SUBSET KnownFlags) /\ <<x>> \in Seq(SUBSET KnownFlags)
    OBVIOUS
  <2>1. CASE flags[Server] = x
    <3>1. relay' = [relay EXCEPT ![c] = <<>>]
      BY <1>1, <2>1 DEF ServerReceives
    <3> QED BY <2>0, <2>1, <3>1
  <2>2. CASE flags[Server] # x
    <3>1. relay' = [relay EXCEPT ![c] = <<x>>]
      BY <1>1, <2>2 DEF ServerReceives
    <3> QED BY <2>0, <2>2, <3>1
  <2> QED BY <2>1, <2>2
<1>4. /\ flags' = [flags EXCEPT ![Server] = x] /\ up' = [up EXCEPT ![c] = Tail(up[c])]
      /\ UNCHANGED <<calling, down, callers, asked>>
  BY <1>1 DEF ServerReceives
<1>5. FlagTypes'
  BY <1>0, <1>2, <1>3, <1>4 DEF FlagTypes
<1>6. ASSUME NEW t \in Nodes \X Threads, callers' \subseteq {t} PROVE Alone(t)'
  <2>1. Alone(t)
    BY <1>4, <1>6 DEF FlagsInv
  <2>2. t[1] = c
    BY <1>2, <2>1 DEF Alone, OthersSilent
  <2>3. flags'[c] = flags[c] /\ flags'[Server] = x /\ \A k \in Clients : flags'[k] = flags[k]
    BY <1>0, <1>4 DEF FlagTypes, Nodes
  <2>4. CallerKnows(t)'
    BY <1>4, <2>1, <2>2, <2>3 DEF Alone, CallerKnows
  <2>5. OthersSilent(t)'
    BY <1>0, <1>3, <1>4, <2>1, <2>2 DEF Alone, OthersSilent, FlagTypes
  <2>6. relay'[c] = r /\ up'[c] = Tail(up[c])
    BY <1>0, <1>3, <1>4 DEF FlagTypes
  <2>7. Ends(up'[c], flags'[Server]) = Ends(up[c], flags[Server])
    BY <1>1, <1>2, <2>3, <2>6, EndsTail
  <2>8. r = <<>> => ClientsFollow(c)'
    <3> SUFFICES ASSUME r = <<>> PROVE ClientsFollow(c)'
      OBVIOUS
    <3>1. flags[Server] = x
      BY <1>3
    <3>2. ClientsFollow(c)
      BY <1>0, <1>2, <2>1, <2>2 DEF Alone, Follow
    <3> QED BY <1>4, <2>3, <3>1, <3>2 DEF ClientsFollow
  <2>9. r # <<>> => r = <<flags'[Server]>>
    BY <1>3, <2>3
  <2>10. Follow(t)'
    BY <1>0, <1>4, <2>1, <2>2, <2>3, <2>6, <2>7, <2>8, <2>9 DEF Alone, Follow
  <2> QED BY <2>4, <2>5, <2>10 DEF Alone
<1> QED BY <1>5, <1>6 DEF FlagsInv

LEMMA FlagsServerRelays ==
    ASSUME FlagsInv, NEW c \in Clients, ServerRelays(c)
    PROVE FlagsInv'
<1>0. FlagTypes /\ c \in Nodes /\ Server \in Nodes /\ c # Server /\ Server \notin Clients
  BY EntryFlagsAssumption DEF FlagsInv, Nodes
<1>1. PICK x \in SUBSET KnownFlags : x = Head(relay[c])
  BY <1>0 DEF ServerRelays, FlagTypes
<1>2. /\ relay[c] # <<>> /\ relay' = [relay EXCEPT ![c] = <<>>]
      /\ down' = [k \in Clients |-> IF k \in Clients \ {c} THEN Append(down[k], x) ELSE down[k]]
      /\ UNCHANGED <<flags, calling, up, callers, asked>>
  BY <1>1 DEF ServerRelays, Broadcast
<1>3. FlagTypes'
  <2>1. \A k \in Clients : Append(down[k], x) \in Seq(SUBSET KnownFlags) /\ down[k] \in Seq(SUBSET KnownFlags)
    BY <1>0 DEF FlagTypes
  <2>2. down' \in [Clients -> Seq(SUBSET KnownFlags)]
    BY <1>2, <2>1
  <2> QED BY <1>0, <1>2, <2>2 DEF FlagTypes
<1>4. ASSUME NEW t \in Nodes \X Threads, callers' \subseteq {t} PROVE Alone(t)'
  <2>1. Alone(t)
    BY <1>2, <1>4 DEF FlagsInv
  <2>2. t[1] = c
    BY <1>2, <2>1 DEF Alone, OthersSilent
  <2>3. CallerKnows(t)'
    BY <1>2, <2>1 DEF Alone, CallerKnows
  <2>4. OthersSilent(t)'
    BY <1>0, <1>2, <2>1, <2>2 DEF Alone, OthersSilent, FlagTypes
  <2>5. relay'[c] = <<>> /\ down'[c] = down[c]
    BY <1>0, <1>2 DEF FlagTypes
  <2>6. relay[c] = <<flags[Server]>>
    BY <1>0, <1>2, <2>1, <2>2 DEF Alone, Follow
  <2>7. x = flags'[Server]
    BY <1>1, <1>2, <2>6
  <2>8. ClientsFollow(c)'
    <3> SUFFICES ASSUME NEW k \in Clients, k # c PROVE Ends(down'[k], flags'[k]) = flags'[Server]
      BY DEF ClientsFollow
    <3>1. down'[k] = Append(down[k], x) /\ down[k] \in Seq(SUBSET KnownFlags)
      BY <1>0, <1>2 DEF FlagTypes
    <3> QED BY <2>7, <3>1, EndsAppend
  <2>9. Follow(t)'
    BY <1>0, <1>2, <2>1, <2>2, <2>5, <2>8 DEF Alone, Follow
  <2> QED BY <2>3, <2>4, <2>9 DEF Alone
<1> QED BY <1>3, <1>4 DEF FlagsInv

LEMMA FlagsStep == FlagsInv /\ [FlagsNext]_flagsVars => FlagsInv'
<1> SUFFICES ASSUME FlagsInv, [FlagsNext]_flagsVars PROVE FlagsInv'
  OBVIOUS
<1>1. CASE UNCHANGED flagsVars
  <2>1. UNCHANGED <<flags, calling, up, down, relay, callers, asked>>
    BY <1>1 DEF flagsVars
  <2>2. FlagTypes'
    BY <2>1 DEF FlagsInv, FlagTypes
  <2>3. ASSUME NEW t, Alone(t) PROVE Alone(t)'
    <3>1. CallerKnows(t)' /\ OthersSilent(t)'
      BY <2>1, <2>3 DEF Alone, CallerKnows, OthersSilent
    <3>2. ASSUME NEW n, ClientsFollow(n) PROVE ClientsFollow(n)'
      BY <2>1, <3>2 DEF ClientsFollow
    <3>3. Follow(t)'
      BY <2>1, <2>3, <3>2 DEF Alone, Follow
    <3> QED BY <3>1, <3>3 DEF Alone
  <2> QED BY <2>1, <2>2, <2>3 DEF FlagsInv
<1>2. ASSUME NEW u \in Nodes \X Threads,
             \/ \E op \in Ops, flag \in KnownFlags : GetEntryFlags(u, op, flag)
             \/ SetEntryFlags(u) \/ QueueFlags(u)
      PROVE FlagsInv'
  BY <1>2, FlagsGet, FlagsSet, FlagsQueue
<1>3. ASSUME NEW c \in Clients, ClientReceives(c) \/ ServerReceives(c) \/ ServerRelays(c)
      PROVE FlagsInv'
  BY <1>3, FlagsClientReceives, FlagsServerReceives, FlagsServerRelays
<1> QED BY <1>1, <1>2, <1>3 DEF FlagsNext

\* If one thread of one node made every call of SetFlags and ClearFlags, all nodes end
\* up with the flags it asked for, whatever was on its way when it called again, for
\* every number of clients, of threads, flags and calls (Storage.cs:336-370, 778-813).
THEOREM OneCallerDecidesHolds == FlagsSpec => []OneCallerDecides
<1>1. FlagsInv => OneCallerDecides
  <2> SUFFICES ASSUME FlagsInv, Quiet, Cardinality(callers) <= 1, NEW n \in Nodes
               PROVE flags[n] = asked
    BY DEF OneCallerDecides
  <2>1. PICK u \in Nodes \X Threads : callers \subseteq {u}
    <3>1. callers \subseteq Nodes \X Threads /\ IsFiniteSet(callers) /\ Cardinality(callers) \in Nat
      BY FS_CardinalityType DEF FlagsInv, FlagTypes
    <3>2. CASE Cardinality(callers) = 0
      <4>1. callers = {}
        BY <3>1, <3>2, FS_EmptySet
      <4>2. PICK th \in Threads : TRUE
        BY EntryFlagsAssumption
      <4>3. <<n, th>> \in Nodes \X Threads
        OBVIOUS
      <4> QED BY <4>1, <4>3
    <3>3. CASE Cardinality(callers) = 1
      BY <3>1, <3>3, FS_Singleton
    <3> QED BY <3>1, <3>2, <3>3
  <2>2. Alone(u)
    BY <2>1 DEF FlagsInv
  <2>3. calling[u].pc = "idle" /\ u[1] \in Nodes
    BY DEF Quiet
  <2>4. flags[u[1]] = asked
    BY <2>2, <2>3 DEF Alone, CallerKnows
  <2>5. \A c \in Clients : up[c] = <<>> /\ down[c] = <<>> /\ relay[c] = <<>>
    BY DEF Quiet
  <2>6. \A k, f : k \in Clients => Ends(down[k], f) = f /\ Ends(up[k], f) = f
    BY <2>5 DEF Ends
  <2>7. flags[Server] = asked /\ ClientsFollow(u[1])
    BY <2>2, <2>3, <2>4, <2>5, <2>6 DEF Alone, Follow, Nodes
  <2> QED BY <2>4, <2>6, <2>7 DEF ClientsFollow, Nodes
<1> QED BY <1>1, FlagsInitially, FlagsStep, PTL DEF FlagsSpec
-----------------------------------------------------------------------------
(* The dashboard's subtables. *)

\* what the listener was notified of is posted to the UI thread, or has its view
SubTablesInv ==
    /\ there \subseteq Tables /\ notices \in Seq(Tables) /\ posts \in Seq(Tables)
    /\ notified \subseteq views \cup ToSet(posts)
    /\ NothingElseMissed

\* the members of a sequence that is added to, and of one without its first
LEMMA MembersAppend ==
    ASSUME NEW S, NEW s \in Seq(S), NEW x \in S PROVE ToSet(Append(s, x)) = ToSet(s) \cup {x}
<1>1. DOMAIN s = 1 .. Len(s) /\ Len(s) \in Nat
  OBVIOUS
<1>2. DOMAIN Append(s, x) = 1 .. Len(s) + 1
  BY <1>1
<1>3. /\ \A i \in 1 .. Len(s) : Append(s, x)[i] = s[i]
      /\ Append(s, x)[Len(s) + 1] = x
  OBVIOUS
<1> QED BY <1>1, <1>2, <1>3 DEF ToSet

LEMMA MembersTail ==
    ASSUME NEW S, NEW s \in Seq(S), s # <<>> PROVE ToSet(s) = ToSet(Tail(s)) \cup {Head(s)}
<1>1. DOMAIN s = 1 .. Len(s) /\ Len(s) \in Nat \ {0}
  BY EmptySeq
<1>2. Tail(s) \in Seq(S) /\ Len(Tail(s)) = Len(s) - 1 /\ DOMAIN Tail(s) = 1 .. Len(s) - 1
  BY <1>1
<1>3. /\ \A i \in 1 .. Len(s) - 1 : Tail(s)[i] = s[i + 1]
      /\ Head(s) = s[1]
  BY <1>1
<1>4. \A i \in 2 .. Len(s) : i - 1 \in 1 .. Len(s) - 1 /\ Tail(s)[i - 1] = s[i]
  BY <1>1, <1>3
<1>5. ToSet(s) \subseteq ToSet(Tail(s)) \cup {Head(s)}
  <2> SUFFICES ASSUME NEW i \in 1 .. Len(s) PROVE s[i] \in ToSet(Tail(s)) \cup {Head(s)}
    BY <1>1 DEF ToSet
  <2>1. i = 1 \/ i \in 2 .. Len(s)
    BY <1>1
  <2> QED BY <1>2, <1>3, <1>4, <2>1 DEF ToSet
<1>6. ToSet(Tail(s)) \cup {Head(s)} \subseteq ToSet(s)
  BY <1>1, <1>2, <1>3 DEF ToSet
<1> QED BY <1>5, <1>6

LEMMA SubTablesInitially == SubTablesInit => SubTablesInv
  BY DEF SubTablesInit, SubTablesInv, NothingElseMissed

LEMMA AssignKeeps ==
    ASSUME SubTablesInv, NEW t \in Tables, RemoteAssign(t) \/ LocalAssign(t) PROVE SubTablesInv'
<1>1. there' = there \cup {t} /\ UNCHANGED <<ui, found, notified, posts, views>>
  BY DEF RemoteAssign, LocalAssign, AssignUnchanged
<1>2. /\ notices \in Seq(Tables) /\ Append(notices, t) \in Seq(Tables)
      /\ ToSet(Append(notices, t)) = ToSet(notices) \cup {t}
  BY MembersAppend DEF SubTablesInv
<1>3. \/ notices' = notices /\ (ui = "list" \/ t \in missed' \/ (t \in there /\ missed' = missed))
      \/ notices' = Append(notices, t)
  BY DEF RemoteAssign, LocalAssign
<1>4. notices' \in Seq(Tables) /\ ToSet(notices) \subseteq ToSet(notices')
  BY <1>2, <1>3
<1>5. \A u \in there : u # t => (u \in missed => u \in missed')
  BY DEF RemoteAssign, LocalAssign
<1>6. ui # "list" => t \in views \cup found \cup ToSet(notices') \cup ToSet(posts) \cup missed'
  BY <1>2, <1>3 DEF SubTablesInv, NothingElseMissed
<1>7. NothingElseMissed'
  BY <1>1, <1>4, <1>5, <1>6 DEF SubTablesInv, NothingElseMissed
<1> QED BY <1>1, <1>4, <1>7 DEF SubTablesInv

LEMMA UiThreadKeeps ==
    ASSUME SubTablesInv, UiThread PROVE SubTablesInv'
<1>1. CASE GetSubTables
  BY <1>1 DEF SubTablesInv, NothingElseMissed, GetSubTables, UiUnchanged
<1>2. CASE InitCurrentSubTables
  <2>1. views \subseteq views' /\ views \cup found = views' \cup found'
    BY <1>2 DEF InitCurrentSubTables, AddProcessorOptions
  <2>2. UNCHANGED <<there, notices, posts, notified, missed>> /\ ui # "list"
    BY <1>2 DEF InitCurrentSubTables, UiUnchanged
  <2> QED BY <2>1, <2>2 DEF SubTablesInv, NothingElseMissed
<1>3. CASE AddSubTableListener \/ StartNotifier
  <2>1. UNCHANGED <<there, notices, posts, found, views, missed>> /\ ui # "list"
    BY <1>3 DEF AddSubTableListener, StartNotifier, UiUnchanged
  <2>2. notified' \subseteq notified
    BY <1>3 DEF AddSubTableListener, StartNotifier
  <2> QED BY <2>1, <2>2 DEF SubTablesInv, NothingElseMissed
<1>4. CASE RunPost
  <2>1. /\ views' = views \cup {Head(posts)} /\ posts # <<>> /\ posts' = Tail(posts)
        /\ UNCHANGED <<there, ui, found, notices, notified, missed>>
    BY <1>4 DEF RunPost, AddProcessorOptions
  <2>2. posts' \in Seq(Tables) /\ ToSet(posts) = ToSet(posts') \cup {Head(posts)}
    BY <2>1, MembersTail DEF SubTablesInv
  <2> QED BY <2>1, <2>2 DEF SubTablesInv, NothingElseMissed
<1> QED BY <1>1, <1>2, <1>3, <1>4 DEF UiThread

LEMMA NotifyEntriesKeeps ==
    ASSUME SubTablesInv, NotifyEntries PROVE SubTablesInv'
<1> DEFINE t == Head(notices)
<1>1. /\ notices # <<>> /\ notices' = Tail(notices)
      /\ UNCHANGED <<there, ui, found, views>>
  BY DEF NotifyEntries, NotifyUnchanged
<1>2. notices' \in Seq(Tables) /\ t \in Tables /\ ToSet(notices) = ToSet(notices') \cup {t}
  BY <1>1, MembersTail DEF SubTablesInv
<1>3. CASE listening /\ t \notin notified
  <2>1. notified' = notified \cup {t} /\ posts' = Append(posts, t) /\ UNCHANGED missed
    BY <1>3 DEF NotifyEntries
  <2>2. posts' \in Seq(Tables) /\ ToSet(posts') = ToSet(posts) \cup {t}
    BY <1>2, <2>1, MembersAppend DEF SubTablesInv
  <2> QED BY <1>1, <1>2, <2>1, <2>2 DEF SubTablesInv, NothingElseMissed
<1>4. CASE ~ (listening /\ t \notin notified)
  <2>1. /\ UNCHANGED <<notified, posts>>
        /\ missed' = IF listening \/ t \in found \cup views \/ ui = "list" THEN missed
                     ELSE missed \cup {t}
    BY <1>4 DEF NotifyEntries
  <2>2. missed \subseteq missed'
    BY <2>1
  <2>3. ui # "list" => t \in views \cup found \cup ToSet(posts) \cup missed'
    BY <1>4, <2>1 DEF SubTablesInv
  <2> QED BY <1>1, <1>2, <2>1, <2>2, <2>3 DEF SubTablesInv, NothingElseMissed
<1> QED BY <1>3, <1>4

LEMMA SubTablesStep == SubTablesInv /\ [SubTablesNext]_subTablesVars => SubTablesInv'
<1> SUFFICES ASSUME SubTablesInv, [SubTablesNext]_subTablesVars PROVE SubTablesInv'
  OBVIOUS
<1>1. CASE UNCHANGED subTablesVars
  BY <1>1 DEF subTablesVars, SubTablesInv, NothingElseMissed
<1> QED BY <1>1, AssignKeeps, UiThreadKeeps, NotifyEntriesKeeps DEF SubTablesNext

\* Every subtable that has entries has a view, or is on its way to one, but for those
\* created between the listing and the listener, or by this program: the listing and
\* the listener overlap, for every number of subtables and assignments
\* (TableProcessor.cs:33-34, IndependentNetworkTable.cs:586-603).
THEOREM NothingElseMissedHolds == SubTablesSpec => []NothingElseMissed
<1>1. SubTablesInv => NothingElseMissed
  BY DEF SubTablesInv
<1> QED BY <1>1, SubTablesInitially, SubTablesStep, PTL DEF SubTablesSpec
-----------------------------------------------------------------------------
(* The notifier. *)

\* a slot in m_free is of a listener that was removed, and is there once, until
\* one is freed twice
FreeSlots ==
    /\ \A i \in 1 .. Len(free) : free[i] \in 1 .. Len(list)
    /\ freed = {} =>
          /\ \A i, j \in 1 .. Len(free) : free[i] = free[j] => i = j
          /\ \A i \in 1 .. Len(free) :
                list[free[i]] # All => gone[list[free[i]]] # 0

TableInv ==
    /\ ids \in 0 .. MaxAdds /\ log \in Seq(Ids \cup {All})
    /\ list \in Seq(Ids \cup {All}) /\ free \in Seq(Nat)
    /\ \A slot \in 1 .. Len(list) : list[slot] <= ids
    /\ gone \in [Ids -> Nat] /\ \A l \in Ids : l > ids => gone[l] = 0
    /\ FreeSlots
    /\ AddedStays

ThreadPlaces == {"run", "wait", "scan", "call", "ended", "faulted"}

NotifierThread ==
    [at : ThreadPlaces, event : Nat, only : Ids \cup {All}, index : Nat \ {0}, calling : Ids \cup {All}]

HandTypes ==
    /\ threads \in Seq(NotifierThread)
    /\ queue \in Seq([event : Nat, only : Ids \cup {All}])
    /\ since \in [Ids -> Nat] /\ heard \in [Ids -> Seq(Nat)]

\* every notification is for all listeners
ForAll ==
    /\ \A i \in 1 .. Len(log) : log[i] = All
    /\ \A i \in 1 .. Len(queue) : queue[i].only = All
    /\ \A t \in 1 .. Len(threads) : threads[t].only = All

\* where the connection listeners are erased, the slot is null
NullSlots ==
    /\ \A i \in 1 .. Len(free) : list[free[i]] = All
    /\ \A i, j \in 1 .. Len(free) : free[i] = free[j] => i = j
    /\ \A s, u \in 1 .. Len(list) : list[s] = list[u] /\ list[s] # All => s = u
    /\ \A s \in 1 .. Len(list) : list[s] # All => gone[list[s]] = 0

\* nothing is under way or was heard that was not sent
Sent ==
    /\ \A i \in 1 .. Len(queue) : queue[i].event <= Len(log)
    /\ \A t \in 1 .. Len(threads) : threads[t].event <= Len(log)
    /\ \A l \in Ids : \A i \in 1 .. Len(heard[l]) : heard[l][i] <= Len(log)

\* a thread may still call a listener that was removed, with what was sent before
LastCall ==
    \A t \in 1 .. Len(threads) : threads[t].at = "call" =>
        /\ threads[t].calling \in 1 .. ids
        /\ gone[threads[t].calling] # 0 => threads[t].event < gone[threads[t].calling]

SilentInv ==
    TableInv /\ HandTypes /\ ForAll /\ NullSlots /\ Sent /\ LastCall /\ RemovedIsSilent
-----------------------------------------------------------------------------
\* a thread that has an event in hand
Handling(u) == u.at \in {"scan", "call"}

\* One thread at a time, which has an event in hand, or none.
OneThread ==
    /\ \A t, u \in Unended : t = u
    /\ starter => Unended = {}
    /\ \A t \in 1 .. Len(threads) :
          /\ threads[t].at # "faulted"
          /\ threads[t].event # 0 <=> Handling(threads[t])
          /\ threads[t].calling # All <=> threads[t].at = "call"

\* m_connNotifications holds the last of what was sent, and before them comes what
\* is in hand
InOrder ==
    /\ Len(queue) <= Len(log)
    /\ \A i \in 1 .. Len(queue) : queue[i].event = Len(log) - Len(queue) + i
    /\ \A t \in 1 .. Len(threads) :
          Handling(threads[t]) => threads[t].event = Len(log) - Len(queue)

\* a thread's loop has still to come to the listener in a slot; or is past it
ToCome(u, s) ==
    /\ list[s] # All
    /\ s > u.index \/ (u.at = "scan" /\ s = u.index)
Passed(u, s) ==
    /\ list[s] # All
    /\ \/ s < u.index
       \/ u.at = "call" /\ s = u.index /\ list[s] # u.calling

\* nobody whom the loop comes to has heard of what it is at
Unreached(u) ==
    /\ \A s \in 1 .. Len(list) : ToCome(u, s) =>
          \A i \in 1 .. Len(heard[list[s]]) : heard[list[s]][i] < u.event
    /\ u.at = "call" =>
          /\ \A i \in 1 .. Len(heard[u.calling]) : heard[u.calling][i] < u.event
          /\ \A s \in 1 .. Len(list) : list[s] = u.calling => s = u.index

\* whoever it has passed, and who was there when that was sent, has heard of it
Behind(u) ==
    \A s \in 1 .. Len(list) : Passed(u, s) /\ since[list[s]] < u.event =>
        /\ heard[list[s]] # <<>>
        /\ heard[list[s]][Len(heard[list[s]])] = u.event

\* nobody has heard of what is still in the queue
HeardSoFar ==
    \A l \in Ids : /\ \A i \in 1 .. Len(heard[l]) : heard[l][i] <= Len(log) - Len(queue)
                   /\ l > ids => heard[l] = <<>>

InTurn ==
    \A t \in 1 .. Len(threads) :
        Handling(threads[t]) => Unreached(threads[t]) /\ Behind(threads[t])

LoopInv == SilentInv /\ OneThread /\ InOrder /\ HeardSoFar /\ InTurn
-----------------------------------------------------------------------------
(* The table of listeners, however many threads call them. *)

tableInvVars == <<ids, log, list, free, gone, freed>>

LEMMA TableStutters ==
    ASSUME TableInv, UNCHANGED tableInvVars PROVE TableInv'
  BY DEF TableInv, tableInvVars, FreeSlots, AddedStays

LEMMA TableInitially ==
    ASSUME NotifierInit PROVE TableInv
<1>1. /\ ids = 0 /\ log = <<>> /\ list = <<>> /\ free = <<>> /\ gone = [l \in Ids |-> 0]
      /\ MaxAdds \in Nat
  BY NotifierAssumption DEF NotifierInit
<1>2. Len(list) = 0 /\ Len(free) = 0
  BY <1>1
<1> QED BY <1>1, <1>2 DEF TableInv, FreeSlots, AddedStays

\* Of a listener that is added: it is where nobody is, or where the one who was
\* there was removed.
LEMMA TableAdd ==
    ASSUME TableInv, AddListener PROVE TableInv'
<1>1. /\ MaxAdds \in Nat /\ ids \in 0 .. MaxAdds /\ ids < MaxAdds /\ ids' = ids + 1
      /\ list \in Seq(Ids \cup {All}) /\ free \in Seq(Nat)
      /\ log' = log /\ gone' = gone /\ freed' = freed
      /\ gone \in [Ids -> Nat] /\ ids + 1 \in Ids
  BY NotifierAssumption DEF TableInv, AddListener, Add, Ids
<1>2. CASE free = <<>>
  <2>1. list' = Append(list, ids + 1) /\ free' = free
    BY <1>2 DEF AddListener, Add
  <2>2. /\ list' \in Seq(Ids \cup {All}) /\ Len(list') = Len(list) + 1
        /\ list'[Len(list) + 1] = ids + 1 /\ \A s \in 1 .. Len(list) : list'[s] = list[s]
    BY <1>1, <2>1
  <2>3. FreeSlots' /\ free' \in Seq(Nat)
    BY <1>1, <1>2, <2>1 DEF FreeSlots
  <2>4. AddedStays'
    <3> SUFFICES ASSUME NEW l \in 1 .. ids + 1, gone[l] = 0, freed = {}
                 PROVE  \E slot \in DOMAIN list' : list'[slot] = l
      BY <1>1 DEF AddedStays
    <3>1. CASE l = ids + 1
      BY <1>1, <2>2, <3>1
    <3>2. CASE l \in 1 .. ids
      <4>1. PICK slot \in 1 .. Len(list) : list[slot] = l
        BY <1>1, <3>2 DEF TableInv, AddedStays
      <4>2. slot \in DOMAIN list' /\ list'[slot] = l
        BY <1>1, <2>2, <4>1
      <4> QED BY <4>2
    <3> QED BY <1>1, <3>1, <3>2
  <2>5. \A slot \in 1 .. Len(list') : list'[slot] <= ids'
    <3> SUFFICES ASSUME NEW slot \in 1 .. Len(list') PROVE list'[slot] <= ids'
      OBVIOUS
    <3>1. CASE slot = Len(list) + 1
      BY <1>1, <2>2, <3>1
    <3>2. CASE slot \in 1 .. Len(list)
      <4>1. list[slot] <= ids /\ list[slot] \in Ids \cup {All}
        BY <1>1, <3>2 DEF TableInv
      <4> QED BY <1>1, <2>2, <3>2, <4>1 DEF Ids, All
    <3> QED BY <1>1, <2>2, <3>1, <3>2
  <2>6. /\ log' \in Seq(Ids \cup {All}) /\ gone' \in [Ids -> Nat] /\ ids' \in 0 .. MaxAdds
        /\ \A l \in Ids : l > ids' => gone'[l] = 0
    BY <1>1 DEF TableInv, Ids
  <2> QED BY <2>2, <2>3, <2>4, <2>5, <2>6 DEF TableInv
<1>3. CASE free # <<>>
  <2> DEFINE k == Head(free)
  <2>1. list' = [list EXCEPT ![k] = ids + 1] /\ free' = Tail(free)
    BY <1>3 DEF AddListener, Add
  <2>2. /\ free' \in Seq(Nat) /\ Len(free') = Len(free) - 1 /\ Len(free) >= 1
        /\ \A i \in 1 .. Len(free') : i + 1 \in 1 .. Len(free) /\ free'[i] = free[i + 1]
        /\ k = free[1] /\ k \in 1 .. Len(list)
    BY <1>1, <1>3, <2>1 DEF TableInv, FreeSlots
  <2>3. /\ list' \in Seq(Ids \cup {All}) /\ Len(list') = Len(list)
        /\ list'[k] = ids + 1 /\ \A s \in 1 .. Len(list) : s # k => list'[s] = list[s]
    BY <1>1, <2>1, <2>2
  <2> HIDE DEF k
  <2>4. FreeSlots'
    <3>1. \A i \in 1 .. Len(free') : free'[i] \in 1 .. Len(list')
      <4>1. \A i \in 1 .. Len(free) : free[i] \in 1 .. Len(list)
        BY DEF TableInv, FreeSlots
      <4> QED BY <2>2, <2>3, <4>1
    <3>2. ASSUME freed = {}, NEW i \in 1 .. Len(free'), NEW j \in 1 .. Len(free'), free'[i] = free'[j]
          PROVE  i = j
      <4>1. i + 1 \in 1 .. Len(free) /\ j + 1 \in 1 .. Len(free) /\ free[i + 1] = free[j + 1]
        BY <1>1, <2>2, <3>2
      <4>2. i + 1 = j + 1
        BY <3>2, <4>1 DEF TableInv, FreeSlots
      <4> QED BY <4>2
    <3>3. ASSUME freed = {}, NEW i \in 1 .. Len(free'), list'[free'[i]] # All
          PROVE  gone[list'[free'[i]]] # 0
      <4>1. /\ i + 1 \in 1 .. Len(free) /\ 1 \in 1 .. Len(free)
            /\ free'[i] = free[i + 1] /\ i + 1 # 1
        BY <1>1, <2>2
      <4>2. free[i + 1] # free[1] /\ free[i + 1] \in 1 .. Len(list)
        BY <3>3, <4>1 DEF TableInv, FreeSlots
      <4>3. list'[free'[i]] = list[free[i + 1]]
        BY <2>2, <2>3, <4>1, <4>2
      <4> QED BY <3>3, <4>1, <4>3 DEF TableInv, FreeSlots
    <3> QED BY <1>1, <3>1, <3>2, <3>3 DEF FreeSlots
  <2>5. AddedStays'
    <3> SUFFICES ASSUME NEW l \in 1 .. ids + 1, gone[l] = 0, freed = {}
                 PROVE  \E slot \in DOMAIN list' : list'[slot] = l
      BY <1>1 DEF AddedStays
    <3>1. CASE l = ids + 1
      BY <1>1, <2>2, <2>3, <3>1
    <3>2. CASE l \in 1 .. ids
      <4>1. PICK slot \in DOMAIN list : list[slot] = l
        BY <3>2 DEF TableInv, AddedStays
      <4>2. slot # k
        <5>1. 1 \in 1 .. Len(free)
          BY <1>1, <2>2
        <5>2. l # All
          BY <3>2 DEF All
        <5> QED BY <2>2, <4>1, <5>1, <5>2 DEF TableInv, FreeSlots
      <4> QED BY <1>1, <2>3, <4>1, <4>2
    <3> QED BY <1>1, <3>1, <3>2
  <2>6. \A slot \in 1 .. Len(list') : list'[slot] <= ids'
    <3> SUFFICES ASSUME NEW slot \in 1 .. Len(list') PROVE list'[slot] <= ids'
      OBVIOUS
    <3>1. CASE slot = k
      BY <1>1, <2>3, <3>1
    <3>2. CASE slot # k
      <4>1. list[slot] <= ids /\ list[slot] \in Ids \cup {All} /\ list'[slot] = list[slot]
        BY <1>1, <2>3, <3>2 DEF TableInv
      <4> QED BY <1>1, <4>1 DEF Ids, All
    <3> QED BY <3>1, <3>2
  <2>7. /\ log' \in Seq(Ids \cup {All}) /\ gone' \in [Ids -> Nat] /\ ids' \in 0 .. MaxAdds
        /\ \A l \in Ids : l > ids' => gone'[l] = 0
    BY <1>1 DEF TableInv, Ids
  <2> QED BY <2>2, <2>3, <2>4, <2>5, <2>6, <2>7 DEF TableInv
<1> QED BY <1>2, <1>3

\* Of one that is removed: its slot is freed, and if that was done before, freed
\* says so.
LEMMA TableRemove ==
    ASSUME TableInv, NEW slot \in Ids, RemoveListener(slot) PROVE TableInv'
<1> DEFINE l == list[slot]
<1>0. ids \in 0 .. MaxAdds /\ MaxAdds \in Nat /\ slot \in Nat
  BY NotifierAssumption DEF TableInv, Ids
<1>1. /\ slot \in 1 .. Len(list) /\ list \in Seq(Ids \cup {All}) /\ free \in Seq(Nat)
      /\ l \in Ids /\ l <= ids /\ ids' = ids /\ log' = log /\ log \in Seq(Ids \cup {All})
      /\ gone \in [Ids -> Nat] /\ Len(log) \in Nat /\ slot \in Nat
      /\ ids \in 0 .. MaxAdds /\ MaxAdds \in Nat
  <2>1. list \in Seq(Ids \cup {All}) /\ log \in Seq(Ids \cup {All}) /\ slot \in DOMAIN list
        /\ l # All /\ ids' = ids /\ log' = log
    BY DEF RemoveListener, TableInv
  <2>2. slot \in 1 .. Len(list) /\ l \in Ids /\ Len(log) \in Nat
    BY <2>1
  <2>3. l <= ids
    BY <2>2 DEF TableInv
  <2> QED BY <1>0, <2>1, <2>2, <2>3 DEF TableInv
<1>2. /\ free' = Append(free, slot)
      /\ free' \in Seq(Nat) /\ Len(free') = Len(free) + 1 /\ free'[Len(free) + 1] = slot
      /\ \A i \in 1 .. Len(free) : free'[i] = free[i]
  BY <1>1 DEF RemoveListener, Erase
<1>3. /\ list' \in Seq(Ids \cup {All}) /\ Len(list') = Len(list)
      /\ \A s \in 1 .. Len(list) : s # slot => list'[s] = list[s]
      /\ list'[slot] \in {All, l}
  <2>1. list' = list \/ list' = [list EXCEPT ![slot] = All]
    BY DEF RemoveListener, Erase
  <2>2. All \in Ids \cup {All}
    OBVIOUS
  <2>3. CASE list' = list
    BY <1>1, <2>3
  <2>4. CASE list' = [list EXCEPT ![slot] = All]
    <3> DEFINE T == Ids \cup {All}
    <3>1. All \in T /\ list \in Seq(T)
      BY <1>1
    <3> HIDE DEF T
    <3>2. list' \in Seq(T) /\ Len(list') = Len(list) /\ list'[slot] = All
          /\ \A s \in 1 .. Len(list) : s # slot => list'[s] = list[s]
      BY <1>1, <2>4, <3>1
    <3> QED BY <3>2 DEF T
  <2> QED BY <2>1, <2>3, <2>4
<1>4. /\ gone' \in [Ids -> Nat] /\ gone'[l] # 0
      /\ \A k \in Ids : k # l => gone'[k] = gone[k]
      /\ \A k \in Ids : gone[k] # 0 => gone'[k] # 0
  <2>1. gone' = [gone EXCEPT ![l] = IF gone[l] = 0 THEN Len(log) + 1 ELSE gone[l]]
    BY DEF RemoveListener
  <2> HIDE DEF l
  <2> QED BY <1>1, <2>1
<1>5. ASSUME freed' = {} PROVE freed = {} /\ \A i \in 1 .. Len(free) : free[i] # slot
  <2>1. freed' = IF \E i \in DOMAIN free : free[i] = slot THEN freed \cup {slot} ELSE freed
    BY DEF RemoveListener
  <2>2. ~ \E i \in DOMAIN free : free[i] = slot
    BY <1>5, <2>1
  <2>3. DOMAIN free = 1 .. Len(free)
    BY <1>1
  <2> QED BY <1>5, <2>1, <2>2, <2>3
<1> HIDE DEF l
<1>6. FreeSlots'
  <2>1. \A i \in 1 .. Len(free') : free'[i] \in 1 .. Len(list')
    <3> TAKE i \in 1 .. Len(free')
    <3>1. CASE i = Len(free) + 1
      BY <1>1, <1>2, <1>3, <3>1
    <3>2. CASE i \in 1 .. Len(free)
      BY <1>2, <1>3, <3>2 DEF TableInv, FreeSlots
    <3> QED BY <1>1, <1>2, <3>1, <3>2
  <2>2. ASSUME freed' = {}, NEW i \in 1 .. Len(free'), NEW j \in 1 .. Len(free'), free'[i] = free'[j]
        PROVE  i = j
    <3>1. CASE i \in 1 .. Len(free) /\ j \in 1 .. Len(free)
      <4>1. free[i] = free[j] /\ freed = {}
        BY <1>2, <1>5, <2>2, <3>1
      <4> QED BY <3>1, <4>1 DEF TableInv, FreeSlots
    <3>2. CASE i = Len(free) + 1 \/ j = Len(free) + 1
      BY <1>1, <1>2, <1>5, <2>2, <3>2
    <3> QED BY <1>1, <1>2, <3>1, <3>2
  <2>3. ASSUME freed' = {}, NEW i \in 1 .. Len(free'), list'[free'[i]] # All
        PROVE  gone'[list'[free'[i]]] # 0
    <3>1. CASE i = Len(free) + 1
      BY <1>2, <1>3, <1>4, <2>3, <3>1
    <3>2. CASE i \in 1 .. Len(free)
      <4>1. free'[i] = free[i] /\ free[i] # slot /\ free[i] \in 1 .. Len(list) /\ freed = {}
        BY <1>2, <1>5, <2>3, <3>2 DEF TableInv, FreeSlots
      <4>2. list'[free'[i]] = list[free[i]] /\ list[free[i]] \in Ids
        <5>1. list'[free[i]] = list[free[i]] /\ list[free[i]] # All
          BY <1>3, <2>3, <4>1
        <5> QED BY <1>1, <4>1, <5>1
      <4>3. gone[list[free[i]]] # 0
        BY <2>3, <3>2, <4>1, <4>2 DEF TableInv, FreeSlots
      <4> QED BY <1>4, <4>2, <4>3
    <3> QED BY <1>1, <1>2, <3>1, <3>2
  <2> QED BY <2>1, <2>2, <2>3 DEF FreeSlots
<1>7. AddedStays'
  <2> SUFFICES ASSUME NEW k \in 1 .. ids, gone'[k] = 0, freed' = {}
               PROVE  \E s \in DOMAIN list' : list'[s] = k
    BY <1>1 DEF AddedStays
  <2>1. k \in Ids /\ k # l /\ gone[k] = 0 /\ freed = {}
    BY <1>1, <1>4, <1>5 DEF Ids
  <2>2. PICK s \in DOMAIN list : list[s] = k
    BY <2>1 DEF TableInv, AddedStays
  <2>3. s # slot
    BY <2>1, <2>2 DEF l
  <2> QED BY <1>1, <1>3, <2>2, <2>3
<1>8. \A s \in 1 .. Len(list') : list'[s] <= ids'
  <2> TAKE s \in 1 .. Len(list')
  <2>1. list[s] <= ids
    BY <1>3 DEF TableInv
  <2>2. list'[s] \in {All, list[s]}
    BY <1>3 DEF l
  <2> QED BY <1>1, <2>1, <2>2 DEF All
<1>9. \A k \in Ids : k > ids' => gone'[k] = 0
  <2> TAKE k \in Ids
  <2>1. gone[k] = 0 \/ ~ k > ids
    BY DEF TableInv
  <2> QED BY <1>1, <1>4, <2>1 DEF Ids
<1> QED BY <1>1, <1>2, <1>3, <1>4, <1>6, <1>7, <1>8, <1>9 DEF TableInv

LEMMA TableNotify ==
    ASSUME TableInv, NEW only \in Ids \cup {All}, Notify(only) PROVE TableInv'
<1>1. log' = Append(log, only) /\ log' \in Seq(Ids \cup {All})
  BY DEF Notify, TableInv
<1>2. UNCHANGED <<ids, list, free, gone, freed>>
  BY DEF Notify, tableVars
<1> QED BY <1>1, <1>2 DEF TableInv, FreeSlots, AddedStays

\* What Notify is called with.
LEMMA NotifyTargets ==
    ASSUME TableInv, NEW only \in {All} \cup (IF Direct THEN 1 .. ids ELSE {})
    PROVE  only \in Ids \cup {All} /\ (Direct = FALSE => only = All)
  BY NotifierAssumption DEF TableInv, Ids

LEMMA TableStep ==
    ASSUME TableInv, [NotifierNext]_notifierVars PROVE TableInv'
<1>1. CASE UNCHANGED notifierVars
  BY <1>1, TableStutters DEF notifierVars, tableVars, tableInvVars
<1>2. CASE AddListener
  BY <1>2, TableAdd
<1>3. CASE \E slot \in Ids : RemoveListener(slot)
  BY <1>3, TableRemove
<1>4. CASE \E only \in {All} \cup (IF Direct THEN 1 .. ids ELSE {}) : Notify(only)
  BY <1>4, TableNotify, NotifyTargets
<1>5. ASSUME NEW t \in DOMAIN threads, Main(t) \/ CallbackThrows(t) PROVE TableInv'
  <2>1. UNCHANGED tableInvVars
    BY <1>5 DEF Main, MainRuns, MainWakes, SkipRemoved, BeginCallback, EndCallback, EndScan,
                CallbackThrows, ThreadUnchanged, tableVars, tableInvVars
  <2> QED BY <2>1, TableStutters
<1>6. CASE NotifierStart \/ StartThread \/ NotifierStop \/ StopSets \/ StopWaits
  <2>1. UNCHANGED tableInvVars
    BY <1>6 DEF NotifierStart, StartThread, NotifierStop, StopSets, StopWaits, tableVars, tableInvVars
  <2> QED BY <2>1, TableStutters
<1> QED BY <1>1, <1>2, <1>3, <1>4, <1>5, <1>6 DEF NotifierNext

\* UidListEntryListener and UidListConnectionListener: a listener stays in the slot
\* that Add gave it until it is removed, whichever of the two tables it is in and
\* whatever was freed and used again, unless a slot was freed while it was free.
THEOREM AddedStaysHolds ==
    NotifierSpec => []AddedStays
<1>1. NotifierInit => TableInv
  BY TableInitially
<1>2. TableInv /\ [NotifierNext]_notifierVars => TableInv'
  BY TableStep
<1>3. TableInv => AddedStays
  BY DEF TableInv
<1> QED BY <1>1, <1>2, <1>3, PTL DEF NotifierSpec
-----------------------------------------------------------------------------
(* The connection listeners, whose slots are erased. *)

OfConnections == Entries = FALSE /\ Direct = FALSE

NotifierItem == [event : Nat, only : Ids \cup {All}]

\* A thread goes on, and the others stay where they are.
Goes(t, u) == threads' = [threads EXCEPT ![t] = u]

LEMMA ThreadGoes ==
    ASSUME threads \in Seq(NotifierThread), NEW t \in 1 .. Len(threads), NEW u \in NotifierThread, Goes(t, u)
    PROVE  /\ threads' \in Seq(NotifierThread) /\ Len(threads') = Len(threads) /\ threads'[t] = u
           /\ \A k \in 1 .. Len(threads) : k # t => threads'[k] = threads[k]
  BY DEF Goes

\* what the callbacks were called with was sent before, and before they were removed
HeardFits(h) ==
    /\ h \in [Ids -> Seq(Nat)]
    /\ \A l \in Ids : \A i \in 1 .. Len(h[l]) :
          h[l][i] <= Len(log) /\ (gone[l] # 0 => h[l][i] < gone[l])

LEMMA HeardFitsNow ==
    ASSUME SilentInv PROVE HeardFits(heard)
<1>1. heard \in [Ids -> Seq(Nat)]
  BY DEF SilentInv, HandTypes
<1>2. \A l \in Ids : DOMAIN heard[l] = 1 .. Len(heard[l])
  BY <1>1
<1> QED BY <1>1, <1>2 DEF HeardFits, SilentInv, Sent, RemovedIsSilent

\* u calls only a listener that was added, with what was sent before it was removed
MayCall(u) ==
    u.at = "call" => /\ u.calling \in 1 .. ids
                     /\ gone[u.calling] # 0 => u.event < gone[u.calling]

LEMMA SilentGoes ==
    ASSUME SilentInv, TableInv', NEW t \in 1 .. Len(threads), NEW u \in NotifierThread, Goes(t, u),
           u.only = All, u.event <= Len(log), MayCall(u), HeardFits(heard'),
           UNCHANGED <<tableVars, log>>,
           queue' = queue \/ (queue # <<>> /\ queue' = Tail(queue))
    PROVE  SilentInv'
<1>1. /\ threads \in Seq(NotifierThread) /\ queue \in Seq(NotifierItem)
      /\ UNCHANGED <<list, free, ids, since, gone, log>>
  BY DEF SilentInv, HandTypes, NotifierItem, tableVars
<1>2. /\ threads' \in Seq(NotifierThread) /\ Len(threads') = Len(threads) /\ threads'[t] = u
      /\ \A k \in 1 .. Len(threads) : k # t => threads'[k] = threads[k]
  BY <1>1, ThreadGoes
<1>3. /\ queue' \in Seq(NotifierItem)
      /\ \A i \in 1 .. Len(queue') : \E j \in 1 .. Len(queue) : queue'[i] = queue[j]
  <2>1. CASE queue' = queue
    BY <1>1, <2>1
  <2>2. CASE queue # <<>> /\ queue' = Tail(queue)
    <3>1. queue' \in Seq(NotifierItem)
          /\ \A i \in 1 .. Len(queue') : i + 1 \in 1 .. Len(queue) /\ queue'[i] = queue[i + 1]
      BY <1>1, <2>2
    <3> QED BY <3>1
  <2> QED BY <2>1, <2>2
<1>4. HandTypes'
  BY <1>1, <1>2, <1>3 DEF SilentInv, HandTypes, HeardFits, NotifierItem
<1>5. ForAll'
  <2>1. \A i \in 1 .. Len(queue') : queue'[i].only = All
    BY <1>3 DEF SilentInv, ForAll
  <2>2. \A k \in 1 .. Len(threads') : threads'[k].only = All
    BY <1>2 DEF SilentInv, ForAll
  <2> QED BY <1>1, <2>1, <2>2 DEF SilentInv, ForAll
<1>6. NullSlots'
  BY <1>1 DEF SilentInv, NullSlots
<1>7. Sent'
  <2>1. \A i \in 1 .. Len(queue') : queue'[i].event <= Len(log')
    BY <1>1, <1>3 DEF SilentInv, Sent
  <2>2. \A k \in 1 .. Len(threads') : threads'[k].event <= Len(log')
    BY <1>1, <1>2 DEF SilentInv, Sent
  <2> QED BY <1>1, <2>1, <2>2 DEF Sent, HeardFits
<1>8. LastCall'
  <2> SUFFICES ASSUME NEW k \in 1 .. Len(threads'), threads'[k].at = "call"
               PROVE  /\ threads'[k].calling \in 1 .. ids'
                      /\ gone'[threads'[k].calling] # 0 => threads'[k].event < gone'[threads'[k].calling]
    BY DEF LastCall
  <2>1. CASE k = t
    BY <1>1, <1>2, <2>1 DEF MayCall
  <2>2. CASE k # t
    BY <1>1, <1>2, <2>2 DEF SilentInv, LastCall
  <2> QED BY <2>1, <2>2
<1>9. RemovedIsSilent'
  <2>1. \A l \in Ids : DOMAIN heard'[l] = 1 .. Len(heard'[l])
    BY DEF HeardFits
  <2> QED BY <1>1, <2>1 DEF HeardFits, RemovedIsSilent
<1> QED BY <1>4, <1>5, <1>6, <1>7, <1>8, <1>9 DEF SilentInv

\* What each step of a thread makes of it.
Keeps(t, u) ==
    /\ u.event = threads[t].event /\ u.calling = threads[t].calling
    /\ u.index = threads[t].index
    /\ UNCHANGED <<queue, heard>>
RunsOn(t, u) ==
    threads[t].at \in {"run", "wait"} /\ u.at \in {"ended", "wait", "run"} /\ Keeps(t, u)
Pops(t, u) ==
    /\ threads[t].at = "run" /\ queue # <<>> /\ queue' = Tail(queue) /\ UNCHANGED heard
    /\ u.at = "scan" /\ u.event = Head(queue).event /\ u.index = 1 /\ u.calling = All
Skips(t, u) ==
    /\ threads[t].at = "scan" /\ threads[t].index <= Len(list) /\ list[threads[t].index] = All
    /\ u.at = "scan" /\ u.event = threads[t].event
    /\ u.index = threads[t].index + 1 /\ u.calling = threads[t].calling
    /\ UNCHANGED <<queue, heard>>
Begins(t, u) ==
    /\ threads[t].at = "scan" /\ threads[t].index <= Len(list) /\ list[threads[t].index] # All
    /\ u.at = "call" /\ u.event = threads[t].event
    /\ u.index = threads[t].index /\ u.calling = list[threads[t].index]
    /\ UNCHANGED <<queue, heard>>
Returns(t, u) ==
    /\ threads[t].at = "call"
    /\ heard' = [heard EXCEPT ![threads[t].calling] = Append(@, threads[t].event)]
    /\ u.at = "scan" /\ u.event = threads[t].event
    /\ u.index = threads[t].index + 1 /\ u.calling = All
    /\ UNCHANGED queue
Throws(t, u) ==
    /\ Throwing /\ threads[t].at = "call" /\ u.at = "faulted"
    /\ Keeps(t, u)
EndsScan(t, u) ==
    /\ threads[t].at = "scan" /\ threads[t].index > Len(list)
    /\ u.at = "run" /\ u.event = 0
    /\ u.index = 1 /\ u.calling = threads[t].calling
    /\ UNCHANGED <<queue, heard>>

ThreadStep(t, u) ==
    \/ RunsOn(t, u) \/ Pops(t, u) \/ Skips(t, u) \/ Begins(t, u)
    \/ Returns(t, u) \/ Throws(t, u) \/ EndsScan(t, u)

Others == UNCHANGED <<running, thread, starter, stopper, tableVars, log>>

\* A thread's state with some of it changed, written out.
LEMMA RecordAt ==
    ASSUME NEW r \in NotifierThread, NEW p
    PROVE  [r EXCEPT !.at = p]
           = [at |-> p, event |-> r.event, only |-> r.only, index |-> r.index, calling |-> r.calling]
<1>1. PICK a \in ThreadPlaces, b \in Nat, o \in Ids \cup {All}, j \in Nat, k \in Ids \cup {All} :
         r = [at |-> a, event |-> b, only |-> o, index |-> j, calling |-> k]
  BY DEF NotifierThread
<1> QED BY <1>1

LEMMA RecordIndex ==
    ASSUME NEW r \in NotifierThread, NEW i
    PROVE  [r EXCEPT !.index = i]
           = [at |-> r.at, event |-> r.event, only |-> r.only, index |-> i, calling |-> r.calling]
<1>1. PICK a \in ThreadPlaces, b \in Nat, o \in Ids \cup {All}, j \in Nat, k \in Ids \cup {All} :
         r = [at |-> a, event |-> b, only |-> o, index |-> j, calling |-> k]
  BY DEF NotifierThread
<1> QED BY <1>1

LEMMA RecordCalls ==
    ASSUME NEW r \in NotifierThread, NEW p, NEW c
    PROVE  [r EXCEPT !.at = p, !.calling = c]
           = [at |-> p, event |-> r.event, only |-> r.only, index |-> r.index, calling |-> c]
<1>1. PICK a \in ThreadPlaces, b \in Nat, o \in Ids \cup {All}, j \in Nat, k \in Ids \cup {All} :
         r = [at |-> a, event |-> b, only |-> o, index |-> j, calling |-> k]
  BY DEF NotifierThread
<1>2. [[at |-> a, event |-> b, only |-> o, index |-> j, calling |-> k] EXCEPT !.at = p]
         = [at |-> p, event |-> b, only |-> o, index |-> j, calling |-> k]
  OBVIOUS
<1>3. [[at |-> p, event |-> b, only |-> o, index |-> j, calling |-> k] EXCEPT !.calling = c]
         = [at |-> p, event |-> b, only |-> o, index |-> j, calling |-> c]
  OBVIOUS
<1>4. r.at = a /\ r.event = b /\ r.only = o /\ r.index = j /\ r.calling = k
  BY <1>1
<1> QED BY ONLY <1>1, <1>2, <1>3, <1>4, Zenon

LEMMA RecordReturns ==
    ASSUME NEW r \in NotifierThread, NEW i
    PROVE  [r EXCEPT !.at = "scan", !.index = i, !.calling = All]
           = [at |-> "scan", event |-> r.event, only |-> r.only, index |-> i, calling |-> All]
<1>1. PICK a \in ThreadPlaces, b \in Nat, o \in Ids \cup {All}, j \in Nat, k \in Ids \cup {All} :
         r = [at |-> a, event |-> b, only |-> o, index |-> j, calling |-> k]
  BY DEF NotifierThread
<1>2. [[at |-> a, event |-> b, only |-> o, index |-> j, calling |-> k] EXCEPT !.at = "scan"]
         = [at |-> "scan", event |-> b, only |-> o, index |-> j, calling |-> k]
  OBVIOUS
<1>3. [[at |-> "scan", event |-> b, only |-> o, index |-> j, calling |-> k] EXCEPT !.index = i]
         = [at |-> "scan", event |-> b, only |-> o, index |-> i, calling |-> k]
  OBVIOUS
<1>4. [[at |-> "scan", event |-> b, only |-> o, index |-> i, calling |-> k] EXCEPT !.calling = All]
         = [at |-> "scan", event |-> b, only |-> o, index |-> i, calling |-> All]
  OBVIOUS
<1>5. r.at = a /\ r.event = b /\ r.only = o /\ r.index = j /\ r.calling = k
  BY <1>1
<1> QED BY ONLY <1>1, <1>2, <1>3, <1>4, <1>5, Zenon

LEMMA RecordRuns ==
    ASSUME NEW r \in NotifierThread, NEW p, NEW e, NEW i
    PROVE  [r EXCEPT !.at = p, !.event = e, !.index = i]
           = [at |-> p, event |-> e, only |-> r.only, index |-> i, calling |-> r.calling]
<1>1. PICK a \in ThreadPlaces, b \in Nat, o \in Ids \cup {All}, j \in Nat, k \in Ids \cup {All} :
         r = [at |-> a, event |-> b, only |-> o, index |-> j, calling |-> k]
  BY DEF NotifierThread
<1>2. [[at |-> a, event |-> b, only |-> o, index |-> j, calling |-> k] EXCEPT !.at = p]
         = [at |-> p, event |-> b, only |-> o, index |-> j, calling |-> k]
  OBVIOUS
<1>3. [[at |-> p, event |-> b, only |-> o, index |-> j, calling |-> k] EXCEPT !.event = e]
         = [at |-> p, event |-> e, only |-> o, index |-> j, calling |-> k]
  OBVIOUS
<1>4. [[at |-> p, event |-> e, only |-> o, index |-> j, calling |-> k] EXCEPT !.index = i]
         = [at |-> p, event |-> e, only |-> o, index |-> i, calling |-> k]
  OBVIOUS
<1>5. r.at = a /\ r.event = b /\ r.only = o /\ r.index = j /\ r.calling = k
  BY <1>1
<1> QED BY ONLY <1>1, <1>2, <1>3, <1>4, <1>5, Zenon

LEMMA ThreadSteps ==
    ASSUME HandTypes, ForAll, list \in Seq(Ids \cup {All}),
           NEW t \in DOMAIN threads, Main(t) \/ CallbackThrows(t)
    PROVE  \E u \in NotifierThread : u.only = All /\ Goes(t, u) /\ ThreadStep(t, u) /\ Others
<1>1. /\ t \in 1 .. Len(threads) /\ threads[t] \in NotifierThread /\ threads \in Seq(NotifierThread)
      /\ queue \in Seq(NotifierItem) /\ heard \in [Ids -> Seq(Nat)]
  BY DEF HandTypes, NotifierItem
<1>2. /\ threads[t].index \in Nat \ {0} /\ threads[t].event \in Nat /\ threads[t].only = All
      /\ threads[t].calling \in Ids \cup {All} /\ threads[t].at \in ThreadPlaces
  BY <1>1 DEF NotifierThread, ForAll
<1>3. Others
  BY DEF Main, MainRuns, MainWakes, SkipRemoved, BeginCallback, EndCallback, EndScan,
         CallbackThrows, ThreadUnchanged, Others
<1> DEFINE new(p, e, i, c) == [at |-> p, event |-> e, only |-> All, index |-> i, calling |-> c]
           old == threads[t]
<1>4. \A p \in ThreadPlaces, e \in Nat, i \in Nat \ {0}, c \in Ids \cup {All} :
         /\ new(p, e, i, c) \in NotifierThread
         /\ new(p, e, i, c).at = p /\ new(p, e, i, c).event = e /\ new(p, e, i, c).only = All
         /\ new(p, e, i, c).index = i /\ new(p, e, i, c).calling = c
  BY DEF NotifierThread
<1> HIDE DEF new
<1>5. ASSUME NEW p \in ThreadPlaces, ThreadIs(t, p)
      PROVE  Goes(t, new(p, old.event, old.index, old.calling))
  <2>1. threads' = [threads EXCEPT ![t] = [threads[t] EXCEPT !.at = p]]
    BY <1>5 DEF ThreadIs
  <2>2. [threads[t] EXCEPT !.at = p] = new(p, old.event, old.index, old.calling)
    BY <1>1, <1>2, RecordAt DEF new
  <2> QED BY <2>1, <2>2 DEF Goes
<1>6. CASE MainRuns(t)
  <2>1. \/ (ThreadIs(t, "ended") \/ ThreadIs(t, "wait")) /\ UNCHANGED queue
        \/ /\ queue # <<>> /\ queue' = Tail(queue)
           /\ threads' = [threads EXCEPT ![t] =
                 [at |-> IF Head(queue).only = All THEN "scan" ELSE "call",
                  event |-> Head(queue).event, only |-> Head(queue).only,
                  index |-> 1, calling |-> Head(queue).only]]
    BY <1>6 DEF MainRuns
  <2>2. old.at = "run" /\ UNCHANGED heard
    BY <1>6 DEF MainRuns
  <2>3. ASSUME NEW p \in {"ended", "wait"}, ThreadIs(t, p), UNCHANGED queue
        PROVE  \E u \in NotifierThread : u.only = All /\ Goes(t, u) /\ RunsOn(t, u)
    <3> DEFINE u == new(p, old.event, old.index, old.calling)
    <3>0. p \in ThreadPlaces
      BY DEF ThreadPlaces
    <3>1. /\ u \in NotifierThread /\ u.at = p /\ u.event = old.event /\ u.only = All
          /\ u.index = old.index /\ u.calling = old.calling /\ Goes(t, u)
      BY <1>2, <1>4, <1>5, <2>3, <3>0
    <3> HIDE DEF u
    <3> QED BY <2>2, <2>3, <3>1 DEF RunsOn, Keeps
  <2>4. ASSUME queue # <<>>, queue' = Tail(queue),
               threads' = [threads EXCEPT ![t] =
                 [at |-> IF Head(queue).only = All THEN "scan" ELSE "call",
                  event |-> Head(queue).event, only |-> Head(queue).only,
                  index |-> 1, calling |-> Head(queue).only]]
        PROVE  \E u \in NotifierThread : u.only = All /\ Goes(t, u) /\ Pops(t, u)
    <3> DEFINE u == new("scan", Head(queue).event, 1, All)
    <3>1. Head(queue) = queue[1] /\ 1 \in 1 .. Len(queue) /\ Head(queue) \in NotifierItem
      BY <1>1, <2>4
    <3>2. Head(queue).only = All /\ Head(queue).event \in Nat
      BY <3>1 DEF ForAll, NotifierItem
    <3>3. /\ u \in NotifierThread /\ u.at = "scan" /\ u.event = Head(queue).event /\ u.only = All
          /\ u.index = 1 /\ u.calling = All
      BY <1>4, <3>2 DEF ThreadPlaces
    <3>4. threads' = [threads EXCEPT ![t] = u]
      BY <2>4, <3>2 DEF new
    <3> HIDE DEF u
    <3> QED BY <2>2, <2>4, <3>3, <3>4 DEF Pops, Goes
  <2> QED BY <1>3, <2>1, <2>3, <2>4 DEF ThreadStep
<1>7. CASE MainWakes(t)
  <2> DEFINE u == new("run", old.event, old.index, old.calling)
  <2>1. /\ u \in NotifierThread /\ u.at = "run" /\ u.event = old.event /\ u.only = All
        /\ u.index = old.index /\ u.calling = old.calling /\ Goes(t, u)
    BY <1>2, <1>4, <1>5, <1>7 DEF MainWakes, ThreadPlaces
  <2> HIDE DEF u
  <2>2. RunsOn(t, u)
    BY <1>7, <2>1 DEF MainWakes, RunsOn, Keeps
  <2> QED BY <1>3, <2>1, <2>2 DEF ThreadStep
<1>8. CASE SkipRemoved(t)
  <2> DEFINE u == new(old.at, old.event, old.index + 1, old.calling)
  <2>1. /\ u \in NotifierThread /\ u.at = old.at /\ u.event = old.event /\ u.only = All
        /\ u.index = old.index + 1 /\ u.calling = old.calling
    <3>1. old.index + 1 \in Nat \ {0}
      BY <1>2
    <3> QED BY <1>2, <1>4, <3>1
  <2>2. [threads[t] EXCEPT !.index = @ + 1] = u
    BY <1>1, <1>2, RecordIndex DEF new
  <2> HIDE DEF u
  <2>3. Goes(t, u) /\ Skips(t, u)
    BY <1>8, <2>1, <2>2 DEF SkipRemoved, Goes, Skips
  <2> QED BY <1>3, <2>1, <2>3 DEF ThreadStep
<1>9. CASE BeginCallback(t)
  <2> DEFINE u == new("call", old.event, old.index, list[old.index])
  <2>0. list[old.index] \in Ids \cup {All}
    BY <1>2, <1>9 DEF BeginCallback
  <2>1. /\ u \in NotifierThread /\ u.at = "call" /\ u.event = old.event /\ u.only = All
        /\ u.index = old.index /\ u.calling = list[old.index]
    BY <1>2, <1>4, <2>0 DEF ThreadPlaces
  <2>2. threads' = [threads EXCEPT ![t] = u]
    <3>1. threads' = [threads EXCEPT ![t] = [threads[t] EXCEPT !.at = "call", !.calling = list[old.index]]]
      BY <1>9 DEF BeginCallback
    <3>2. [threads[t] EXCEPT !.at = "call", !.calling = list[old.index]] = u
      BY <1>1, <1>2, RecordCalls DEF new
    <3> QED BY <3>1, <3>2
  <2> HIDE DEF u
  <2>3. Goes(t, u) /\ Begins(t, u)
    BY <1>9, <2>1, <2>2 DEF BeginCallback, Goes, Begins
  <2> QED BY <1>3, <2>1, <2>3 DEF ThreadStep
<1>10. CASE EndCallback(t)
  <2> DEFINE u == new("scan", old.event, old.index + 1, All)
  <2>1. /\ u \in NotifierThread /\ u.at = "scan" /\ u.event = old.event /\ u.only = All
        /\ u.index = old.index + 1 /\ u.calling = All
    BY <1>2, <1>4 DEF ThreadPlaces
  <2>2. threads' = [threads EXCEPT ![t] = [old EXCEPT !.at = "scan", !.index = old.index + 1, !.calling = All]]
    BY <1>2, <1>10 DEF EndCallback
  <2>3. [old EXCEPT !.at = "scan", !.index = old.index + 1, !.calling = All] = u
    <3>1. ASSUME NEW i
          PROVE  [old EXCEPT !.at = "scan", !.index = i, !.calling = All]
                   = [at |-> "scan", event |-> old.event, only |-> old.only, index |-> i,
                      calling |-> All]
      BY <1>1, RecordReturns
    <3>2. [old EXCEPT !.at = "scan", !.index = old.index + 1, !.calling = All]
            = [at |-> "scan", event |-> old.event, only |-> old.only, index |-> old.index + 1,
               calling |-> All]
      BY <3>1
    <3> QED BY <1>2, <3>2 DEF new
  <2> HIDE DEF u
  <2>4. Goes(t, u) /\ Returns(t, u)
    BY <1>10, <2>1, <2>2, <2>3 DEF EndCallback, Goes, Returns
  <2> QED BY <1>3, <2>1, <2>4 DEF ThreadStep
<1>11. CASE EndScan(t)
  <2> DEFINE u == new("run", 0, 1, old.calling)
  <2>1. /\ u \in NotifierThread /\ u.at = "run" /\ u.event = 0 /\ u.only = All
        /\ u.index = 1 /\ u.calling = old.calling
    BY <1>2, <1>4 DEF ThreadPlaces
  <2>2. threads' = [threads EXCEPT ![t] = u]
    <3>1. threads' = [threads EXCEPT ![t] = [threads[t] EXCEPT !.at = "run", !.event = 0, !.index = 1]]
      BY <1>11 DEF EndScan
    <3>2. [threads[t] EXCEPT !.at = "run", !.event = 0, !.index = 1] = u
      <4>1. [threads[t] EXCEPT !.at = "run", !.event = 0, !.index = 1]
              = [at |-> "run", event |-> 0, only |-> threads[t].only, index |-> 1,
                 calling |-> threads[t].calling]
        BY <1>1, RecordRuns, Zenon
      <4> QED BY <1>2, <4>1 DEF new
    <3> QED BY <3>1, <3>2
  <2> HIDE DEF u
  <2>3. Goes(t, u) /\ EndsScan(t, u)
    BY <1>11, <2>1, <2>2 DEF EndScan, Goes, EndsScan
  <2> QED BY <1>3, <2>1, <2>3 DEF ThreadStep
<1>12. CASE CallbackThrows(t)
  <2> DEFINE u == new("faulted", old.event, old.index, old.calling)
  <2>1. /\ u \in NotifierThread /\ u.at = "faulted" /\ u.event = old.event /\ u.only = All
        /\ u.index = old.index /\ u.calling = old.calling /\ Goes(t, u)
    BY <1>2, <1>4, <1>5, <1>12 DEF CallbackThrows, ThreadPlaces
  <2> HIDE DEF u
  <2>2. Throws(t, u)
    BY <1>12, <2>1 DEF CallbackThrows, Throws, Keeps
  <2> QED BY <1>3, <2>1, <2>2 DEF ThreadStep
<1> QED BY <1>6, <1>7, <1>8, <1>9, <1>10, <1>11, <1>12 DEF Main

LEMMA SilentThread ==
    ASSUME SilentInv, TableInv', NEW t \in DOMAIN threads, Main(t) \/ CallbackThrows(t)
    PROVE  SilentInv'
<1>1. /\ HandTypes /\ ForAll /\ list \in Seq(Ids \cup {All}) /\ HeardFits(heard) /\ Sent /\ LastCall
      /\ \A s \in 1 .. Len(list) : list[s] <= ids
      /\ ids \in Nat /\ Len(log) \in Nat /\ MaxAdds \in Nat
  <2>1. MaxAdds \in Nat
    BY NotifierAssumption
  <2>2. ids \in Nat /\ Len(log) \in Nat
    BY DEF SilentInv, TableInv
  <2> QED BY HeardFitsNow, <2>1, <2>2 DEF SilentInv, TableInv
<1>2. PICK u \in NotifierThread : u.only = All /\ Goes(t, u) /\ ThreadStep(t, u) /\ Others
  BY <1>1, ThreadSteps
<1>3. /\ t \in 1 .. Len(threads) /\ threads[t] \in NotifierThread
      /\ threads[t].event \in Nat /\ threads[t].index \in Nat \ {0} /\ threads[t].event <= Len(log)
      /\ threads \in Seq(NotifierThread) /\ queue \in Seq(NotifierItem)
  <2>1. threads \in Seq(NotifierThread) /\ queue \in Seq(NotifierItem) /\ t \in 1 .. Len(threads)
    BY <1>1 DEF HandTypes, NotifierItem
  <2>2. threads[t] \in NotifierThread
    BY <2>1
  <2> QED BY <1>1, <2>1, <2>2 DEF NotifierThread, Sent
<1>4. u.event <= Len(log)
  <2>1. CASE Pops(t, u)
    <3>1. 1 \in 1 .. Len(queue) /\ Head(queue) = queue[1]
      BY <1>3, <2>1 DEF Pops
    <3> QED BY <1>1, <2>1, <3>1 DEF Pops, Sent
  <2>2. CASE ~ Pops(t, u)
    BY <1>1, <1>2, <1>3, <2>2 DEF ThreadStep, RunsOn, Keeps, Skips, Begins, Returns, Throws, EndsScan
  <2> QED BY <2>1, <2>2
<1>5. MayCall(u)
  <2>1. CASE Begins(t, u)
    <3>1. /\ threads[t].index \in 1 .. Len(list) /\ u.calling = list[threads[t].index]
          /\ list[threads[t].index] # All
      BY <1>1, <1>3, <2>1 DEF Begins
    <3>2. /\ list[threads[t].index] \in Ids /\ list[threads[t].index] <= ids
      BY <1>1, <3>1
    <3>3. u.calling \in 1 .. ids
      BY <1>1, <3>1, <3>2 DEF Ids
    <3>4. gone[u.calling] = 0
      BY <3>1 DEF SilentInv, NullSlots
    <3> QED BY <3>3, <3>4 DEF MayCall
  <2>2. CASE ~ Begins(t, u)
    BY <1>2, <2>2 DEF MayCall, ThreadStep, RunsOn, Keeps, Pops, Skips, Returns, Throws, EndsScan
  <2> QED BY <2>1, <2>2
<1>6. HeardFits(heard')
  <2>1. CASE Returns(t, u)
    <3> DEFINE l == threads[t].calling
               e == threads[t].event
    <3>1. l \in 1 .. ids /\ (gone[l] # 0 => e < gone[l])
      BY <1>1, <1>3, <2>1 DEF Returns, LastCall
    <3>2. l \in Ids /\ e \in Nat /\ e <= Len(log) /\ heard \in [Ids -> Seq(Nat)]
      <4>1. ids \in 0 .. MaxAdds /\ heard \in [Ids -> Seq(Nat)]
        BY DEF SilentInv, TableInv, HandTypes
      <4> QED BY <1>1, <1>3, <3>1, <4>1 DEF Ids
    <3>3. heard' = [heard EXCEPT ![l] = Append(heard[l], e)]
      BY <2>1 DEF Returns
    <3> HIDE DEF l, e
    <3>4. /\ heard' \in [Ids -> Seq(Nat)] /\ Len(heard'[l]) = Len(heard[l]) + 1
          /\ heard'[l][Len(heard[l]) + 1] = e
          /\ \A i \in 1 .. Len(heard[l]) : heard'[l][i] = heard[l][i]
          /\ \A k \in Ids : k # l => heard'[k] = heard[k]
      BY <3>2, <3>3
    <3>5. ASSUME NEW k \in Ids, NEW i \in 1 .. Len(heard'[k])
          PROVE  heard'[k][i] <= Len(log) /\ (gone[k] # 0 => heard'[k][i] < gone[k])
      <4>1. CASE k = l /\ i = Len(heard[l]) + 1
        BY <3>1, <3>2, <3>4, <4>1
      <4>2. CASE k = l /\ i \in 1 .. Len(heard[l])
        BY <1>1, <3>2, <3>4, <4>2 DEF HeardFits
      <4>3. CASE k # l
        BY <1>1, <3>4, <3>5, <4>3 DEF HeardFits
      <4>4. Len(heard[l]) \in Nat
        BY <3>2
      <4> QED BY <3>4, <4>1, <4>2, <4>3, <4>4
    <3> QED BY <3>4, <3>5 DEF HeardFits
  <2>2. CASE ~ Returns(t, u)
    BY <1>1, <1>2, <2>2 DEF ThreadStep, RunsOn, Keeps, Pops, Skips, Begins, Throws, EndsScan
  <2> QED BY <2>1, <2>2
<1>7. queue' = queue \/ (queue # <<>> /\ queue' = Tail(queue))
  BY <1>2 DEF ThreadStep, RunsOn, Keeps, Pops, Skips, Begins, Returns, Throws, EndsScan
<1> QED BY <1>2, <1>3, <1>4, <1>5, <1>6, <1>7, SilentGoes DEF Others

LEMMA SilentAdd ==
    ASSUME SilentInv, TableInv', AddListener PROVE SilentInv'
<1>1. /\ MaxAdds \in Nat /\ ids \in 0 .. MaxAdds /\ ids' = ids + 1 /\ ids + 1 \in Ids
      /\ list \in Seq(Ids \cup {All}) /\ free \in Seq(Nat)
      /\ since' = [since EXCEPT ![ids + 1] = Len(log)] /\ log \in Seq(Ids \cup {All})
      /\ UNCHANGED <<threads, gone, queue, log, heard>>
      /\ gone[ids + 1] = 0
  BY NotifierAssumption DEF SilentInv, TableInv, AddListener, mainVars, Ids
<1>2. HandTypes'
  BY <1>1 DEF SilentInv, HandTypes
<1>3. NullSlots'
  <2>0. \A s \in 1 .. Len(list) : list[s] # ids + 1
    <3> TAKE s \in 1 .. Len(list)
    <3>1. list[s] <= ids /\ list[s] \in Ids \cup {All}
      BY <1>1 DEF SilentInv, TableInv
    <3> QED BY <1>1, <3>1 DEF Ids, All
  <2>1. CASE free = <<>>
    <3>1. list' = Append(list, ids + 1) /\ free' = free
      BY <2>1 DEF AddListener, Add
    <3>2. /\ Len(list') = Len(list) + 1 /\ list'[Len(list) + 1] = ids + 1
          /\ \A s \in 1 .. Len(list) : list'[s] = list[s]
      BY <1>1, <3>1
    <3>3. ASSUME NEW s \in 1 .. Len(list'), NEW u \in 1 .. Len(list'), list'[s] = list'[u],
                 list'[s] # All
          PROVE  s = u
      <4>1. /\ Len(list) \in Nat
            /\ s \in 1 .. Len(list) \/ s = Len(list) + 1
            /\ u \in 1 .. Len(list) \/ u = Len(list) + 1
        BY <1>1, <3>2
      <4>2. CASE s \in 1 .. Len(list) /\ u \in 1 .. Len(list)
        <5>1. list[s] = list[u] /\ list[s] # All
          BY <3>2, <3>3, <4>2
        <5> QED BY <4>2, <5>1 DEF SilentInv, NullSlots
      <4>3. CASE s = Len(list) + 1 /\ u \in 1 .. Len(list)
        BY <2>0, <3>2, <3>3, <4>3
      <4>4. CASE u = Len(list) + 1 /\ s \in 1 .. Len(list)
        BY <2>0, <3>2, <3>3, <4>4
      <4> QED BY <4>1, <4>2, <4>3, <4>4
    <3>4. ASSUME NEW s \in 1 .. Len(list'), list'[s] # All PROVE gone'[list'[s]] = 0
      <4>1. CASE s = Len(list) + 1
        BY <1>1, <3>2, <4>1
      <4>2. CASE s \in 1 .. Len(list)
        BY <1>1, <3>2, <3>4, <4>2 DEF SilentInv, NullSlots
      <4> QED BY <1>1, <3>2, <4>1, <4>2
    <3>5. Len(free') = 0
      BY <2>1, <3>1
    <3> QED BY <3>3, <3>4, <3>5 DEF NullSlots
  <2>2. CASE free # <<>>
    <3> DEFINE k == Head(free)
    <3>1. list' = [list EXCEPT ![k] = ids + 1] /\ free' = Tail(free)
      BY <2>2 DEF AddListener, Add
    <3>2. /\ Len(free') = Len(free) - 1 /\ Len(free) \in Nat /\ 1 \in 1 .. Len(free)
          /\ \A i \in 1 .. Len(free') : i + 1 \in 1 .. Len(free) /\ free'[i] = free[i + 1]
          /\ k = free[1]
      BY <1>1, <2>2, <3>1
    <3>3. k \in 1 .. Len(list) /\ list[k] = All
      BY <3>2 DEF SilentInv, TableInv, FreeSlots, NullSlots
    <3>4. /\ Len(list') = Len(list) /\ list'[k] = ids + 1
          /\ \A s \in 1 .. Len(list) : s # k => list'[s] = list[s]
      BY <1>1, <3>1, <3>3
    <3> HIDE DEF k
    <3>5. ASSUME NEW i \in 1 .. Len(free') PROVE list'[free'[i]] = All
      <4>1. i + 1 \in 1 .. Len(free) /\ free'[i] = free[i + 1] /\ i + 1 # 1
        BY <3>2
      <4>2. free[i + 1] # k /\ free[i + 1] \in 1 .. Len(list) /\ list[free[i + 1]] = All
        BY <3>2, <4>1 DEF SilentInv, NullSlots, TableInv, FreeSlots
      <4> QED BY <3>4, <4>1, <4>2
    <3>6. ASSUME NEW i \in 1 .. Len(free'), NEW j \in 1 .. Len(free'), free'[i] = free'[j]
          PROVE  i = j
      <4>1. i + 1 \in 1 .. Len(free) /\ j + 1 \in 1 .. Len(free) /\ free[i + 1] = free[j + 1]
        BY <3>2, <3>6
      <4>2. i + 1 = j + 1
        BY <4>1 DEF SilentInv, NullSlots
      <4> QED BY <4>2
    <3>7. ASSUME NEW s \in 1 .. Len(list'), NEW u \in 1 .. Len(list'), list'[s] = list'[u],
                 list'[s] # All
          PROVE  s = u
      BY <1>1, <2>0, <3>4, <3>7 DEF SilentInv, NullSlots
    <3>8. ASSUME NEW s \in 1 .. Len(list'), list'[s] # All PROVE gone'[list'[s]] = 0
      BY <1>1, <3>4, <3>8 DEF SilentInv, NullSlots
    <3> QED BY <3>5, <3>6, <3>7, <3>8 DEF NullSlots
  <2> QED BY <2>1, <2>2
<1>4. LastCall'
  <2> SUFFICES ASSUME NEW t \in 1 .. Len(threads), threads[t].at = "call"
               PROVE  /\ threads[t].calling \in 1 .. ids'
                      /\ gone[threads[t].calling] # 0 => threads[t].event < gone[threads[t].calling]
    BY <1>1 DEF LastCall
  <2>1. /\ threads[t].calling \in 1 .. ids
        /\ gone[threads[t].calling] # 0 => threads[t].event < gone[threads[t].calling]
    BY DEF SilentInv, LastCall
  <2> QED BY <1>1, <2>1
<1>5. ForAll' /\ Sent' /\ RemovedIsSilent'
  BY <1>1 DEF SilentInv, ForAll, Sent, RemovedIsSilent
<1> QED BY <1>2, <1>3, <1>4, <1>5 DEF SilentInv

LEMMA SilentRemove ==
    ASSUME OfConnections, SilentInv, TableInv', NEW slot \in Ids, RemoveListener(slot)
    PROVE  SilentInv'
<1> DEFINE l == list[slot]
<1>1. /\ list \in Seq(Ids \cup {All}) /\ free \in Seq(Nat) /\ log \in Seq(Ids \cup {All})
      /\ slot \in 1 .. Len(list) /\ slot \in Nat /\ l # All /\ l \in Ids
      /\ gone \in [Ids -> Nat] /\ Len(log) \in Nat
      /\ UNCHANGED <<threads, ids, since, queue, log, heard>>
  <2>1. /\ list \in Seq(Ids \cup {All}) /\ slot \in DOMAIN list /\ l # All
        /\ UNCHANGED <<threads, ids, since, queue, log, heard>>
    BY DEF SilentInv, TableInv, RemoveListener, mainVars
  <2> QED BY <2>1 DEF SilentInv, TableInv, Ids
<1>2. /\ free' = Append(free, slot) /\ Len(free') = Len(free) + 1 /\ free'[Len(free) + 1] = slot
      /\ \A i \in 1 .. Len(free) : free'[i] = free[i]
      /\ Len(free) \in Nat
  BY <1>1 DEF RemoveListener, Erase
<1>3. /\ Len(list') = Len(list) /\ list'[slot] = All
      /\ \A s \in 1 .. Len(list) : s # slot => list'[s] = list[s]
  <2>1. list' = [list EXCEPT ![slot] = All]
    BY DEF RemoveListener, Erase, OfConnections
  <2> QED BY <1>1, <2>1
<1>4. /\ gone'[l] = IF gone[l] = 0 THEN Len(log) + 1 ELSE gone[l]
      /\ \A k \in Ids : k # l => gone'[k] = gone[k]
  <2>1. gone' = [gone EXCEPT ![l] = IF gone[l] = 0 THEN Len(log) + 1 ELSE gone[l]]
    BY DEF RemoveListener
  <2> HIDE DEF l
  <2> QED BY <1>1, <2>1
<1>5. gone[l] = 0 /\ gone'[l] = Len(log) + 1
  BY <1>1, <1>4 DEF SilentInv, NullSlots
<1> HIDE DEF l
<1>6. NullSlots'
  <2>0. \A i \in 1 .. Len(free) :
           free[i] \in 1 .. Len(list) /\ list[free[i]] = All /\ free[i] # slot
    BY <1>1 DEF SilentInv, TableInv, FreeSlots, NullSlots, l
  <2>1. ASSUME NEW i \in 1 .. Len(free') PROVE list'[free'[i]] = All
    <3>1. CASE i = Len(free) + 1
      BY <1>2, <1>3, <3>1
    <3>2. CASE i \in 1 .. Len(free)
      BY <1>2, <1>3, <2>0, <3>2
    <3> QED BY <1>2, <3>1, <3>2
  <2>2. ASSUME NEW i \in 1 .. Len(free'), NEW j \in 1 .. Len(free'), free'[i] = free'[j] PROVE i = j
    <3>1. CASE i \in 1 .. Len(free) /\ j \in 1 .. Len(free)
      BY <1>2, <2>2, <3>1 DEF SilentInv, NullSlots
    <3>2. CASE ~ (i \in 1 .. Len(free) /\ j \in 1 .. Len(free))
      BY <1>2, <2>0, <2>2, <3>2
    <3> QED BY <3>1, <3>2
  <2>3. ASSUME NEW s \in 1 .. Len(list'), NEW u \in 1 .. Len(list'), list'[s] = list'[u],
               list'[s] # All
        PROVE  s = u
    BY <1>3, <2>3 DEF SilentInv, NullSlots
  <2>4. ASSUME NEW s \in 1 .. Len(list'), list'[s] # All PROVE gone'[list'[s]] = 0
    <3>1. s # slot /\ s \in 1 .. Len(list) /\ list'[s] = list[s] /\ list[s] # l
      BY <1>1, <1>3, <2>4 DEF SilentInv, NullSlots, l
    <3>2. list[s] \in Ids /\ gone[list[s]] = 0
      BY <1>1, <2>4, <3>1 DEF SilentInv, NullSlots
    <3> QED BY <1>4, <3>1, <3>2
  <2> QED BY <2>1, <2>2, <2>3, <2>4 DEF NullSlots
<1>7. LastCall'
  <2> SUFFICES ASSUME NEW t \in 1 .. Len(threads), threads[t].at = "call"
               PROVE  /\ threads[t].calling \in 1 .. ids
                      /\ gone'[threads[t].calling] # 0 => threads[t].event < gone'[threads[t].calling]
    BY <1>1 DEF LastCall
  <2>1. /\ threads[t].calling \in 1 .. ids
        /\ gone[threads[t].calling] # 0 => threads[t].event < gone[threads[t].calling]
        /\ threads[t].event <= Len(log) /\ threads[t].event \in Nat /\ threads[t].calling \in Ids
    <3>1. threads[t] \in NotifierThread /\ ids \in 0 .. MaxAdds /\ MaxAdds \in Nat
      BY NotifierAssumption DEF SilentInv, HandTypes, TableInv
    <3>2. threads[t].calling \in 1 .. ids
      BY DEF SilentInv, LastCall
    <3> QED BY <3>1, <3>2 DEF SilentInv, LastCall, Sent, NotifierThread, Ids
  <2>2. CASE threads[t].calling = l
    BY <1>1, <1>5, <2>1, <2>2
  <2>3. CASE threads[t].calling # l
    BY <1>4, <2>1, <2>3
  <2> QED BY <2>2, <2>3
<1>8. RemovedIsSilent'
  <2> SUFFICES ASSUME NEW k \in Ids, gone'[k] # 0, NEW i \in DOMAIN heard[k]
               PROVE  heard[k][i] < gone'[k]
    BY <1>1 DEF RemovedIsSilent
  <2>1. heard \in [Ids -> Seq(Nat)]
    BY DEF SilentInv, HandTypes
  <2>2. i \in 1 .. Len(heard[k]) /\ heard[k][i] \in Nat
    BY <2>1
  <2>3. CASE k = l
    <3>1. heard[k][i] <= Len(log)
      BY <2>2 DEF SilentInv, Sent
    <3> QED BY <1>1, <1>5, <2>2, <2>3, <3>1
  <2>4. CASE k # l
    BY <1>4, <2>4 DEF SilentInv, RemovedIsSilent
  <2> QED BY <2>3, <2>4
<1>9. HandTypes' /\ ForAll' /\ Sent'
  BY <1>1 DEF SilentInv, HandTypes, ForAll, Sent
<1> QED BY <1>6, <1>7, <1>8, <1>9 DEF SilentInv

LEMMA SilentNotify ==
    ASSUME SilentInv, TableInv', Notify(All) PROVE SilentInv'
<1>1. /\ queue \in Seq(NotifierItem) /\ log \in Seq(Ids \cup {All}) /\ heard \in [Ids -> Seq(Nat)]
      /\ Len(log) \in Nat
      /\ UNCHANGED <<threads, list, free, ids, since, gone, heard>>
      /\ threads \in Seq(NotifierThread)
  BY DEF SilentInv, TableInv, HandTypes, Notify, tableVars, NotifierItem
<1> DEFINE new == [event |-> Len(log) + 1, only |-> All]
<1>2. /\ log' = Append(log, All) /\ Len(log') = Len(log) + 1 /\ log'[Len(log) + 1] = All
      /\ \A i \in 1 .. Len(log) : log'[i] = log[i]
  BY <1>1 DEF Notify
<1>3. new \in NotifierItem /\ new.event = Len(log) + 1 /\ new.only = All
  BY <1>1 DEF NotifierItem
<1>4. queue' = Append(queue, new)
  BY DEF Notify
<1> HIDE DEF new
<1>5. /\ queue' \in Seq(NotifierItem) /\ Len(queue') = Len(queue) + 1 /\ queue'[Len(queue) + 1] = new
      /\ \A i \in 1 .. Len(queue) : queue'[i] = queue[i]
      /\ Len(queue) \in Nat
  BY <1>1, <1>3, <1>4
<1>6. HandTypes'
  BY <1>1, <1>5 DEF SilentInv, HandTypes, NotifierItem
<1>7. ForAll'
  <2>1. \A i \in 1 .. Len(queue') : queue'[i].only = All
    BY <1>3, <1>5 DEF SilentInv, ForAll
  <2>2. \A i \in 1 .. Len(log') : log'[i] = All
    BY <1>1, <1>2 DEF SilentInv, ForAll
  <2> QED BY <1>1, <2>1, <2>2 DEF SilentInv, ForAll
<1>8. Sent'
  <2>1. ASSUME NEW i \in 1 .. Len(queue') PROVE queue'[i].event <= Len(log')
    <3>1. CASE i = Len(queue) + 1
      BY <1>1, <1>2, <1>3, <1>5, <3>1
    <3>2. CASE i \in 1 .. Len(queue)
      <4>1. queue[i].event <= Len(log) /\ queue[i].event \in Nat
        <5>1. queue[i] \in NotifierItem
          BY <1>1, <3>2
        <5> QED BY <3>2, <5>1 DEF SilentInv, Sent, NotifierItem
      <4> QED BY <1>1, <1>2, <1>5, <3>2, <4>1
    <3> QED BY <1>5, <3>1, <3>2
  <2>2. ASSUME NEW t \in 1 .. Len(threads) PROVE threads[t].event <= Len(log')
    <3>1. threads[t].event <= Len(log) /\ threads[t].event \in Nat
      <4>1. threads[t] \in NotifierThread
        BY <1>1
      <4> QED BY <4>1 DEF SilentInv, Sent, NotifierThread
    <3> QED BY <1>1, <1>2, <3>1
  <2>3. ASSUME NEW k \in Ids, NEW i \in 1 .. Len(heard[k]) PROVE heard[k][i] <= Len(log')
    <3>1. heard[k][i] <= Len(log) /\ heard[k][i] \in Nat
      BY <1>1 DEF SilentInv, Sent
    <3> QED BY <1>1, <1>2, <3>1
  <2> QED BY <1>1, <2>1, <2>2, <2>3 DEF Sent
<1>9. NullSlots' /\ LastCall' /\ RemovedIsSilent'
  BY <1>1 DEF SilentInv, NullSlots, LastCall, RemovedIsSilent
<1> QED BY <1>6, <1>7, <1>8, <1>9 DEF SilentInv

\* the thread that Start made
NewThread == [at |-> "run", event |-> 0, only |-> All, index |-> 1, calling |-> All]

LEMMA Appended ==
    ASSUME HandTypes, StartThread
    PROVE  /\ NewThread \in NotifierThread /\ threads \in Seq(NotifierThread)
           /\ threads' \in Seq(NotifierThread) /\ Len(threads') = Len(threads) + 1
           /\ threads'[Len(threads) + 1] = NewThread
           /\ \A t \in 1 .. Len(threads) : threads'[t] = threads[t]
           /\ Len(threads) \in Nat
<1>1. NewThread \in NotifierThread
  BY DEF NewThread, NotifierThread, ThreadPlaces
<1>2. threads' = Append(threads, NewThread) /\ threads \in Seq(NotifierThread)
  BY DEF StartThread, HandTypes, NewThread
<1> QED BY <1>1, <1>2

LEMMA SilentStarts ==
    ASSUME SilentInv, TableInv', StartThread PROVE SilentInv'
<1>1. /\ UNCHANGED <<list, free, ids, since, gone, queue, log, heard>> /\ Len(log) \in Nat
      /\ HandTypes
  BY DEF SilentInv, StartThread, tableVars, TableInv
<1>2. NewThread.at = "run" /\ NewThread.event = 0 /\ NewThread.only = All
  BY DEF NewThread
<1>3. HandTypes'
  BY <1>1, Appended DEF HandTypes
<1>4. ASSUME NEW t \in 1 .. Len(threads')
      PROVE  (t \in 1 .. Len(threads) /\ threads'[t] = threads[t]) \/ threads'[t] = NewThread
  BY <1>1, Appended
<1>5. ForAll' /\ Sent'
  BY <1>1, <1>2, <1>4 DEF SilentInv, ForAll, Sent
<1>6. LastCall'
  BY <1>1, <1>2, <1>4 DEF SilentInv, LastCall
<1>7. NullSlots' /\ RemovedIsSilent'
  BY <1>1 DEF SilentInv, NullSlots, RemovedIsSilent
<1> QED BY <1>3, <1>5, <1>6, <1>7 DEF SilentInv

LEMMA SilentStutters ==
    ASSUME SilentInv, UNCHANGED <<tableInvVars, threads, queue, since, heard>> PROVE SilentInv'
  BY TableStutters DEF SilentInv, tableInvVars, HandTypes, ForAll, NullSlots, Sent, LastCall,
                       RemovedIsSilent

LEMMA SilentInitially ==
    ASSUME NotifierInit PROVE SilentInv
<1>1. /\ threads = <<>> /\ queue = <<>> /\ log = <<>> /\ list = <<>> /\ free = <<>>
      /\ gone = [l \in Ids |-> 0] /\ since = [l \in Ids |-> 0] /\ heard = [l \in Ids |-> <<>>]
  BY DEF NotifierInit
<1>2. Len(threads) = 0 /\ Len(queue) = 0 /\ Len(log) = 0 /\ Len(list) = 0 /\ Len(free) = 0
  BY <1>1
<1>3. HandTypes
  BY <1>1 DEF HandTypes
<1>4. \A l \in Ids : Len(heard[l]) = 0 /\ gone[l] = 0
  BY <1>1
<1>5. Sent
  BY <1>2, <1>4 DEF Sent
<1>6. ForAll /\ NullSlots /\ LastCall /\ RemovedIsSilent
  BY <1>2, <1>4 DEF ForAll, NullSlots, LastCall, RemovedIsSilent
<1> QED BY <1>3, <1>5, <1>6, TableInitially DEF SilentInv

LEMMA SilentStep ==
    ASSUME OfConnections, SilentInv, [NotifierNext]_notifierVars PROVE SilentInv'
<1>0. TableInv'
  BY TableStep DEF SilentInv
<1>1. CASE UNCHANGED notifierVars
  BY <1>1, SilentStutters DEF notifierVars, mainVars, tableVars, tableInvVars
<1>2. CASE AddListener
  BY <1>0, <1>2, SilentAdd
<1>3. CASE \E slot \in Ids : RemoveListener(slot)
  BY <1>0, <1>3, SilentRemove
<1>4. CASE \E only \in {All} \cup (IF Direct THEN 1 .. ids ELSE {}) : Notify(only)
  BY <1>0, <1>4, SilentNotify DEF OfConnections
<1>5. ASSUME NEW t \in DOMAIN threads, Main(t) \/ CallbackThrows(t) PROVE SilentInv'
  BY <1>0, <1>5, SilentThread
<1>6. CASE StartThread
  BY <1>0, <1>6, SilentStarts
<1>7. CASE NotifierStart \/ NotifierStop \/ StopSets \/ StopWaits
  <2>1. UNCHANGED <<tableInvVars, threads, queue, since, heard>>
    BY <1>7 DEF NotifierStart, NotifierStop, StopSets, StopWaits, tableVars, tableInvVars
  <2> QED BY <2>1, SilentStutters
<1> QED BY <1>1, <1>2, <1>3, <1>4, <1>5, <1>6, <1>7 DEF NotifierNext

\* "continue; //removed" (Notifier.cs:211): a connection listener hears of nothing
\* that was sent after it was removed, with any number of threads, of which some
\* may be calling it, and callbacks that throw.
THEOREM RemovedIsSilentHolds ==
    ASSUME OfConnections PROVE NotifierSpec => []RemovedIsSilent
<1>1. NotifierInit => SilentInv
  BY SilentInitially
<1>2. SilentInv /\ [NotifierNext]_notifierVars => SilentInv'
  BY SilentStep
<1>3. SilentInv => RemovedIsSilent
  BY DEF SilentInv
<1> QED BY <1>1, <1>2, <1>3, PTL DEF NotifierSpec
-----------------------------------------------------------------------------
(* The loop, with one thread at a time and callbacks that return. *)

OneAtATime == Overlap = FALSE /\ Throwing = FALSE

LoopTypes ==
    /\ threads \in Seq(NotifierThread) /\ queue \in Seq(NotifierItem)
    /\ list \in Seq(Ids \cup {All}) /\ log \in Seq(Ids \cup {All})
    /\ heard \in [Ids -> Seq(Nat)] /\ since \in [Ids -> Nat] /\ ids \in 0 .. MaxAdds
    /\ MaxAdds \in Nat

LEMMA LoopTyped ==
    ASSUME SilentInv PROVE LoopTypes
  BY NotifierAssumption DEF SilentInv, TableInv, HandTypes, LoopTypes, NotifierItem

\* the sequences' lengths are numbers
LEMMA LoopLengths ==
    ASSUME LoopTypes
    PROVE  /\ Len(threads) \in Nat /\ Len(queue) \in Nat /\ Len(list) \in Nat /\ Len(log) \in Nat
           /\ DOMAIN threads = 1 .. Len(threads) /\ DOMAIN list = 1 .. Len(list)
           /\ \A l \in Ids : Len(heard[l]) \in Nat
  BY DEF LoopTypes

LEMMA ThreadTyped ==
    ASSUME LoopTypes, NEW t \in 1 .. Len(threads)
    PROVE  /\ threads[t] \in NotifierThread /\ threads[t].event \in Nat
           /\ threads[t].index \in Nat \ {0} /\ threads[t].calling \in Ids \cup {All}
<1>1. threads[t] \in NotifierThread
  BY DEF LoopTypes
<1> QED BY <1>1 DEF NotifierThread

Living == {"run", "wait", "scan", "call"}

\* While one thread goes on the others are over.
LEMMA OnlyOne ==
    ASSUME LoopTypes, OneThread, NEW t \in 1 .. Len(threads), threads[t].at \in Living
    PROVE  /\ \A k \in 1 .. Len(threads) : k # t => threads[k].at = "ended"
           /\ ~ starter /\ t \in Unended
<1>1. t \in Unended /\ DOMAIN threads = 1 .. Len(threads)
  BY LoopLengths DEF Living, Unended
<1>2. ASSUME NEW k \in 1 .. Len(threads), k # t PROVE threads[k].at = "ended"
  <2>1. k \notin Unended
    BY <1>1, <1>2 DEF OneThread
  <2> QED BY <1>1, <2>1 DEF Unended, OneThread
<1> QED BY <1>1, <1>2 DEF OneThread

LEMMA StepLives ==
    ASSUME NEW t, NEW u, ThreadStep(t, u) PROVE threads[t].at \in Living
  BY DEF ThreadStep, RunsOn, Pops, Skips, Begins, Returns, Throws, EndsScan, Living

\* What a thread has in hand was sent before all that is in the queue.
LEMMA HandIsLast ==
    ASSUME LoopTypes, InOrder, NEW t \in 1 .. Len(threads), Handling(threads[t])
    PROVE  threads[t].event = Len(log) - Len(queue)
  BY DEF InOrder

LEMMA PopsInTurn ==
    ASSUME LoopInv, LoopTypes, NEW t \in 1 .. Len(threads), NEW u \in NotifierThread,
           Pops(t, u), UNCHANGED <<list, since, log>>
    PROVE  Unreached(u)' /\ Behind(u)' /\ u.event = Len(log) - Len(queue) + 1
<1>1. /\ Len(queue) \in Nat /\ Len(log) \in Nat /\ 1 \in 1 .. Len(queue) /\ Head(queue) = queue[1]
  <2>1. queue \in Seq(NotifierItem) /\ queue # <<>> /\ log \in Seq(Ids \cup {All})
    BY DEF LoopTypes, Pops
  <2> QED BY <2>1
<1>2. u.event = Len(log) - Len(queue) + 1
  BY <1>1 DEF Pops, LoopInv, InOrder
<1>3. /\ u.at = "scan" /\ u.index = 1 /\ heard' = heard /\ list' = list
  BY DEF Pops
<1>4. Unreached(u)'
  <2> SUFFICES ASSUME NEW s \in 1 .. Len(list), list[s] # All, NEW i \in 1 .. Len(heard[list[s]])
               PROVE  heard[list[s]][i] < u.event
    BY <1>3 DEF Unreached, ToCome
  <2>1. list[s] \in Ids /\ heard[list[s]] \in Seq(Nat)
    BY DEF LoopTypes
  <2>2. heard[list[s]][i] \in Nat
    BY <2>1
  <2>3. heard[list[s]][i] <= Len(log) - Len(queue)
    BY <2>1 DEF LoopInv, HeardSoFar
  <2> QED BY <1>1, <1>2, <2>2, <2>3
<1>5. Behind(u)'
  <2>1. ASSUME NEW s \in 1 .. Len(list), Passed(u, s)' PROVE FALSE
    BY <1>3, <2>1 DEF Passed
  <2> QED BY <1>3, <2>1 DEF Behind
<1> QED BY <1>2, <1>4, <1>5

LEMMA SkipsInTurn ==
    ASSUME LoopTypes, NEW t \in 1 .. Len(threads), NEW u \in NotifierThread,
           Unreached(threads[t]), Behind(threads[t]), Skips(t, u), UNCHANGED <<list, since>>
    PROVE  Unreached(u)' /\ Behind(u)'
<1> DEFINE n == threads[t].index
<1>1. /\ n \in Nat /\ threads[t].at = "scan" /\ list[n] = All /\ UNCHANGED <<list, since, heard>>
      /\ u.at = "scan" /\ u.event = threads[t].event /\ u.index = n + 1
  BY ThreadTyped DEF Skips
<1>2. ASSUME NEW s \in 1 .. Len(list), ToCome(u, s) PROVE ToCome(threads[t], s)
  BY <1>1, <1>2 DEF ToCome
<1>3. ASSUME NEW s \in 1 .. Len(list), Passed(u, s) PROVE Passed(threads[t], s)
  BY <1>1, <1>3 DEF Passed
<1> QED BY <1>1, <1>2, <1>3 DEF Unreached, Behind, ToCome, Passed

LEMMA BeginsInTurn ==
    ASSUME LoopTypes, NullSlots, NEW t \in 1 .. Len(threads), NEW u \in NotifierThread,
           Unreached(threads[t]), Behind(threads[t]), Begins(t, u), UNCHANGED <<list, since>>
    PROVE  Unreached(u)' /\ Behind(u)'
<1> DEFINE n == threads[t].index
<1>1. /\ n \in Nat \ {0} /\ threads[t].at = "scan" /\ n <= Len(list) /\ list[n] # All
      /\ UNCHANGED <<list, since, heard>>
      /\ u.at = "call" /\ u.event = threads[t].event /\ u.index = n /\ u.calling = list[n]
      /\ Len(list) \in Nat
  BY ThreadTyped, LoopLengths DEF Begins
<1>2. n \in 1 .. Len(list) /\ ToCome(threads[t], n)
  BY <1>1 DEF ToCome
<1>3. ASSUME NEW s \in 1 .. Len(list), ToCome(u, s) PROVE ToCome(threads[t], s)
  BY <1>1, <1>3 DEF ToCome
<1>4. ASSUME NEW s \in 1 .. Len(list), Passed(u, s) PROVE Passed(threads[t], s)
  BY <1>1, <1>4 DEF Passed
<1>5. \A i \in 1 .. Len(heard[list[n]]) : heard[list[n]][i] < threads[t].event
  BY <1>2 DEF Unreached
<1>6. \A s \in 1 .. Len(list) : list[s] = list[n] => s = n
  BY <1>1, <1>2 DEF NullSlots
<1> HIDE DEF n
<1>7. Unreached(u)'
  <2>1. Unreached(u)
    BY <1>1, <1>3, <1>5, <1>6 DEF Unreached
  <2> QED BY <1>1, <2>1 DEF Unreached, ToCome
<1>8. Behind(u)'
  <2>1. Behind(u)
    BY <1>1, <1>4 DEF Behind
  <2> QED BY <1>1, <2>1 DEF Behind, Passed
<1> QED BY <1>7, <1>8

\* Only the one who was called hears of it.
LEMMA ReturnsHeard ==
    ASSUME LoopTypes, NEW t \in 1 .. Len(threads), NEW u, Returns(t, u), threads[t].calling # All
    PROVE  LET l == threads[t].calling
           IN  /\ l \in Ids /\ Len(heard'[l]) = Len(heard[l]) + 1
               /\ heard'[l] # <<>> /\ heard'[l][Len(heard'[l])] = threads[t].event
               /\ \A i \in 1 .. Len(heard[l]) : heard'[l][i] = heard[l][i]
               /\ \A k \in Ids : k # l => heard'[k] = heard[k]
<1> DEFINE l == threads[t].calling
           e == threads[t].event
<1>1. l \in Ids /\ e \in Nat /\ heard \in [Ids -> Seq(Nat)]
  BY ThreadTyped DEF LoopTypes
<1>2. heard' = [heard EXCEPT ![l] = Append(heard[l], e)]
  BY DEF Returns
<1> HIDE DEF l, e
<1>3. heard'[l] = Append(heard[l], e) /\ heard[l] \in Seq(Nat)
      /\ \A k \in Ids : k # l => heard'[k] = heard[k]
  BY <1>1, <1>2
<1>4. /\ Len(heard'[l]) = Len(heard[l]) + 1 /\ heard'[l] # <<>>
      /\ heard'[l][Len(heard[l]) + 1] = e
      /\ \A i \in 1 .. Len(heard[l]) : heard'[l][i] = heard[l][i]
  <2> DEFINE h == heard[l]
  <2>1. h \in Seq(Nat) /\ heard'[l] = Append(h, e) /\ e \in Nat
    BY <1>1, <1>3
  <2> HIDE DEF h
  <2>2. /\ Len(Append(h, e)) = Len(h) + 1 /\ Append(h, e) # <<>>
        /\ Append(h, e)[Len(h) + 1] = e /\ \A i \in 1 .. Len(h) : Append(h, e)[i] = h[i]
    BY <2>1
  <2> QED BY <2>1, <2>2 DEF h
<1>5. /\ l \in Ids /\ Len(heard'[l]) = Len(heard[l]) + 1
      /\ heard'[l] # <<>> /\ heard'[l][Len(heard'[l])] = e
      /\ \A i \in 1 .. Len(heard[l]) : heard'[l][i] = heard[l][i]
      /\ \A k \in Ids : k # l => heard'[k] = heard[k]
  BY <1>1, <1>3, <1>4
<1> QED BY <1>5 DEF l, e

LEMMA ReturnsInTurn ==
    ASSUME LoopTypes, NEW t \in 1 .. Len(threads), NEW u \in NotifierThread, threads[t].calling # All,
           Unreached(threads[t]), Behind(threads[t]), Returns(t, u), UNCHANGED <<list, since>>
    PROVE  Unreached(u)' /\ Behind(u)'
<1> DEFINE n == threads[t].index
           l == threads[t].calling
           e == threads[t].event
<1>1. /\ n \in Nat \ {0} /\ threads[t].at = "call" /\ UNCHANGED <<list, since>>
      /\ u.at = "scan" /\ u.event = e /\ u.index = n + 1
      /\ Len(list) \in Nat /\ list \in Seq(Ids \cup {All})
  BY ThreadTyped, LoopLengths DEF Returns, LoopTypes
<1>2. /\ l \in Ids /\ heard'[l] # <<>> /\ heard'[l][Len(heard'[l])] = e
      /\ \A k \in Ids : k # l => heard'[k] = heard[k]
  BY ReturnsHeard
<1>3. \A s \in 1 .. Len(list) : list[s] = l => s = n
  BY <1>1 DEF Unreached
<1>4. Unreached(u)'
  <2> SUFFICES ASSUME NEW s \in 1 .. Len(list), ToCome(u, s)
               PROVE  \A i \in 1 .. Len(heard'[list[s]]) : heard'[list[s]][i] < e
    BY <1>1 DEF Unreached, ToCome
  <2>1. s > n /\ list[s] # All /\ ToCome(threads[t], s)
    BY <1>1 DEF ToCome
  <2>2. list[s] \in Ids /\ list[s] # l
    <3>1. list[s] \in Ids /\ s # n
      BY <1>1, <2>1
    <3> QED BY <1>3, <3>1
  <2>3. \A i \in 1 .. Len(heard[list[s]]) : heard[list[s]][i] < e
    BY <2>1 DEF Unreached
  <2> QED BY <1>2, <2>2, <2>3
<1>5. Behind(u)'
  <2> SUFFICES ASSUME NEW s \in 1 .. Len(list), Passed(u, s), since[list[s]] < e
               PROVE  /\ heard'[list[s]] # <<>>
                      /\ heard'[list[s]][Len(heard'[list[s]])] = e
    BY <1>1 DEF Behind, Passed
  <2>1. list[s] # All /\ s <= n /\ list[s] \in Ids
    <3>1. list[s] # All /\ s < n + 1
      BY <1>1 DEF Passed
    <3> QED BY <1>1, <3>1
  <2>2. CASE list[s] = l
    BY <1>2, <2>2
  <2>3. CASE list[s] # l
    <3>1. Passed(threads[t], s)
      BY <1>1, <2>1, <2>3 DEF Passed
    <3>2. heard[list[s]] # <<>> /\ heard[list[s]][Len(heard[list[s]])] = e
      BY <3>1 DEF Behind
    <3> QED BY <1>2, <2>1, <2>3, <3>2
  <2> QED BY <2>2, <2>3
<1> QED BY <1>4, <1>5

\* InTurn is kept by whatever leaves the log, and what a thread is at, as it is.
LEMMA StepInTurn ==
    ASSUME LoopInv, LoopTypes, Throwing = FALSE, NEW t \in 1 .. Len(threads),
           NEW u \in NotifierThread, ThreadStep(t, u), UNCHANGED <<list, since, log>>
    PROVE  /\ Handling(u) => Unreached(u)' /\ Behind(u)'
           /\ u.at # "faulted"
           /\ u.event # 0 <=> Handling(u)
           /\ u.calling # All <=> u.at = "call"
           /\ Handling(u) => u.event = Len(log) - Len(queue')
           /\ Pops(t, u) \/ (queue' = queue /\ (Handling(u) => Handling(threads[t])))
           /\ u.at \in Living => threads[t].at \in Living
<1>1. /\ threads[t].event # 0 <=> Handling(threads[t])
      /\ threads[t].calling # All <=> threads[t].at = "call"
      /\ Handling(threads[t]) => threads[t].event = Len(log) - Len(queue)
      /\ Handling(threads[t]) => Unreached(threads[t]) /\ Behind(threads[t])
      /\ NullSlots
  BY DEF LoopInv, OneThread, InOrder, InTurn, SilentInv
<1>2. Len(log) \in Nat /\ Len(queue) \in Nat /\ Len(list) \in Nat
  BY LoopLengths
<1>3. CASE RunsOn(t, u)
  BY <1>1, <1>3 DEF RunsOn, Keeps, Handling, Living
<1>4. CASE Pops(t, u)
  <2>1. Unreached(u)' /\ Behind(u)' /\ u.event = Len(log) - Len(queue) + 1
    BY <1>4, PopsInTurn
  <2>2. Len(queue') = Len(queue) - 1 /\ Len(queue) <= Len(log)
    <3>1. queue \in Seq(NotifierItem) /\ queue # <<>> /\ queue' = Tail(queue)
      BY <1>4 DEF LoopTypes, Pops
    <3>2. Len(queue') = Len(queue) - 1
      BY <3>1
    <3> QED BY <3>2 DEF LoopInv, InOrder
  <2>3. u.event # 0 /\ u.event = Len(log) - Len(queue')
    BY <1>2, <2>1, <2>2
  <2> QED BY <1>4, <2>1, <2>3 DEF Pops, Handling, Living
<1>5. CASE Skips(t, u)
  <2>1. Handling(threads[t]) /\ threads[t].at # "call"
    BY <1>5 DEF Skips, Handling
  <2>2. Unreached(u)' /\ Behind(u)'
    BY <1>1, <1>5, <2>1, SkipsInTurn
  <2> QED BY <1>1, <1>5, <2>1, <2>2 DEF Skips, Handling, Living
<1>6. CASE Begins(t, u)
  <2>1. Handling(threads[t])
    BY <1>6 DEF Begins, Handling
  <2>2. Unreached(u)' /\ Behind(u)'
    BY <1>1, <1>6, <2>1, BeginsInTurn
  <2> QED BY <1>1, <1>6, <2>1, <2>2 DEF Begins, Handling, Living
<1>7. CASE Returns(t, u)
  <2>1. Handling(threads[t]) /\ threads[t].calling # All
    BY <1>1, <1>7 DEF Returns, Handling
  <2>2. Unreached(u)' /\ Behind(u)'
    BY <1>1, <1>7, <2>1, ReturnsInTurn
  <2> QED BY <1>1, <1>7, <2>1, <2>2 DEF Returns, Handling, Living
<1>8. CASE EndsScan(t, u)
  <2>1. threads[t].at = "scan" /\ u.at = "run" /\ u.event = 0 /\ u.calling = threads[t].calling
        /\ queue' = queue
    BY <1>8 DEF EndsScan
  <2> QED BY <1>1, <2>1 DEF Handling, Living
<1> QED BY <1>3, <1>4, <1>5, <1>6, <1>7, <1>8 DEF ThreadStep, Throws

LEMMA LoopThread ==
    ASSUME OfConnections, OneAtATime, LoopInv, SilentInv',
           NEW t \in DOMAIN threads, Main(t) \/ CallbackThrows(t)
    PROVE  LoopInv'
<1>1. /\ LoopTypes /\ HandTypes /\ ForAll /\ list \in Seq(Ids \cup {All})
      /\ OneThread /\ InOrder /\ HeardSoFar /\ Throwing = FALSE
  BY LoopTyped DEF LoopInv, SilentInv, LoopTypes, OneAtATime
<1>2. PICK u \in NotifierThread : u.only = All /\ Goes(t, u) /\ ThreadStep(t, u) /\ Others
  BY <1>1, ThreadSteps
<1>3. t \in 1 .. Len(threads) /\ UNCHANGED <<list, since, log, ids, starter>>
  BY <1>1, <1>2, LoopLengths DEF Others, tableVars
<1>4. /\ threads' \in Seq(NotifierThread) /\ Len(threads') = Len(threads) /\ threads'[t] = u
      /\ \A k \in 1 .. Len(threads) : k # t => threads'[k] = threads[k]
      /\ DOMAIN threads' = 1 .. Len(threads)
  <2>1. threads \in Seq(NotifierThread)
    BY <1>1 DEF LoopTypes
  <2>2. /\ threads' \in Seq(NotifierThread) /\ Len(threads') = Len(threads) /\ threads'[t] = u
        /\ \A k \in 1 .. Len(threads) : k # t => threads'[k] = threads[k]
    BY <1>2, <1>3, <2>1, ThreadGoes
  <2> QED BY <2>2
<1>5. /\ \A k \in 1 .. Len(threads) : k # t => threads[k].at = "ended"
      /\ ~ starter /\ t \in Unended
  BY <1>1, <1>2, <1>3, OnlyOne, StepLives
<1>6. /\ Handling(u) => Unreached(u)' /\ Behind(u)'
      /\ u.at # "faulted"
      /\ u.event # 0 <=> Handling(u)
      /\ u.calling # All <=> u.at = "call"
      /\ Handling(u) => u.event = Len(log) - Len(queue')
      /\ Pops(t, u) \/ (queue' = queue /\ (Handling(u) => Handling(threads[t])))
  BY <1>1, <1>2, <1>3, StepInTurn
<1>7. \A k \in 1 .. Len(threads) :
         k # t => threads'[k].at = "ended" /\ ~ Handling(threads'[k])
  BY <1>4, <1>5 DEF Handling
<1>8. OneThread'
  <2>1. \A k, j \in Unended' : k = j
    BY <1>4, <1>7 DEF Unended
  <2>2. ~ starter'
    BY <1>3, <1>5
  <2>3. \A k \in 1 .. Len(threads') :
          /\ threads'[k].at # "faulted"
          /\ threads'[k].event # 0 <=> Handling(threads'[k])
          /\ threads'[k].calling # All <=> threads'[k].at = "call"
    <3> SUFFICES ASSUME NEW k \in 1 .. Len(threads)
                 PROVE  /\ threads'[k].at # "faulted"
                        /\ threads'[k].event # 0 <=> Handling(threads'[k])
                        /\ threads'[k].calling # All <=> threads'[k].at = "call"
      BY <1>4
    <3>1. CASE k = t
      BY <1>4, <1>6, <3>1
    <3>2. CASE k # t
      BY <1>1, <1>4, <3>2 DEF OneThread
    <3> QED BY <3>1, <3>2
  <2> QED BY <2>1, <2>2, <2>3 DEF OneThread
<1>9. InOrder'
  <2>1. Len(queue') <= Len(log') /\ \A i \in 1 .. Len(queue') : queue'[i].event = Len(log') - Len(queue') + i
    <3>0. Len(log) \in Nat /\ Len(queue) \in Nat
      BY <1>1, LoopLengths
    <3>1. CASE Pops(t, u)
      <4>1. queue \in Seq(NotifierItem) /\ queue # <<>> /\ queue' = Tail(queue)
        BY <1>1, <3>1 DEF LoopTypes, Pops
      <4>2. /\ Len(queue') = Len(queue) - 1
            /\ \A i \in 1 .. Len(queue') : i + 1 \in 1 .. Len(queue) /\ queue'[i] = queue[i + 1]
        BY <4>1
      <4>3. ASSUME NEW i \in 1 .. Len(queue') PROVE queue'[i].event = Len(log) - Len(queue') + i
        <5>1. queue[i + 1].event = Len(log) - Len(queue) + (i + 1)
          BY <1>1, <4>2 DEF InOrder
        <5>2. queue'[i] = queue[i + 1] /\ i \in Nat
          BY <3>0, <4>2
        <5>3. Len(log) - Len(queue) + (i + 1) = Len(log) - Len(queue') + i
          BY <3>0, <4>2, <5>2
        <5> QED BY <5>1, <5>2, <5>3
      <4>4. Len(queue') <= Len(log) /\ log' = log
        BY <1>1, <1>3, <3>0, <4>2 DEF InOrder
      <4> QED BY <4>3, <4>4
    <3>2. CASE queue' = queue
      BY <1>1, <1>3, <3>2 DEF InOrder
    <3> QED BY <1>6, <3>1, <3>2
  <2>2. ASSUME NEW k \in 1 .. Len(threads), Handling(threads'[k])
        PROVE  threads'[k].event = Len(log') - Len(queue')
    BY <1>3, <1>4, <1>6, <1>7, <2>2
  <2> QED BY <1>4, <2>1, <2>2 DEF InOrder
<1>10. HeardSoFar'
  <2>0. Len(log) \in Nat /\ Len(queue) \in Nat /\ heard \in [Ids -> Seq(Nat)]
    BY <1>1, LoopLengths DEF LoopTypes
  <2>1. CASE Returns(t, u)
    <3> DEFINE l == threads[t].calling
               e == threads[t].event
    <3>1. threads[t].at = "call" /\ queue' = queue /\ l # All
      BY <1>1, <1>3, <2>1 DEF Returns, OneThread
    <3>2. /\ l \in Ids /\ Len(heard'[l]) = Len(heard[l]) + 1
          /\ heard'[l][Len(heard'[l])] = e
          /\ \A i \in 1 .. Len(heard[l]) : heard'[l][i] = heard[l][i]
          /\ \A k \in Ids : k # l => heard'[k] = heard[k]
      BY <1>1, <1>3, <2>1, <3>1, ReturnsHeard
    <3>3. e = Len(log) - Len(queue) /\ l \in 1 .. ids
      BY <1>1, <1>3, <3>1 DEF Handling, InOrder, LoopInv, SilentInv, LastCall
    <3> HIDE DEF l, e
    <3>4. ASSUME NEW k \in Ids, NEW i \in 1 .. Len(heard'[k]) PROVE heard'[k][i] <= Len(log) - Len(queue)
      <4>1. CASE k = l
        <5>1. i \in 1 .. Len(heard[l]) \/ i = Len(heard'[l])
          BY <2>0, <3>2, <3>4, <4>1
        <5>2. CASE i \in 1 .. Len(heard[l])
          BY <1>1, <3>2, <4>1, <5>2 DEF HeardSoFar
        <5>3. CASE i = Len(heard'[l])
          BY <2>0, <3>2, <3>3, <4>1, <5>3
        <5> QED BY <5>1, <5>2, <5>3
      <4>2. CASE k # l
        BY <1>1, <3>2, <4>2 DEF HeardSoFar
      <4> QED BY <4>1, <4>2
    <3>5. ASSUME NEW k \in Ids, k > ids PROVE heard'[k] = <<>>
      <4>1. k # l
        BY <1>1, <3>3, <3>5 DEF LoopTypes, Ids
      <4> QED BY <1>1, <3>2, <3>5, <4>1 DEF HeardSoFar
    <3> QED BY <1>3, <3>1, <3>4, <3>5 DEF HeardSoFar
  <2>2. CASE Pops(t, u)
    <3>1. heard' = heard /\ Len(queue') = Len(queue) - 1
      <4>1. queue \in Seq(NotifierItem) /\ queue # <<>> /\ queue' = Tail(queue) /\ heard' = heard
        BY <1>1, <2>2 DEF LoopTypes, Pops
      <4> QED BY <4>1
    <3>2. ASSUME NEW k \in Ids, NEW i \in 1 .. Len(heard[k]) PROVE heard[k][i] <= Len(log) - Len(queue')
      <4>1. heard[k][i] <= Len(log) - Len(queue) /\ heard[k][i] \in Nat
        BY <1>1, <2>0 DEF HeardSoFar
      <4> QED BY <2>0, <3>1, <4>1
    <3> QED BY <1>1, <1>3, <3>1, <3>2 DEF HeardSoFar
  <2>3. CASE ~ Returns(t, u) /\ ~ Pops(t, u)
    <3>1. heard' = heard /\ queue' = queue
      BY <1>2, <2>3 DEF ThreadStep, RunsOn, Keeps, Skips, Begins, Throws, EndsScan
    <3> QED BY <1>1, <1>3, <3>1 DEF HeardSoFar
  <2> QED BY <2>1, <2>2, <2>3
<1>11. InTurn'
  <2> SUFFICES ASSUME NEW k \in 1 .. Len(threads), Handling(threads'[k])
               PROVE  Unreached(threads[k])' /\ Behind(threads[k])'
    BY <1>4 DEF InTurn
  <2>1. k = t /\ threads'[k] = u
    BY <1>4, <1>7
  <2>2. Unreached(u)' /\ Behind(u)'
    BY <1>6, <2>1
  <2> QED BY <2>1, <2>2 DEF Unreached, Behind, ToCome, Passed
<1> QED BY <1>8, <1>9, <1>10, <1>11 DEF LoopInv

\* What AddListener does to the table: the new one is where nobody was.
LEMMA AddedWhere ==
    ASSUME SilentInv, AddListener
    PROVE  \E n \in 1 .. Len(list') :
              /\ list'[n] = ids + 1
              /\ Len(list') \in Nat
              /\ \A s \in 1 .. Len(list') : s # n => s \in 1 .. Len(list) /\ list'[s] = list[s]
              /\ \A s \in 1 .. Len(list) : list[s] # All => s # n /\ s \in 1 .. Len(list')
<1>1. list \in Seq(Ids \cup {All}) /\ free \in Seq(Nat) /\ Len(list) \in Nat
  BY DEF SilentInv, TableInv
<1>2. CASE free = <<>>
  <2>1. list' = Append(list, ids + 1)
    BY <1>2 DEF AddListener, Add
  <2>2. /\ Len(list') = Len(list) + 1 /\ list'[Len(list) + 1] = ids + 1
        /\ \A s \in 1 .. Len(list) : list'[s] = list[s]
    BY <1>1, <2>1
  <2>3. Len(list) + 1 \in 1 .. Len(list')
    BY <1>1, <2>2
  <2> QED BY <1>1, <2>2, <2>3
<1>3. CASE free # <<>>
  <2> DEFINE k == Head(free)
  <2>1. list' = [list EXCEPT ![k] = ids + 1]
    BY <1>3 DEF AddListener, Add
  <2>2. k = free[1] /\ 1 \in 1 .. Len(free)
    BY <1>1, <1>3
  <2>3. k \in 1 .. Len(list) /\ list[k] = All
    BY <2>2 DEF SilentInv, TableInv, FreeSlots, NullSlots
  <2> HIDE DEF k
  <2>4. /\ Len(list') = Len(list) /\ list'[k] = ids + 1
        /\ \A s \in 1 .. Len(list) : s # k => list'[s] = list[s]
    BY <1>1, <2>1, <2>3
  <2> QED BY <1>1, <2>3, <2>4
<1> QED BY <1>2, <1>3

LEMMA LoopAdd ==
    ASSUME LoopInv, SilentInv', AddListener PROVE LoopInv'
<1>1. LoopTypes /\ SilentInv /\ OneThread /\ InOrder /\ HeardSoFar /\ InTurn
  BY LoopTyped DEF LoopInv
<1>2. /\ UNCHANGED <<threads, starter, queue, log, heard>> /\ ids' = ids + 1 /\ ids + 1 \in Ids
      /\ since' = [since EXCEPT ![ids + 1] = Len(log)] /\ ids \in Nat
      /\ Len(log) \in Nat /\ Len(queue) \in Nat
  BY <1>1, LoopLengths DEF AddListener, mainVars, LoopTypes, Ids
<1>3. /\ since'[ids + 1] = Len(log)
      /\ \A l \in Ids : l # ids + 1 => since'[l] = since[l]
  BY <1>1, <1>2 DEF LoopTypes
<1>4. PICK n \in 1 .. Len(list') :
              /\ list'[n] = ids + 1
              /\ Len(list') \in Nat
              /\ \A s \in 1 .. Len(list') : s # n => s \in 1 .. Len(list) /\ list'[s] = list[s]
              /\ \A s \in 1 .. Len(list) : list[s] # All => s # n /\ s \in 1 .. Len(list')
  BY <1>1, AddedWhere
<1>5. OneThread' /\ InOrder'
  BY <1>1, <1>2 DEF OneThread, InOrder, Unended
<1>6. HeardSoFar'
  BY <1>1, <1>2 DEF HeardSoFar, Ids
<1>7. \A s \in 1 .. Len(list) : list[s] # All => list[s] \in Ids /\ list[s] # ids + 1
  <2> TAKE s \in 1 .. Len(list)
  <2>1. list[s] \in Ids \cup {All} /\ list[s] <= ids
    BY <1>1 DEF SilentInv, TableInv
  <2> QED BY <1>2, <2>1
<1>8. heard[ids + 1] = <<>> /\ Len(heard[ids + 1]) = 0
  <2>1. heard[ids + 1] = <<>>
    BY <1>1, <1>2 DEF HeardSoFar
  <2> QED BY <2>1
<1>9. ASSUME NEW t \in 1 .. Len(threads), Handling(threads[t])
      PROVE  Unreached(threads[t])' /\ Behind(threads[t])'
  <2>0. PICK u \in NotifierThread : u = threads[t]
    BY <1>1, ThreadTyped
  <2>1. Unreached(u) /\ Behind(u) /\ u.event <= Len(log) /\ u.event \in Nat /\ threads'[t] = u
        /\ (u.at = "call" => u.calling \in 1 .. ids)
    BY <1>1, <1>2, <1>9, <2>0, ThreadTyped DEF InTurn, SilentInv, Sent, LastCall
  <2>2. ASSUME NEW s \in 1 .. Len(list'), ToCome(u, s)', NEW i \in 1 .. Len(heard[list'[s]])
        PROVE  heard[list'[s]][i] < u.event
    <3>1. CASE s = n
      BY <1>4, <1>8, <2>2, <3>1
    <3>2. CASE s # n
      <4>1. s \in 1 .. Len(list) /\ list'[s] = list[s]
        BY <1>4, <3>2
      <4>2. ToCome(u, s)
        BY <2>2, <4>1 DEF ToCome
      <4> QED BY <2>1, <2>2, <4>1, <4>2 DEF Unreached
    <3> QED BY <3>1, <3>2
  <2>3. ASSUME u.at = "call", NEW s \in 1 .. Len(list'), list'[s] = u.calling PROVE s = u.index
    <3>1. s # n
      BY <1>2, <1>4, <2>1, <2>3
    <3> QED BY <1>4, <2>1, <2>3, <3>1 DEF Unreached
  <2>4. Unreached(u)'
    <3>1. u.at = "call" => \A i \in 1 .. Len(heard[u.calling]) : heard[u.calling][i] < u.event
      BY <2>1 DEF Unreached
    <3> QED BY <1>2, <2>2, <2>3, <3>1 DEF Unreached
  <2>5. ASSUME NEW s \in 1 .. Len(list'), Passed(u, s)', since'[list'[s]] < u.event
        PROVE  /\ heard[list'[s]] # <<>>
               /\ heard[list'[s]][Len(heard[list'[s]])] = u.event
    <3>1. s # n
      BY <1>2, <1>3, <1>4, <2>1, <2>5
    <3>2. s \in 1 .. Len(list) /\ list'[s] = list[s]
      BY <1>4, <3>1
    <3>3. Passed(u, s) /\ list[s] # All
      BY <2>5, <3>2 DEF Passed
    <3>4. since[list[s]] < u.event
      BY <1>3, <1>7, <2>5, <3>2, <3>3
    <3> QED BY <2>1, <3>2, <3>3, <3>4 DEF Behind
  <2>6. Behind(u)'
    BY <1>2, <2>5 DEF Behind
  <2> QED BY <2>1, <2>4, <2>6 DEF Unreached, Behind, ToCome, Passed
<1>10. InTurn'
  BY <1>2, <1>9 DEF InTurn
<1> QED BY <1>5, <1>6, <1>10 DEF LoopInv

\* And RemoveListener: there is nobody in the slot.
LEMMA RemovedWhere ==
    ASSUME OfConnections, SilentInv, NEW slot \in Ids, RemoveListener(slot)
    PROVE  /\ slot \in 1 .. Len(list) /\ list[slot] \in Ids
           /\ Len(list') = Len(list) /\ list'[slot] = All
           /\ \A s \in 1 .. Len(list) : s # slot => list'[s] = list[s]
           /\ UNCHANGED <<threads, starter, ids, since, queue, log, heard>>
<1>1. list \in Seq(Ids \cup {All}) /\ slot \in DOMAIN list /\ list[slot] # All
      /\ UNCHANGED <<threads, starter, ids, since, queue, log, heard>>
  BY DEF SilentInv, TableInv, RemoveListener, mainVars
<1>2. list' = [list EXCEPT ![slot] = All]
  BY DEF RemoveListener, Erase, OfConnections
<1> QED BY <1>1, <1>2

LEMMA LoopRemove ==
    ASSUME OfConnections, LoopInv, SilentInv', NEW slot \in Ids, RemoveListener(slot)
    PROVE  LoopInv'
<1>1. LoopTypes /\ SilentInv /\ OneThread /\ InOrder /\ HeardSoFar /\ InTurn
  BY LoopTyped DEF LoopInv
<1>2. /\ Len(list') = Len(list) /\ list'[slot] = All
      /\ \A s \in 1 .. Len(list) : s # slot => list'[s] = list[s]
      /\ UNCHANGED <<threads, starter, ids, since, queue, log, heard>>
  BY <1>1, RemovedWhere
<1>3. OneThread' /\ InOrder' /\ HeardSoFar'
  BY <1>1, <1>2 DEF OneThread, InOrder, Unended, HeardSoFar
<1>4. ASSUME NEW t \in 1 .. Len(threads), Handling(threads[t])
      PROVE  Unreached(threads[t])' /\ Behind(threads[t])'
  <2>0. PICK u \in NotifierThread : u = threads[t]
    BY <1>1, ThreadTyped
  <2>1. Unreached(u) /\ Behind(u) /\ threads'[t] = u
        /\ (u.at = "call" => u.calling # All)
    BY <1>1, <1>2, <1>4, <2>0 DEF InTurn, OneThread
  <2>2. ASSUME NEW s \in 1 .. Len(list), list'[s] # All PROVE s # slot /\ list'[s] = list[s]
    BY <1>2, <2>2
  <2>3. ASSUME NEW s \in 1 .. Len(list), ToCome(u, s)' PROVE ToCome(u, s) /\ list'[s] = list[s]
    BY <2>2, <2>3 DEF ToCome
  <2>4. ASSUME NEW s \in 1 .. Len(list), Passed(u, s)' PROVE Passed(u, s) /\ list'[s] = list[s]
    BY <2>2, <2>4 DEF Passed
  <2>5. Unreached(u)'
    <3>1. ASSUME u.at = "call", NEW s \in 1 .. Len(list), list'[s] = u.calling PROVE s = u.index
      BY <2>1, <2>2, <3>1 DEF Unreached
    <3>2. u.at = "call" => \A i \in 1 .. Len(heard[u.calling]) : heard[u.calling][i] < u.event
      BY <2>1 DEF Unreached
    <3>3. ASSUME NEW s \in 1 .. Len(list), ToCome(u, s)', NEW i \in 1 .. Len(heard[list'[s]])
          PROVE  heard[list'[s]][i] < u.event
      BY <2>1, <2>3, <3>3 DEF Unreached
    <3> QED BY <1>2, <3>1, <3>2, <3>3 DEF Unreached
  <2>6. Behind(u)'
    <3>1. ASSUME NEW s \in 1 .. Len(list), Passed(u, s)', since[list'[s]] < u.event
          PROVE  /\ heard[list'[s]] # <<>>
                 /\ heard[list'[s]][Len(heard[list'[s]])] = u.event
      BY <2>1, <2>4, <3>1 DEF Behind
    <3> QED BY <1>2, <3>1 DEF Behind
  <2> QED BY <2>1, <2>5, <2>6 DEF Unreached, Behind, ToCome, Passed
<1>5. InTurn'
  BY <1>2, <1>4 DEF InTurn
<1> QED BY <1>3, <1>5 DEF LoopInv

LEMMA LoopNotify ==
    ASSUME LoopInv, SilentInv', Notify(All) PROVE LoopInv'
<1>1. LoopTypes /\ SilentInv /\ OneThread /\ InOrder /\ HeardSoFar /\ InTurn
  BY LoopTyped DEF LoopInv
<1>2. /\ UNCHANGED <<threads, starter, list, ids, since, heard>>
      /\ Len(log) \in Nat /\ Len(queue) \in Nat
  BY <1>1, LoopLengths DEF Notify, tableVars
<1> DEFINE new == [event |-> Len(log) + 1, only |-> All]
<1>3. new \in NotifierItem /\ new.event = Len(log) + 1
  BY <1>2 DEF NotifierItem
<1>4. queue' = Append(queue, new) /\ log' = Append(log, All)
  BY DEF Notify
<1> HIDE DEF new
<1>5. /\ Len(queue') = Len(queue) + 1 /\ queue'[Len(queue) + 1] = new
      /\ \A i \in 1 .. Len(queue) : queue'[i] = queue[i]
      /\ Len(log') = Len(log) + 1
  BY <1>1, <1>3, <1>4 DEF LoopTypes
<1>6. Len(log') - Len(queue') = Len(log) - Len(queue)
  BY <1>2, <1>5
<1>7. InOrder'
  <2>1. ASSUME NEW i \in 1 .. Len(queue') PROVE queue'[i].event = Len(log') - Len(queue') + i
    <3>1. CASE i = Len(queue) + 1
      BY <1>2, <1>3, <1>5, <1>6, <3>1
    <3>2. CASE i \in 1 .. Len(queue)
      BY <1>1, <1>5, <1>6, <3>2 DEF InOrder
    <3> QED BY <1>2, <1>5, <3>1, <3>2
  <2>2. Len(queue') <= Len(log')
    BY <1>1, <1>2, <1>5 DEF InOrder
  <2> QED BY <1>1, <1>2, <1>6, <2>1, <2>2 DEF InOrder
<1>8. OneThread' /\ HeardSoFar'
  BY <1>1, <1>2, <1>6 DEF OneThread, HeardSoFar, Unended
<1>9. InTurn'
  BY <1>1, <1>2 DEF InTurn, Unreached, Behind, ToCome, Passed
<1> QED BY <1>7, <1>8, <1>9 DEF LoopInv

LEMMA LoopStarts ==
    ASSUME LoopInv, SilentInv', StartThread PROVE LoopInv'
<1>1. LoopTypes /\ SilentInv /\ OneThread /\ InOrder /\ HeardSoFar /\ InTurn /\ HandTypes
  BY LoopTyped DEF LoopInv, SilentInv
<1>2. /\ UNCHANGED <<list, ids, since, queue, log, heard>> /\ starter /\ starter' = FALSE
  BY DEF StartThread, tableVars
<1>3. /\ NewThread.at = "run" /\ NewThread.event = 0 /\ NewThread.calling = All
      /\ ~ Handling(NewThread)
  BY DEF NewThread, Handling
<1>4. /\ Len(threads') = Len(threads) + 1 /\ Len(threads) \in Nat
      /\ threads'[Len(threads) + 1] = NewThread /\ threads' \in Seq(NotifierThread)
      /\ \A t \in 1 .. Len(threads) : threads'[t] = threads[t]
      /\ DOMAIN threads = 1 .. Len(threads)
  BY <1>1, Appended, LoopLengths
<1>5. DOMAIN threads' = 1 .. Len(threads')
  BY <1>4
<1>6. ASSUME NEW t \in 1 .. Len(threads')
      PROVE  \/ t \in 1 .. Len(threads) /\ threads'[t] = threads[t] /\ threads[t].at \in {"ended", "faulted"}
             \/ t = Len(threads) + 1 /\ threads'[t] = NewThread
  <2>1. CASE t \in 1 .. Len(threads)
    <3>1. t \notin Unended
      BY <1>1, <1>2 DEF OneThread
    <3> QED BY <1>4, <2>1, <3>1 DEF Unended
  <2>2. CASE t = Len(threads) + 1
    BY <1>4, <2>2
  <2> QED BY <1>4, <2>1, <2>2
<1>7. OneThread'
  <2>1. \A t, u \in Unended' : t = u
    BY <1>5, <1>6 DEF Unended
  <2>2. \A t \in 1 .. Len(threads') :
          /\ threads'[t].at # "faulted"
          /\ threads'[t].event # 0 <=> Handling(threads'[t])
          /\ threads'[t].calling # All <=> threads'[t].at = "call"
    BY <1>1, <1>3, <1>6 DEF OneThread
  <2> QED BY <1>2, <2>1, <2>2 DEF OneThread
<1>8. \A t \in 1 .. Len(threads') : ~ Handling(threads'[t])
  BY <1>3, <1>6 DEF Handling
<1>9. InOrder' /\ HeardSoFar' /\ InTurn'
  BY <1>1, <1>2, <1>8 DEF InOrder, HeardSoFar, InTurn
<1> QED BY <1>7, <1>9 DEF LoopInv

LEMMA LoopStutters ==
    ASSUME LoopInv, SilentInv',
           UNCHANGED <<threads, starter, list, ids, since, queue, log, heard>>
    PROVE  LoopInv'
<1>1. OneThread'
  BY DEF LoopInv, OneThread, Unended
<1>2. InOrder' /\ HeardSoFar'
  BY DEF LoopInv, InOrder, HeardSoFar
<1>3. InTurn'
  BY DEF LoopInv, InTurn, Unreached, Behind, ToCome, Passed
<1> QED BY <1>1, <1>2, <1>3 DEF LoopInv

LEMMA LoopStart ==
    ASSUME OneAtATime, LoopInv, SilentInv', NotifierStart PROVE LoopInv'
<1>1. /\ UNCHANGED <<threads, list, ids, since, queue, log, heard>> /\ Unended = {}
  BY DEF NotifierStart, OneAtATime, tableVars
<1>2. OneThread'
  BY <1>1 DEF LoopInv, OneThread, Unended
<1>3. InOrder' /\ HeardSoFar' /\ InTurn'
  BY <1>1 DEF LoopInv, InOrder, HeardSoFar, InTurn, Unreached, Behind, ToCome, Passed
<1> QED BY <1>2, <1>3 DEF LoopInv

LEMMA LoopInitially ==
    ASSUME NotifierInit PROVE LoopInv
<1>1. /\ threads = <<>> /\ queue = <<>> /\ log = <<>> /\ list = <<>> /\ starter = FALSE
      /\ heard = [l \in Ids |-> <<>>]
  BY DEF NotifierInit
<1>2. Len(threads) = 0 /\ Len(queue) = 0 /\ Len(log) = 0 /\ Len(list) = 0 /\ Unended = {}
  BY <1>1 DEF Unended
<1>3. \A l \in Ids : heard[l] = <<>> /\ Len(heard[l]) = 0
  BY <1>1
<1>4. OneThread /\ InOrder /\ HeardSoFar /\ InTurn
  BY <1>1, <1>2, <1>3 DEF OneThread, InOrder, HeardSoFar, InTurn
<1> QED BY <1>4, SilentInitially DEF LoopInv

LEMMA LoopStep ==
    ASSUME OfConnections, OneAtATime, LoopInv, [NotifierNext]_notifierVars
    PROVE  LoopInv'
<1>0. SilentInv'
  BY SilentStep DEF LoopInv
<1>1. CASE UNCHANGED notifierVars
  BY <1>0, <1>1, LoopStutters DEF notifierVars, mainVars, tableVars
<1>2. CASE AddListener
  BY <1>0, <1>2, LoopAdd
<1>3. CASE \E slot \in Ids : RemoveListener(slot)
  BY <1>0, <1>3, LoopRemove
<1>4. CASE \E only \in {All} \cup (IF Direct THEN 1 .. ids ELSE {}) : Notify(only)
  BY <1>0, <1>4, LoopNotify DEF OfConnections
<1>5. ASSUME NEW t \in DOMAIN threads, Main(t) \/ CallbackThrows(t) PROVE LoopInv'
  BY <1>0, <1>5, LoopThread
<1>6. CASE StartThread
  BY <1>0, <1>6, LoopStarts
<1>7. CASE NotifierStart
  BY <1>0, <1>7, LoopStart
<1>8. CASE NotifierStop \/ StopSets \/ StopWaits
  <2>1. UNCHANGED <<threads, starter, list, ids, since, queue, log, heard>>
    BY <1>8 DEF NotifierStop, StopSets, StopWaits, tableVars
  <2> QED BY <1>0, <2>1, LoopStutters
<1> QED BY <1>1, <1>2, <1>3, <1>4, <1>5, <1>6, <1>7, <1>8 DEF NotifierNext
-----------------------------------------------------------------------------
(* It is a notifier as NotificationLog says. *)

HandsOf(ths) == {t \in DOMAIN ths : ths[t].event # 0}

CallingIn(ths) ==
    IF \E t \in DOMAIN ths : ths[t].at = "call"
    THEN ths[CHOOSE t \in DOMAIN ths : ths[t].at = "call"].calling ELSE All

LEMMA MappedBy ==
    ASSUME NEW ths, NEW t \in DOMAIN ths,
           \A k \in DOMAIN ths : k # t => ~ Handling(ths[k]),
           \A k \in DOMAIN ths : /\ ths[k].event # 0 <=> Handling(ths[k])
                                 /\ ths[k].calling # All <=> ths[k].at = "call"
    PROVE  /\ Handling(ths[t]) => HandsOf(ths) # {} /\ CallingIn(ths) = ths[t].calling
           /\ ~ Handling(ths[t]) => HandsOf(ths) = {} /\ CallingIn(ths) = All
<1>1. \A k \in DOMAIN ths : ths[k].at = "call" => k = t /\ Handling(ths[k])
  BY DEF Handling
<1>2. CASE ths[t].at = "call"
  <2>1. (CHOOSE k \in DOMAIN ths : ths[k].at = "call") = t
    BY <1>1, <1>2
  <2>2. CallingIn(ths) = ths[t].calling
    BY <1>2, <2>1 DEF CallingIn
  <2> QED BY <1>2, <2>2 DEF HandsOf, Handling
<1>3. CASE ths[t].at # "call"
  <2>1. CallingIn(ths) = All /\ ths[t].calling = All
    BY <1>1, <1>3 DEF CallingIn
  <2>2. Handling(ths[t]) => HandsOf(ths) # {}
    BY DEF HandsOf
  <2>3. ~ Handling(ths[t]) => HandsOf(ths) = {}
    BY DEF HandsOf
  <2> QED BY <2>1, <2>2, <2>3
<1> QED BY <1>2, <1>3

\* What the notifier's state is in the log's: of the thread that runs, and of none.
LEMMA Mapped ==
    ASSUME LoopTypes, OneThread, InOrder, NEW t \in 1 .. Len(threads), threads[t].at \in Living
    PROVE  /\ Retired \in Int
           /\ Handling(threads[t]) => /\ Retired = Len(log) - Len(queue) - 1
                                      /\ Retired + 1 = threads[t].event
                                      /\ CallingNow = threads[t].calling
           /\ ~ Handling(threads[t]) => Retired = Len(log) - Len(queue) /\ CallingNow = All
<1>1. /\ DOMAIN threads = 1 .. Len(threads) /\ Len(log) \in Nat /\ Len(queue) \in Nat
      /\ \A k \in 1 .. Len(threads) : k # t => ~ Handling(threads[k])
  BY LoopLengths, OnlyOne DEF Handling
<1>2. /\ Handling(threads[t]) => HandsOf(threads) # {} /\ CallingIn(threads) = threads[t].calling
      /\ ~ Handling(threads[t]) => HandsOf(threads) = {} /\ CallingIn(threads) = All
  BY <1>1, MappedBy DEF OneThread
<1>3. /\ CallingNow = CallingIn(threads)
      /\ Retired = Len(log) - Len(queue) - (IF HandsOf(threads) = {} THEN 0 ELSE 1)
  BY DEF CallingNow, CallingIn, Retired, InHand, HandsOf
<1>4. Handling(threads[t]) => threads[t].event = Len(log) - Len(queue)
  BY DEF InOrder
<1> QED BY <1>1, <1>2, <1>3, <1>4

LEMMA MappedNext ==
    ASSUME OneThread', NEW t \in 1 .. Len(threads'), threads' \in Seq(NotifierThread),
           Len(log') \in Nat, Len(queue') \in Nat,
           \A k \in 1 .. Len(threads') : k # t => ~ Handling(threads'[k])
    PROVE  /\ Handling(threads'[t]) => /\ Retired' = Len(log') - Len(queue') - 1
                                       /\ CallingNow' = threads'[t].calling
           /\ ~ Handling(threads'[t]) => Retired' = Len(log') - Len(queue') /\ CallingNow' = All
<1>1. DOMAIN threads' = 1 .. Len(threads')
  OBVIOUS
<1>2. /\ Handling(threads'[t]) => HandsOf(threads') # {} /\ CallingIn(threads') = threads'[t].calling
      /\ ~ Handling(threads'[t]) => HandsOf(threads') = {} /\ CallingIn(threads') = All
  BY <1>1, MappedBy DEF OneThread
<1>3. /\ CallingNow' = CallingIn(threads')
      /\ Retired' = Len(log') - Len(queue') - (IF HandsOf(threads') = {} THEN 0 ELSE 1)
  BY DEF CallingNow, CallingIn, Retired, InHand, HandsOf
<1> QED BY <1>2, <1>3

LEMMA LogBegins ==
    ASSUME LoopTypes, LoopInv, NEW t \in 1 .. Len(threads), NEW u, Begins(t, u),
           UNCHANGED <<log, since, list>>, Retired' = Retired, CallingNow' = u.calling
    PROVE  Promise!LogNext
<1> DEFINE n == threads[t].index
           l == list[n]
<1>1. /\ OneThread /\ InOrder /\ InTurn /\ Handling(threads[t]) /\ threads[t].at \in Living
      /\ threads[t].at = "scan" /\ n \in 1 .. Len(list) /\ l # All /\ u.calling = l /\ heard' = heard
      /\ Len(list) \in Nat /\ Len(log) \in Nat /\ Len(queue) \in Nat
  BY ThreadTyped, LoopLengths DEF LoopInv, Begins, Handling, Living
<1>2. /\ l \in Ids /\ heard[l] \in Seq(Nat)
  BY <1>1 DEF LoopTypes
<1>3. /\ CallingNow = All /\ Retired + 1 = threads[t].event
      /\ Retired = Len(log) - Len(queue) - 1
  <2>1. threads[t].calling = All
    BY <1>1 DEF OneThread
  <2> QED BY <1>1, <2>1, Mapped
<1>4. Retired < Len(log) /\ Promise!Current = Retired + 1 /\ Retired + 1 \in 1 .. Len(log)
  <2>1. Retired + 1 # 0 /\ Retired + 1 \in Nat
    BY <1>1, <1>3, ThreadTyped DEF OneThread
  <2> QED BY <1>1, <1>3, <2>1 DEF Promise!Current
<1>5. log[Retired + 1] = All
  BY <1>4 DEF LoopInv, SilentInv, ForAll
<1>6. l \in Subscribed
  BY <1>1, <1>2, LoopLengths DEF Subscribed
<1>7. Len(heard[l]) = 0 \/ heard[l][Len(heard[l])] < Retired + 1
  <2>1. ToCome(threads[t], n)
    BY <1>1 DEF ToCome
  <2>2. \A i \in 1 .. Len(heard[l]) : heard[l][i] < threads[t].event
    BY <1>1, <2>1 DEF InTurn, Unreached
  <2>3. Len(heard[l]) = 0 \/ Len(heard[l]) \in 1 .. Len(heard[l])
    BY <1>2
  <2> QED BY <1>3, <2>2, <2>3
<1> HIDE DEF l, n
<1>8. Promise!May(l)
  BY <1>4, <1>5, <1>6, <1>7 DEF Promise!May
<1>9. UNCHANGED Subscribed
  BY DEF Subscribed
<1>10. Promise!BeginCall(l)
  BY <1>1, <1>3, <1>8, <1>9 DEF Promise!BeginCall
<1> QED BY <1>2, <1>10 DEF Promise!LogNext

LEMMA LogReturns ==
    ASSUME LoopTypes, LoopInv, NEW t \in 1 .. Len(threads), NEW u, Returns(t, u),
           UNCHANGED <<log, since, list>>, Retired' = Retired, CallingNow' = u.calling
    PROVE  Promise!LogNext
<1>1. /\ OneThread /\ InOrder /\ Handling(threads[t]) /\ threads[t].at \in Living
      /\ threads[t].calling # All /\ u.calling = All
      /\ heard' = [heard EXCEPT ![threads[t].calling] = Append(@, threads[t].event)]
  BY DEF LoopInv, OneThread, Returns, Handling, Living
<1>2. CallingNow = threads[t].calling /\ Retired + 1 = threads[t].event
  BY <1>1, Mapped
<1>3. UNCHANGED Subscribed
  BY DEF Subscribed
<1>4. Promise!EndCall
  BY <1>1, <1>2, <1>3 DEF Promise!EndCall, Promise!Hear, Promise!Current
<1> QED BY <1>4 DEF Promise!LogNext

LEMMA LogEndsScan ==
    ASSUME LoopTypes, LoopInv, NEW t \in 1 .. Len(threads), NEW u, EndsScan(t, u),
           UNCHANGED <<log, since, list>>, Retired' = Len(log) - Len(queue), CallingNow' = All
    PROVE  Promise!LogNext
<1>1. /\ OneThread /\ InOrder /\ InTurn /\ Handling(threads[t]) /\ threads[t].at \in Living
      /\ threads[t].at = "scan" /\ threads[t].index > Len(list) /\ heard' = heard
      /\ threads[t].calling = All
      /\ Len(list) \in Nat /\ Len(log) \in Nat /\ Len(queue) \in Nat
  BY LoopLengths DEF LoopInv, OneThread, EndsScan, Handling, Living
<1>2. /\ CallingNow = All /\ Retired + 1 = threads[t].event
      /\ Retired = Len(log) - Len(queue) - 1 /\ Promise!Current = Retired + 1
  BY <1>1, Mapped DEF Promise!Current
<1>3. ASSUME NEW l \in Ids, Promise!Must(l) PROVE FALSE
  <2>1. l \in Subscribed /\ since[l] < threads[t].event
        /\ (Len(heard[l]) = 0 \/ heard[l][Len(heard[l])] < threads[t].event)
    BY <1>2, <1>3 DEF Promise!Must, Promise!May
  <2>2. PICK s \in 1 .. Len(list) : list[s] = l
    BY <2>1, LoopLengths DEF Subscribed
  <2>3. l # All /\ heard[l] \in Seq(Nat) /\ threads[t].index \in Nat
    <3>1. l # All
      BY <1>3 DEF Ids, All
    <3>2. heard[l] \in Seq(Nat)
      BY <1>3 DEF LoopTypes
    <3> QED BY <3>1, <3>2, ThreadTyped
  <2>4. Passed(threads[t], s)
    BY <1>1, <2>2, <2>3 DEF Passed
  <2>5. heard[l] # <<>> /\ heard[l][Len(heard[l])] = threads[t].event
    BY <1>1, <2>1, <2>2, <2>4 DEF InTurn, Behind
  <2>6. threads[t].event \in Nat /\ Len(heard[l]) # 0
    BY <2>3, <2>5, ThreadTyped
  <2> QED BY <2>1, <2>5, <2>6
<1>4. UNCHANGED Subscribed
  BY DEF Subscribed
<1>5. Retired < Len(log) /\ Retired' = Promise!Current
  BY <1>1, <1>2
<1>6. Promise!Retire
  BY <1>1, <1>2, <1>3, <1>4, <1>5 DEF Promise!Retire
<1> QED BY <1>6 DEF Promise!LogNext

LEMMA LogThread ==
    ASSUME OfConnections, OneAtATime, LoopInv, LoopInv',
           NEW t \in DOMAIN threads, Main(t) \/ CallbackThrows(t)
    PROVE  [Promise!LogNext]_(Promise!logVars)
<1>1. /\ LoopTypes /\ HandTypes /\ ForAll /\ list \in Seq(Ids \cup {All})
      /\ OneThread /\ InOrder /\ Throwing = FALSE /\ OneThread'
  BY LoopTyped DEF LoopInv, SilentInv, LoopTypes, OneAtATime
<1>2. PICK u \in NotifierThread : u.only = All /\ Goes(t, u) /\ ThreadStep(t, u) /\ Others
  BY <1>1, ThreadSteps
<1>3. t \in 1 .. Len(threads) /\ UNCHANGED <<list, since, log, ids>> /\ Subscribed' = Subscribed
  BY <1>1, <1>2, LoopLengths DEF Others, tableVars, Subscribed
<1>4. /\ threads' \in Seq(NotifierThread) /\ Len(threads') = Len(threads) /\ threads'[t] = u
      /\ \A k \in 1 .. Len(threads) : k # t => threads'[k] = threads[k]
  <2>1. threads \in Seq(NotifierThread)
    BY <1>1 DEF LoopTypes
  <2> QED BY <1>2, <1>3, <2>1, ThreadGoes
<1>5. threads[t].at \in Living /\ \A k \in 1 .. Len(threads) : k # t => ~ Handling(threads'[k])
  BY <1>1, <1>2, <1>3, <1>4, OnlyOne, StepLives DEF Handling
<1>6. /\ Retired \in Int
      /\ Handling(threads[t]) => /\ Retired = Len(log) - Len(queue) - 1
                                 /\ Retired + 1 = threads[t].event
                                 /\ CallingNow = threads[t].calling
      /\ ~ Handling(threads[t]) => Retired = Len(log) - Len(queue) /\ CallingNow = All
  BY <1>1, <1>3, <1>5, Mapped
<1>7. Len(log) \in Nat /\ Len(queue) \in Nat /\ Len(queue') \in Nat
  <2>1. queue \in Seq(NotifierItem)
    BY <1>1 DEF LoopTypes
  <2>2. queue' = queue \/ (queue # <<>> /\ queue' = Tail(queue))
    BY <1>2 DEF ThreadStep, RunsOn, Keeps, Pops, Skips, Begins, Returns, Throws, EndsScan
  <2>3. queue' \in Seq(NotifierItem)
    BY <2>1, <2>2
  <2> QED BY <1>1, <2>3, LoopLengths
<1>8. /\ Handling(u) => Retired' = Len(log) - Len(queue') - 1 /\ CallingNow' = u.calling
      /\ ~ Handling(u) => Retired' = Len(log) - Len(queue') /\ CallingNow' = All
  BY <1>1, <1>3, <1>4, <1>5, <1>7, MappedNext
<1>9. CASE RunsOn(t, u)
  <2>1. ~ Handling(threads[t]) /\ ~ Handling(u) /\ UNCHANGED <<queue, heard>>
    BY <1>9 DEF RunsOn, Keeps, Handling
  <2> QED BY <1>3, <1>6, <1>8, <2>1 DEF Promise!logVars
<1>10. CASE Pops(t, u)
  <2>1. ~ Handling(threads[t]) /\ Handling(u) /\ u.calling = All /\ heard' = heard
    BY <1>10 DEF Pops, Handling
  <2>2. Len(queue') = Len(queue) - 1
    <3>1. queue \in Seq(NotifierItem) /\ queue # <<>> /\ queue' = Tail(queue)
      BY <1>1, <1>10 DEF LoopTypes, Pops
    <3> QED BY <3>1
  <2>3. Retired' = Retired /\ CallingNow' = CallingNow
    BY <1>6, <1>7, <1>8, <2>1, <2>2
  <2> QED BY <1>3, <2>1, <2>3 DEF Promise!logVars
<1>11. CASE Skips(t, u)
  <2>1. /\ Handling(threads[t]) /\ Handling(u) /\ u.calling = threads[t].calling
        /\ UNCHANGED <<queue, heard>>
    BY <1>11 DEF Skips, Handling
  <2> QED BY <1>3, <1>6, <1>8, <2>1 DEF Promise!logVars
<1>12. CASE Begins(t, u)
  <2>1. Handling(threads[t]) /\ Handling(u) /\ queue' = queue
    BY <1>12 DEF Begins, Handling
  <2> QED BY <1>1, <1>3, <1>6, <1>8, <1>12, <2>1, LogBegins
<1>13. CASE Returns(t, u)
  <2>1. Handling(threads[t]) /\ Handling(u) /\ queue' = queue
    BY <1>13 DEF Returns, Handling
  <2> QED BY <1>1, <1>3, <1>6, <1>8, <1>13, <2>1, LogReturns
<1>14. CASE EndsScan(t, u)
  <2>1. ~ Handling(u) /\ queue' = queue
    BY <1>14 DEF EndsScan, Handling
  <2> QED BY <1>1, <1>3, <1>8, <1>14, <2>1, LogEndsScan
<1> QED BY <1>1, <1>2, <1>9, <1>10, <1>11, <1>12, <1>13, <1>14 DEF ThreadStep, Throws

\* the notifier's threads and queue as they are leave the log as it is
LEMMA LogStays ==
    ASSUME UNCHANGED <<threads, queue, log>> PROVE UNCHANGED <<Retired, CallingNow>>
  BY DEF Retired, CallingNow, InHand

LEMMA LogStutters ==
    ASSUME UNCHANGED <<threads, list, queue, log, since, heard>>
    PROVE  UNCHANGED Promise!logVars
<1>1. UNCHANGED <<Retired, CallingNow, Subscribed>>
  BY LogStays DEF Subscribed
<1> QED BY <1>1 DEF Promise!logVars

LEMMA LogAdd ==
    ASSUME LoopInv, AddListener PROVE Promise!LogNext
<1>1. LoopTypes /\ SilentInv /\ HeardSoFar
  BY LoopTyped DEF LoopInv
<1>2. /\ UNCHANGED <<threads, queue, log, heard>> /\ ids + 1 \in Ids /\ ids \in Nat
      /\ since' = [since EXCEPT ![ids + 1] = Len(log)]
  BY <1>1 DEF AddListener, mainVars, LoopTypes, Ids
<1>3. \A s \in 1 .. Len(list) : list[s] # ids + 1 /\ list[s] \in Ids \cup {All}
  <2> TAKE s \in 1 .. Len(list)
  <2>1. list[s] \in Ids \cup {All} /\ list[s] <= ids
    BY <1>1 DEF SilentInv, TableInv
  <2> QED BY <1>2, <2>1 DEF Ids, All
<1>4. ids + 1 \notin Subscribed /\ heard[ids + 1] = <<>>
  BY <1>1, <1>2, <1>3, LoopLengths DEF Subscribed, HeardSoFar
<1>5. PICK n \in 1 .. Len(list') :
              /\ list'[n] = ids + 1
              /\ Len(list') \in Nat
              /\ \A s \in 1 .. Len(list') : s # n => s \in 1 .. Len(list) /\ list'[s] = list[s]
              /\ \A s \in 1 .. Len(list) : list[s] # All => s # n /\ s \in 1 .. Len(list')
  BY <1>1, AddedWhere
<1>6. DOMAIN list' = 1 .. Len(list') /\ DOMAIN list = 1 .. Len(list)
  <2>1. list' = Append(list, ids + 1) \/ list' = [list EXCEPT ![Head(free)] = ids + 1]
    BY DEF AddListener, Add
  <2>2. list \in Seq(Ids \cup {All})
    BY <1>1 DEF LoopTypes
  <2> QED BY <2>1, <2>2
<1>7. Subscribed' = Subscribed \cup {ids + 1}
  <2>1. ASSUME NEW l \in Ids PROVE l \in Subscribed' <=> l \in Subscribed \/ l = ids + 1
    <3>1. ASSUME l \in Subscribed' PROVE l \in Subscribed \/ l = ids + 1
      <4>1. PICK s \in 1 .. Len(list') : list'[s] = l
        BY <1>6, <3>1 DEF Subscribed
      <4> QED BY <1>5, <1>6, <4>1 DEF Subscribed
    <3>2. ASSUME l \in Subscribed PROVE l \in Subscribed'
      <4>1. PICK s \in 1 .. Len(list) : list[s] = l
        BY <1>6, <3>2 DEF Subscribed
      <4>2. s \in 1 .. Len(list') /\ s # n
        <5>1. l # All
          BY DEF Ids, All
        <5> QED BY <1>5, <4>1, <5>1
      <4> QED BY <1>5, <1>6, <4>1, <4>2 DEF Subscribed
    <3>3. ASSUME l = ids + 1 PROVE l \in Subscribed'
      BY <1>5, <1>6, <3>3 DEF Subscribed
    <3> QED BY <3>1, <3>2, <3>3
  <2>2. Subscribed' \subseteq Ids /\ Subscribed \subseteq Ids
    BY DEF Subscribed, Ids
  <2> QED BY <1>2, <2>1, <2>2
<1>8. Promise!Subscribe(ids + 1)
  BY <1>2, <1>4, <1>7, LogStays DEF Promise!Subscribe
<1> QED BY <1>2, <1>8 DEF Promise!LogNext

LEMMA LogRemove ==
    ASSUME OfConnections, LoopInv, NEW slot \in Ids, RemoveListener(slot)
    PROVE  Promise!LogNext
<1> DEFINE l == list[slot]
<1>1. LoopTypes /\ SilentInv /\ NullSlots /\ list \in Seq(Ids \cup {All})
  BY LoopTyped DEF LoopInv, SilentInv, LoopTypes
<1>2. /\ slot \in 1 .. Len(list) /\ l \in Ids /\ l # All
      /\ Len(list') = Len(list) /\ list'[slot] = All
      /\ \A s \in 1 .. Len(list) : s # slot => list'[s] = list[s]
      /\ UNCHANGED <<threads, since, queue, log, heard>>
  BY <1>1, RemovedWhere DEF Ids, All
<1>3. DOMAIN list' = 1 .. Len(list') /\ DOMAIN list = 1 .. Len(list)
  <2>1. list' = [list EXCEPT ![slot] = All]
    BY DEF RemoveListener, Erase, OfConnections
  <2> QED BY <1>1, <2>1
<1>4. Subscribed' = Subscribed \ {l}
  <2>1. ASSUME NEW k \in Ids PROVE k \in Subscribed' <=> k \in Subscribed /\ k # l
    <3>0. k # All
      BY DEF Ids, All
    <3>1. ASSUME k \in Subscribed' PROVE k \in Subscribed /\ k # l
      <4>1. PICK s \in 1 .. Len(list) : list'[s] = k
        BY <1>2, <1>3, <3>1 DEF Subscribed
      <4>2. s # slot /\ list[s] = k
        BY <1>2, <3>0, <4>1
      <4>3. k # l
        BY <1>1, <1>2, <4>2 DEF NullSlots
      <4> QED BY <1>3, <4>2, <4>3 DEF Subscribed
    <3>2. ASSUME k \in Subscribed, k # l PROVE k \in Subscribed'
      <4>1. PICK s \in 1 .. Len(list) : list[s] = k
        BY <1>3, <3>2 DEF Subscribed
      <4>2. list'[s] = k
        BY <1>2, <3>2, <4>1
      <4> QED BY <1>2, <1>3, <4>2 DEF Subscribed
    <3> QED BY <3>1, <3>2
  <2>2. Subscribed' \subseteq Ids /\ Subscribed \subseteq Ids
    BY DEF Subscribed, Ids
  <2> QED BY <2>1, <2>2
<1>5. l \in Subscribed
  BY <1>2, <1>3 DEF Subscribed
<1> HIDE DEF l
<1>6. Promise!Unsubscribe({l})
  BY <1>2, <1>4, <1>5, LogStays DEF Promise!Unsubscribe
<1> QED BY <1>2, <1>6 DEF Promise!LogNext

LEMMA LogNotify ==
    ASSUME LoopInv, Notify(All) PROVE Promise!LogNext
<1>1. /\ LoopTypes /\ UNCHANGED <<threads, list, since, heard>> /\ log' = Append(log, All)
      /\ queue' = Append(queue, [event |-> Len(log) + 1, only |-> All])
  BY LoopTyped DEF LoopInv, Notify, tableVars
<1>2. Len(log') = Len(log) + 1 /\ Len(queue') = Len(queue) + 1 /\ Len(log) \in Nat /\ Len(queue) \in Nat
  <2>1. queue \in Seq(NotifierItem) /\ log \in Seq(Ids \cup {All}) /\ Len(log) \in Nat
    BY <1>1, LoopLengths DEF LoopTypes
  <2>2. [event |-> Len(log) + 1, only |-> All] \in NotifierItem
    BY <2>1 DEF NotifierItem
  <2> QED BY <1>1, <2>1, <2>2
<1>3. InHand' = InHand
  BY <1>1 DEF InHand
<1>4. Retired' = Retired
  BY <1>2, <1>3 DEF Retired
<1>5. UNCHANGED <<CallingNow, Subscribed>>
  BY <1>1 DEF CallingNow, Subscribed
<1>6. Promise!Publish(All)
  BY <1>1, <1>4, <1>5 DEF Promise!Publish
<1> QED BY <1>6 DEF Promise!LogNext

LEMMA LogStarts ==
    ASSUME LoopInv, StartThread PROVE UNCHANGED Promise!logVars
<1>1. LoopTypes /\ OneThread /\ HandTypes
  BY LoopTyped DEF LoopInv, SilentInv
<1>2. UNCHANGED <<list, since, queue, log, heard>> /\ starter
  BY DEF StartThread, tableVars
<1>3. NewThread.at = "run" /\ NewThread.event = 0
  BY DEF NewThread
<1>4. /\ Len(threads') = Len(threads) + 1 /\ Len(threads) \in Nat
      /\ threads'[Len(threads) + 1] = NewThread /\ threads' \in Seq(NotifierThread)
      /\ \A t \in 1 .. Len(threads) : threads'[t] = threads[t]
      /\ DOMAIN threads = 1 .. Len(threads)
  BY <1>1, Appended, LoopLengths
<1>5. DOMAIN threads' = 1 .. Len(threads) + 1
  BY <1>4
<1>6. \A t \in 1 .. Len(threads) : threads[t].event = 0 /\ threads[t].at # "call"
  <2> TAKE t \in 1 .. Len(threads)
  <2>1. t \notin Unended
    BY <1>1, <1>2 DEF OneThread
  <2>2. ~ Handling(threads[t])
    BY <1>4, <2>1 DEF Unended, Handling
  <2> QED BY <1>1, <2>2 DEF OneThread, Handling
<1>7. \A t \in 1 .. Len(threads) + 1 : threads'[t].event = 0 /\ threads'[t].at # "call"
  <2> TAKE t \in 1 .. Len(threads) + 1
  <2>1. CASE t \in 1 .. Len(threads)
    BY <1>4, <1>6, <2>1
  <2>2. CASE t = Len(threads) + 1
    BY <1>3, <1>4, <2>2
  <2> QED BY <1>4, <2>1, <2>2
<1>8. InHand = {} /\ InHand' = {} /\ CallingNow = All /\ CallingNow' = All
  BY <1>4, <1>5, <1>6, <1>7 DEF InHand, CallingNow
<1>9. UNCHANGED <<Retired, CallingNow, Subscribed>>
  BY <1>2, <1>8 DEF Retired, Subscribed
<1> QED BY <1>2, <1>9 DEF Promise!logVars

LEMMA LogInitially ==
    ASSUME NotifierInit PROVE Promise!LogInit
<1>1. /\ threads = <<>> /\ queue = <<>> /\ log = <<>> /\ list = <<>>
      /\ heard = [l \in Ids |-> <<>>] /\ since = [l \in Ids |-> 0]
  BY DEF NotifierInit
<1>2. DOMAIN threads = {} /\ DOMAIN list = {} /\ Len(log) = 0 /\ Len(queue) = 0
  BY <1>1
<1>3. InHand = {} /\ CallingNow = All /\ Subscribed = {}
  BY <1>2 DEF InHand, CallingNow, Subscribed
<1>4. Retired = 0
  BY <1>2, <1>3 DEF Retired
<1> QED BY <1>1, <1>3, <1>4 DEF Promise!LogInit

LEMMA LogStep ==
    ASSUME OfConnections, OneAtATime, LoopInv, [NotifierNext]_notifierVars
    PROVE  [Promise!LogNext]_(Promise!logVars)
<1>0. LoopInv'
  BY LoopStep
<1>1. CASE UNCHANGED notifierVars
  <2>1. UNCHANGED <<threads, list, queue, log, since, heard>>
    BY <1>1 DEF notifierVars, mainVars, tableVars
  <2> QED BY <2>1, LogStutters
<1>2. CASE AddListener
  BY <1>2, LogAdd
<1>3. CASE \E slot \in Ids : RemoveListener(slot)
  BY <1>3, LogRemove
<1>4. CASE \E only \in {All} \cup (IF Direct THEN 1 .. ids ELSE {}) : Notify(only)
  BY <1>4, LogNotify DEF OfConnections
<1>5. ASSUME NEW t \in DOMAIN threads, Main(t) \/ CallbackThrows(t)
      PROVE  [Promise!LogNext]_(Promise!logVars)
  BY <1>0, <1>5, LogThread
<1>6. CASE StartThread
  BY <1>6, LogStarts
<1>7. CASE NotifierStart \/ NotifierStop \/ StopSets \/ StopWaits
  <2>1. UNCHANGED <<threads, list, queue, log, since, heard>>
    BY <1>7 DEF NotifierStart, NotifierStop, StopSets, StopWaits, tableVars
  <2> QED BY <2>1, LogStutters
<1> QED BY <1>1, <1>2, <1>3, <1>4, <1>5, <1>6, <1>7 DEF NotifierNext

\* What the loop of ThreadMain (Notifier.cs:182-269) relies on: one thread, which has
\* the oldest event in hand that was not dealt with, before the slots that did not
\* hear of it and after those that did.
THEOREM LoopInvariance ==
    ASSUME OfConnections, OneAtATime PROVE NotifierSpec => []LoopInv
<1>1. NotifierInit => LoopInv
  BY LoopInitially
<1>2. LoopInv /\ [NotifierNext]_notifierVars => LoopInv'
  BY LoopStep
<1> QED BY <1>1, <1>2, PTL DEF NotifierSpec

\* The connection listeners' half of the notifier is a notifier as NotificationLog
\* says: every listener that was there when a notification was sent, and still is,
\* hears of each in order and once, across Stop and Start, for every number of
\* listeners, notifications and threads.
THEOREM IsNotificationLogHolds ==
    ASSUME OfConnections, OneAtATime PROVE NotifierSpec => IsNotificationLog
<1>1. NotifierInit => Promise!LogInit
  BY LogInitially
<1>2. LoopInv /\ [NotifierNext]_notifierVars => [Promise!LogNext]_(Promise!logVars)
  BY LogStep
<1> QED BY <1>1, <1>2, LoopInvariance, PTL DEF NotifierSpec, IsNotificationLog, Promise!LogSpec
================================================================================
