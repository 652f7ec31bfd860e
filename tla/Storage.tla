------------------------------- MODULE Storage -------------------------------
(***************************************************************************)
(* The entry tables of the nodes of a NetworkTables network (Storage.cs):  *)
(* each node is one process with one Storage.  m_entries maps names to     *)
(* Entry objects and m_idMap maps ids to the same objects, so an entry can *)
(* outlive its name in m_idMap, or be reached by two ids: objects are      *)
(* modelled, not copies.                                                   *)
(*                                                                         *)
(* Every operation holds m_monitor, so it is one action; but it releases   *)
(* the monitor before it calls queueOutgoing, so the messages it sends are *)
(* left in hand[n][t] and queued by a later step of the same thread.       *)
(* Threads are the users' threads and one reader per connection.  A reader *)
(* that gives up the monitor in the middle of an assignment (lines         *)
(* 239-244) has the rest of it in resume[n][c].                            *)
(*                                                                         *)
(* The names are those of values.  CreateRpc and CreatePolledRpc (lines    *)
(* 951-1058), which make a name a procedure's, are left out: they notify   *)
(* nobody and do not set m_persistentDirty, also where the name had a      *)
(* persistent value before.                                                *)
(***************************************************************************)
EXTENDS Messages, Sequences, FiniteSetsExt, SequencesExt

CONSTANTS
    Nodes,     \* the processes
    Servers,   \* those that may call StartServer
    Clients,   \* those that may call StartClient
    Conns,     \* connections: each has a reader thread at each end
    Users,     \* the threads calling the public API at a node
    Objs,      \* the Entry objects a node can have at once: 1 .. k
    TypeOf     \* the NtType of each value

ASSUME StorageAssumption ==
    /\ Servers \subseteq Nodes /\ Clients \subseteq Nodes
    /\ TypeOf \in [Values -> STRING]
    /\ Objs \in SUBSET (Nat \ {0}) /\ IsFiniteSet(Objs)
    /\ Nil \notin Objs /\ Nil \notin Conns
    /\ Conns \cap Users = {}

Threads == Conns \cup Users

VARIABLES
    role,      \* m_queueOutgoing and m_server: "idle" before SetOutgoing, "turned"
               \* when a client was stopped and is now started as a server
    heap,      \* the Entry objects
    ents,      \* m_entries
    idMap,     \* m_idMap
    idCount,   \* m_idMap.Count
    dirty,     \* m_persistentDirty
    saved,     \* what GetPersistentEntries last returned, and what LoadPersistent
               \* has read from a file since (history)
    view,      \* the table as a listener of every notification knows it (history)
    hand,      \* the messages a thread has to pass to queueOutgoing
    resume     \* the assignment a reader will take up again

tables == <<heap, ents, idMap, idCount>>
storageVars == <<role, heap, ents, idMap, idCount, dirty, saved, view, hand, resume>>
-----------------------------------------------------------------------------
(* Entry objects *)

Entry == [name : Names \cup {Nil}, val : Values \cup {Nil}, flags : BOOLEAN,
          id : AnyId, seq : SeqNums]

FreeEntry == [name |-> Nil, val |-> Nil, flags |-> FALSE, id |-> Unassigned, seq |-> 0]

NewEntry(name, value, flags, id, seq) ==
    [name |-> name, val |-> value, flags |-> flags, id |-> id, seq |-> seq]

Referenced(e, m) == {e[name] : name \in Names} \cup {m[id] : id \in Ids}

InUse(n) == Referenced(ents[n], idMap[n]) \cup {resume[n][c].obj : c \in Conns}

\* new Entry(name) is the least object nothing refers to
IsNew(n, o) ==
    /\ o \in Objs \ InUse(n)
    /\ \A p \in Objs \ InUse(n) : o <= p

\* an object nothing refers to any more is collected
Collected(n, h, e, m) ==
    LET used == Referenced(e, m) \cup {resume[n][c].obj : c \in Conns}
    IN [o \in Objs |-> IF o \in used THEN h[o] ELSE FreeEntry]

EntryOf(n, name) == heap[n][ents[n][name]]
Exists(n, name) == ents[n][name] # Nil
KnownNames(n) == {name \in Names : Exists(n, name)}

\* m_idMap[id], Nil when the id is beyond the end or its slot is null
Lookup(n, id) == IF id \in Ids THEN idMap[n][id] ELSE Nil

IsServer(n) == role[n] # "client"   \* m_server is true until SetOutgoing

\* a server that has not been a client: one that has may hold entries without id
AlwaysServer(n) == role[n] \in {"idle", "server"}

IsPersistent(e) == e.flags
-----------------------------------------------------------------------------
(* What a thread does after it has changed the table *)

Nothing == [msg |-> Nil, obj |-> Nil]

Out(msg, except) == [msg |-> msg, except |-> except]

Free(n, t) ==
    /\ hand[n][t] = <<>>
    /\ t \in Conns => resume[n][t] = Nothing

\* hand the messages to queueOutgoing, if SetOutgoing gave one
Send(n, t, outs) ==
    hand' = IF role[n] = "idle" THEN hand ELSE [hand EXCEPT ![n][t] = outs]

\* m_notifier.NotifyEntry, called with the monitor held
Notify(n, name, value) == view' = [view EXCEPT ![n][name] = value]

\* MarkDirty, had it assigned the flag where it only sets it
MarkDirtyAssigned(n, condition) == dirty' = [dirty EXCEPT ![n] = condition]

MarkDirty(n, condition) == dirty' = [dirty EXCEPT ![n] = @ \/ condition]

SetEntry(n, o, e) == heap' = [heap EXCEPT ![n][o] = e]

\* m_entries[name] = entry; with m_idMap.Add(entry) when the node gives ids
\* NextId, had it taken the first empty slot
FirstEmptyId(n) ==
    Min({id \in Ids : idMap[n][id] = Nil} \cup {Unassigned})

NextId(n) == idCount[n]

AddEntry(n, o, e) ==
    /\ SetEntry(n, o, e)
    /\ ents' = [ents EXCEPT ![n][e.name] = o]

AddId(n, o, id) ==
    /\ idMap' = [idMap EXCEPT ![n][id] = o]
    /\ idCount' = [idCount EXCEPT ![n] = IF id < @ THEN @ ELSE id + 1]

NoNewId == UNCHANGED <<idMap, idCount>>

\* "if (m_server && entry.Id == 0xffff)": the entry is given the next id
NeedsId(n, e) == IsServer(n) /\ e.id = Unassigned

IdOf(n, e) == IF NeedsId(n, e) THEN NextId(n) ELSE e.id

\* GiveId, had it forgotten "m_idMap.Add(entry)"
GiveIdUnlisted(n, o, e) == NoNewId

GiveId(n, o, e) ==
    IF NeedsId(n, e) THEN NextId(n) < Unassigned /\ AddId(n, o, NextId(n)) ELSE NoNewId
-----------------------------------------------------------------------------
(* The public API, called by a user's thread *)

\* the entry does not exist: SetDefaultEntryValue, SetEntryValue and
\* SetEntryTypeValue create it, the last with one increment of its number
Create(n, u, name, value, seq) ==
    LET id == IF IsServer(n) THEN NextId(n) ELSE Unassigned IN
    /\ Free(n, u)
    /\ ~ Exists(n, name)
    /\ IsServer(n) => id < Unassigned
    /\ \E o \in Objs :
          /\ IsNew(n, o)
          /\ AddEntry(n, o, NewEntry(name, value, FALSE, id, seq))
          /\ IF IsServer(n) THEN AddId(n, o, id) ELSE NoNewId
    /\ Notify(n, name, value)
    /\ Send(n, u, <<Out(EntryAssign(name, id, seq, value, FALSE), Nil)>>)
    /\ UNCHANGED <<role, dirty, saved, resume>>

\* SetEntryValue and SetEntryTypeValue of an entry that exists
ChangeValue(n, u, name, value, sameType) ==
    LET o == ents[n][name]
        old == EntryOf(n, name)
        id == IdOf(n, old)
        seq == IF role[n] = "idle" THEN old.seq ELSE Inc(old.seq)
        msg == IF sameType THEN EntryUpdate(id, seq, value)
                           ELSE EntryAssign(name, id, seq, value, old.flags)
    IN
    /\ Free(n, u)
    /\ Exists(n, name)
    /\ old.val # value
    /\ (TypeOf[old.val] = TypeOf[value]) <=> sameType
    /\ SetEntry(n, o, [old EXCEPT !.val = value, !.id = id, !.seq = seq])
    /\ GiveId(n, o, old)
    /\ MarkDirty(n, IsPersistent(old))
    /\ Notify(n, name, value)
    /\ Send(n, u, IF sameType /\ id = Unassigned THEN <<>> ELSE <<Out(msg, Nil)>>)
    /\ UNCHANGED <<role, ents, saved, resume>>

\* SetEntryValue with the value the entry has: all it may do is give it an id
KeepValue(n, u, name, value) ==
    LET old == EntryOf(n, name) IN
    /\ Free(n, u)
    /\ Exists(n, name)
    /\ old.val = value /\ NeedsId(n, old)
    /\ SetEntry(n, ents[n][name], [old EXCEPT !.id = NextId(n)])
    /\ GiveId(n, ents[n][name], old)
    /\ UNCHANGED <<role, ents, dirty, saved, view, hand, resume>>

SetEntryValue(n, u, name, value) ==
    \/ Create(n, u, name, value, 0)
    \/ ChangeValue(n, u, name, value, TRUE)
    \/ KeepValue(n, u, name, value)

SetEntryTypeValue(n, u, name, value) ==
    \/ Create(n, u, name, value, IF role[n] = "idle" THEN 0 ELSE 1)
    \/ ChangeValue(n, u, name, value, TRUE)
    \/ ChangeValue(n, u, name, value, FALSE)

SetEntryFlags(n, u, name, flags) ==
    LET old == EntryOf(n, name) IN
    /\ Free(n, u)
    /\ Exists(n, name)
    /\ old.flags # flags
    /\ SetEntry(n, ents[n][name], [old EXCEPT !.flags = flags])
    /\ MarkDirty(n, TRUE)
    /\ Notify(n, name, old.val)
    /\ Send(n, u, IF old.id = Unassigned THEN <<>> ELSE <<Out(FlagsUpdate(old.id, flags), Nil)>>)
    /\ UNCHANGED <<role, ents, idMap, idCount, saved, resume>>

\* RemoveEntry, had it left the name
RemoveIdOnly(n, id, name) ==
    /\ idMap' = IF id \in Ids THEN [idMap EXCEPT ![n][id] = Nil] ELSE idMap
    /\ UNCHANGED <<heap, ents, idCount>>

\* m_idMap[id] = null and m_entries.Remove(name), either of which may find
\* nothing to do
RemoveEntry(n, id, name) ==
    LET e == IF name \in Names THEN [ents[n] EXCEPT ![name] = Nil] ELSE ents[n]
        m == IF id \in Ids THEN [idMap[n] EXCEPT ![id] = Nil] ELSE idMap[n]
    IN /\ ents' = [ents EXCEPT ![n] = e]
       /\ idMap' = [idMap EXCEPT ![n] = m]
       /\ heap' = [heap EXCEPT ![n] = Collected(n, @, e, m)]
       /\ UNCHANGED idCount

DeleteEntry(n, u, name) ==
    LET old == EntryOf(n, name) IN
    /\ Free(n, u)
    /\ Exists(n, name)
    /\ RemoveEntry(n, old.id, name)
    /\ MarkDirty(n, IsPersistent(old))
    /\ Notify(n, name, Nil)
    /\ Send(n, u, IF old.id = Unassigned THEN <<>> ELSE <<Out(EntryDelete(old.id), Nil)>>)
    /\ UNCHANGED <<role, saved, resume>>

\* the persistent entries stay, and keep their ids
DeleteAllEntriesImpl(n) ==
    LET gone == {name \in Names : Exists(n, name) /\ ~ IsPersistent(EntryOf(n, name))}
        ids == {EntryOf(n, name).id : name \in gone}
        e == [name \in Names |-> IF name \in gone THEN Nil ELSE ents[n][name]]
        m == [id \in Ids |-> IF id \in ids THEN Nil ELSE idMap[n][id]]
    IN /\ ents' = [ents EXCEPT ![n] = e]
       /\ idMap' = [idMap EXCEPT ![n] = m]
       /\ heap' = [heap EXCEPT ![n] = Collected(n, @, e, m)]
       /\ view' = [view EXCEPT ![n] =
                      [name \in Names |-> IF name \in gone THEN Nil ELSE @[name]]]
       /\ UNCHANGED <<role, idCount, dirty, saved, resume>>

DeleteAllEntries(n, u) ==
    /\ Free(n, u)
    /\ \E name \in Names : Exists(n, name)
    /\ DeleteAllEntriesImpl(n)
    /\ Send(n, u, <<Out(ClearEntries, Nil)>>)

\* f follows the order of the names in lines
Follows(f, lines) ==
    \A i, j \in DOMAIN lines :
        i < j /\ {lines[i], lines[j]} \subseteq DOMAIN f => f[lines[i]] < f[lines[j]]

\* the entry of a name of the file, new if there was none
EntryOrNew(n, name) ==
    IF Exists(n, name) THEN EntryOf(n, name) ELSE NewEntry(name, Nil, FALSE, Unassigned, 0)

\* and what it is once its line has been read
Loaded(n, name, value, id) ==
    [EntryOrNew(n, name) EXCEPT !.val = value, !.flags = TRUE, !.id = id,
                                !.seq = IF role[n] = "idle" THEN @ ELSE Inc(@)]

LoadMessages(old, new) ==
    CASE old.val = Nil \/ TypeOf[old.val] # TypeOf[new.val] ->
            <<Out(EntryAssign(new.name, new.id, new.seq, new.val, TRUE), Nil)>>
      [] new.id = Unassigned -> <<>>
      [] OTHER ->
            (IF old.val = new.val THEN <<>>
             ELSE <<Out(EntryUpdate(new.id, new.seq, new.val), Nil)>>)
            \o (IF IsPersistent(old) THEN <<>> ELSE <<Out(FlagsUpdate(new.id, TRUE), Nil)>>)

NewNames(n, file) == DOMAIN file \ KnownNames(n)
Given(n, file) == {name \in DOMAIN file : NeedsId(n, EntryOrNew(n, name))}

\* the lines in their order: new names get the least objects nothing refers to,
\* and the ids up to last are given
ReadLines(n, u, file, lines, place, ids, last) ==
    LET id(name) == IF name \in Given(n, file) THEN ids[name] ELSE EntryOrNew(n, name).id
        after(name) == Loaded(n, name, file[name], id(name))
        read(f) == [name \in Names |-> IF name \in DOMAIN file THEN file[name] ELSE f[name]]
    IN
    /\ Follows(ids, lines) /\ Follows(place, lines)
    /\ \A name \in NewNames(n, file), o \in (Objs \ InUse(n)) \ Range(place) : place[name] < o
    /\ ents' = [ents EXCEPT ![n] =
          [name \in Names |-> IF name \in NewNames(n, file) THEN place[name] ELSE @[name]]]
    /\ heap' = [heap EXCEPT ![n] =
          [o \in Objs |->
              LET owner == {name \in DOMAIN file : ents'[n][name] = o}
              IN IF owner = {} THEN @[o] ELSE after(CHOOSE name \in owner : TRUE)]]
    /\ idMap' = [idMap EXCEPT ![n] =
          [i \in Ids |->
              LET owner == {name \in Given(n, file) : ids[name] = i}
              IN IF owner = {} THEN @[i] ELSE ents'[n][CHOOSE name \in owner : TRUE]]]
    /\ idCount' = [idCount EXCEPT ![n] = last]
    /\ view' = [view EXCEPT ![n] = read(@)]
    /\ saved' = [saved EXCEPT ![n] = read(@)]
    /\ Send(n, u, FlattenSeq([i \in DOMAIN lines |->
                      LoadMessages(EntryOrNew(n, lines[i]), after(lines[i]))]))

\* LoadPersistent: each name of the file gets the file's value and is persistent
\* from now on, with the monitor held for all of them.  The dirty flag is left as
\* it is.
LoadPersistent(n, u, file) ==
    /\ Free(n, u)
    /\ \E lines \in SetToSeqs(DOMAIN file), place \in Injection(NewNames(n, file), Objs \ InUse(n)),
          last \in NextId(n) .. Unassigned :
       \E ids \in Bijection(Given(n, file), NextId(n) .. (last - 1)) :
          ReadLines(n, u, file, lines, place, ids, last)
    /\ UNCHANGED <<role, dirty, resume>>

TableCall(n, u) ==
    \/ \E name \in Names, value \in Values :
          SetEntryValue(n, u, name, value) \/ SetEntryTypeValue(n, u, name, value)
    \/ \E name \in Names, flags \in BOOLEAN : SetEntryFlags(n, u, name, flags)
    \/ \E name \in Names : DeleteEntry(n, u, name)
    \/ DeleteAllEntries(n, u)

\* what a file can name
Files == UNION {[named -> Values] : named \in SUBSET Names \ {{}}}

UserCall(n, u) ==
    \/ TableCall(n, u)
    \/ \E file \in Files : LoadPersistent(n, u, file)
-----------------------------------------------------------------------------
(* ProcessIncoming, called by the reader of connection c at node n.  The   *)
(* branches that only log, because the id is unknown, change nothing and   *)
(* are steps of the environment alone.  A server passes what it accepts to *)
(* the other connections.                                                  *)

Relay(n, c, msg) == Send(n, c, IF IsServer(n) THEN <<Out(msg, c)>> ELSE <<>>)

\* "if (seqNum < entry.SeqNum)": an assignment of equal number is taken
StaleAssign(msg, e) == Older(msg.seq, e.seq)

\* StaleUpdate with its operands swapped
StaleUpdateSwapped(msg, e) == NotNewer(e.seq, msg.seq)

\* "if (seqNum <= entry.SeqNum) return"
StaleUpdate(msg, e) == NotNewer(msg.seq, e.seq)

\* server, EntryAssign with id 0xffff: a client asks for a new entry, and
\* every connection, the client's own included, is told its id
AssignNew(n, c, msg) ==
    LET id == NextId(n)
        e == NewEntry(msg.str, msg.val, msg.flags, id, 0)
    IN
    /\ Free(n, c) /\ IsServer(n)
    /\ msg.id = Unassigned /\ ~ Exists(n, msg.str)
    /\ id < Unassigned
    /\ \E o \in Objs : IsNew(n, o) /\ AddEntry(n, o, e) /\ AddId(n, o, id)
    /\ MarkDirty(n, IsPersistent(e))
    /\ Notify(n, e.name, e.val)
    /\ Send(n, c, <<Out(EntryAssign(e.name, id, e.seq, e.val, e.flags), Nil)>>)
    /\ UNCHANGED <<role, saved, resume>>

\* client, EntryAssign of an id and a name it does not know; the number of
\* the message is not taken over
AssignUnknown(n, c, msg) ==
    /\ Free(n, c) /\ ~ IsServer(n)
    /\ msg.id # Unassigned /\ Lookup(n, msg.id) = Nil /\ ~ Exists(n, msg.str)
    /\ \E o \in Objs :
          /\ IsNew(n, o)
          /\ AddEntry(n, o, NewEntry(msg.str, msg.val, msg.flags, msg.id, 0))
          /\ AddId(n, o, msg.id)
    /\ Notify(n, msg.str, msg.val)
    /\ UNCHANGED <<role, dirty, saved, hand, resume>>

\* the message is taken unless it is stale, or names another entry
Taken(msg, e) == ~ StaleAssign(msg, e) /\ msg.str = e.name

TakenFlags(msg, e, mayNeedUpdate, rev3) ==
    IF ~ mayNeedUpdate /\ rev3 THEN msg.flags ELSE e.flags

\* Assigned, without the test of the number
AssignedAlways(msg, e, mayNeedUpdate, rev3) ==
    IF msg.str = e.name THEN [e EXCEPT !.val = msg.val, !.seq = msg.seq] ELSE e

\* what becomes of an entry that is e when the message is compared with it
Assigned(msg, e, mayNeedUpdate, rev3) ==
    IF Taken(msg, e)
    THEN [e EXCEPT !.val = msg.val, !.seq = msg.seq,
                   !.flags = TakenFlags(msg, e, mayNeedUpdate, rev3)]
    ELSE e

\* the rest of what the assignment does: the client's own newer value is sent
\* if the server may not have it, and a server passes on what it took
TakeAssign(n, c, msg, e, mayNeedUpdate, rev3) ==
    LET new == Assigned(msg, e, mayNeedUpdate, rev3) IN
    \/ /\ StaleAssign(msg, e)
       /\ Send(n, c, IF mayNeedUpdate THEN <<Out(EntryUpdate(e.id, e.seq, e.val), Nil)>>
                                      ELSE <<>>)
       /\ UNCHANGED <<dirty, view>>
    \/ /\ ~ StaleAssign(msg, e) /\ ~ Taken(msg, e)
       /\ UNCHANGED <<dirty, view, hand>>
    \/ /\ Taken(msg, e)
       /\ MarkDirty(n, new.flags # e.flags \/ (IsPersistent(new) /\ e.val # msg.val))
       /\ Notify(n, msg.str, msg.val)
       /\ Relay(n, c, EntryAssign(e.name, msg.id, msg.seq, msg.val, new.flags))

\* EntryAssign of an id the node has an entry for
AssignKnown(n, c, msg, rev3) ==
    LET o == Lookup(n, msg.id) IN
    /\ Free(n, c)
    /\ o # Nil
    /\ SetEntry(n, o, Assigned(msg, heap[n][o], FALSE, rev3))
    /\ TakeAssign(n, c, msg, heap[n][o], FALSE, rev3)
    /\ UNCHANGED <<role, ents, idMap, idCount, saved, resume>>

\* client, EntryAssign of an unknown id for an entry it has: the entry gets the
\* id, and if the flags differ the monitor is given up to send the client's own
Bind(n, c, msg) ==
    LET o == ents[n][msg.str]
        bound == [EntryOf(n, msg.str) EXCEPT !.id = msg.id]
    IN
    /\ Free(n, c) /\ ~ IsServer(n)
    /\ msg.id # Unassigned /\ Lookup(n, msg.id) = Nil /\ Exists(n, msg.str)
    /\ AddId(n, o, msg.id)
    /\ \/ /\ msg.flags = bound.flags
          /\ SetEntry(n, o, Assigned(msg, bound, TRUE, FALSE))
          /\ TakeAssign(n, c, msg, bound, TRUE, FALSE)
          /\ UNCHANGED resume
       \/ /\ msg.flags # bound.flags
          /\ SetEntry(n, o, bound)
          /\ Send(n, c, <<Out(FlagsUpdate(msg.id, bound.flags), Nil)>>)
          /\ resume' = [resume EXCEPT ![n][c] = [msg |-> msg, obj |-> o]]
          /\ UNCHANGED <<dirty, view>>
    /\ UNCHANGED <<role, ents, saved>>

\* the reader has the monitor again; its entry may have been changed or removed
\* by then, and if it was removed it is collected when the reader lets go of it
BindResumed(n, c) ==
    LET r == resume[n][c]
        o == r.obj
        e == heap[n][o]
    IN
    /\ r # Nothing /\ hand[n][c] = <<>>
    /\ SetEntry(n, o, IF o \in Referenced(ents[n], idMap[n])
                      THEN Assigned(r.msg, e, TRUE, FALSE) ELSE FreeEntry)
    /\ TakeAssign(n, c, r.msg, e, TRUE, FALSE)
    /\ resume' = [resume EXCEPT ![n][c] = Nothing]
    /\ UNCHANGED <<role, ents, idMap, idCount, saved>>

TakeUpdate(n, c, msg) ==
    LET o == Lookup(n, msg.id)
        e == heap[n][o]
    IN
    /\ Free(n, c)
    /\ o # Nil /\ ~ StaleUpdate(msg, e)
    /\ SetEntry(n, o, [e EXCEPT !.val = msg.val, !.seq = msg.seq])
    /\ MarkDirty(n, IsPersistent(e))
    /\ Notify(n, e.name, msg.val)
    /\ Relay(n, c, msg)
    /\ UNCHANGED <<role, ents, idMap, idCount, saved, resume>>

TakeFlags(n, c, msg) ==
    LET o == Lookup(n, msg.id)
        e == heap[n][o]
    IN
    /\ Free(n, c)
    /\ o # Nil /\ e.flags # msg.flags
    /\ SetEntry(n, o, [e EXCEPT !.flags = msg.flags])
    /\ MarkDirty(n, TRUE)
    /\ Notify(n, e.name, e.val)
    /\ Relay(n, c, msg)
    /\ UNCHANGED <<role, ents, idMap, idCount, saved, resume>>

\* the slot is emptied, and whatever entry has the name of the slot's is removed
TakeDelete(n, c, msg) ==
    LET o == Lookup(n, msg.id)
        e == heap[n][o]
    IN
    /\ Free(n, c)
    /\ o # Nil
    /\ RemoveEntry(n, msg.id, e.name)
    /\ MarkDirty(n, IsPersistent(e))
    /\ IF Exists(n, e.name) THEN Notify(n, e.name, Nil) ELSE UNCHANGED view
    /\ Relay(n, c, msg)
    /\ UNCHANGED <<role, saved, resume>>

TakeClear(n, c, msg) ==
    /\ Free(n, c)
    /\ DeleteAllEntriesImpl(n)
    /\ Relay(n, c, msg)

\* the messages that change nothing
Ignored(n, c, msg) ==
    LET o == Lookup(n, msg.id) IN
    /\ Free(n, c)
    /\ CASE msg.type = "EntryAssign" ->
                IF msg.id = Unassigned THEN IsServer(n) => Exists(n, msg.str)
                                       ELSE IsServer(n) /\ o = Nil
         [] msg.type = "EntryUpdate" -> o # Nil => StaleUpdate(msg, heap[n][o])
         [] msg.type = "FlagsUpdate" -> o # Nil => heap[n][o].flags = msg.flags
         [] msg.type = "EntryDelete" -> o = Nil
         [] OTHER -> msg.type # "ClearEntries"
    /\ UNCHANGED storageVars

ProcessIncoming(n, c, msg, rev3) ==
    /\ role[n] # "idle"
    /\ \/ msg.type = "EntryAssign" /\ AssignNew(n, c, msg)
       \/ msg.type = "EntryAssign" /\ AssignUnknown(n, c, msg)
       \/ msg.type = "EntryAssign" /\ AssignKnown(n, c, msg, rev3)
       \/ msg.type = "EntryAssign" /\ Bind(n, c, msg)
       \/ msg.type = "EntryUpdate" /\ TakeUpdate(n, c, msg)
       \/ msg.type = "FlagsUpdate" /\ TakeFlags(n, c, msg)
       \/ msg.type = "EntryDelete" /\ TakeDelete(n, c, msg)
       \/ msg.type = "ClearEntries" /\ TakeClear(n, c, msg)
       \/ Ignored(n, c, msg)
-----------------------------------------------------------------------------
(* Connecting, saving and starting *)

\* GetInitialAssignments: the entries as a server presents them to a client, by
\* name.  Their order in the list does not matter: each message is about another
\* entry, and has another id.
InitialAssignments(n) ==
    [name \in KnownNames(n) |->
        LET e == EntryOf(n, name) IN EntryAssign(name, e.id, e.seq, e.val, e.flags)]

\* Unsent, had the client kept its own entries to itself
UnsentNone(n, table) == {}

\* the outMsgs of ApplyInitialAssignments: the entries the server did not name
Unsent(n, table) ==
    {[InitialAssignments(n)[name] EXCEPT !.id = Unassigned] : name \in KnownNames(n) \ DOMAIN table}

\* WithoutId, had the entry kept the id another server gave it
WithOldId(e) == e

\* an entry that is the client's alone for now: "entry.Id = 0xffff"
WithoutId(e) == [e EXCEPT !.id = Unassigned]

\* The reader of a client's only connection takes the server's entries.  Every
\* id is forgotten first, which is why the update that tells the server of a
\* newer value goes out with the id 0xffff.
ApplyInitialAssignments(n, c, table, newServer, rev3) ==
    LET named == DOMAIN table
        new == named \ KnownNames(n)
        present == named \cup KnownNames(n)
        unused == Objs \ {ents[n][name] : name \in Names}
        places == Injection(new, unused)
        place == CHOOSE p \in places : TRUE
        kept == {name \in named \ new :
                    ~ newServer /\ NotNewer(table[name].seq, EntryOf(n, name).seq)}
        after(name) ==
            LET e == EntryOf(n, name) IN
            CASE name \notin named -> WithoutId(e)
              [] name \in new ->
                    NewEntry(name, table[name].val, table[name].flags, table[name].id, table[name].seq)
              [] name \in kept -> [e EXCEPT !.id = table[name].id]
              [] OTHER -> [e EXCEPT !.val = table[name].val, !.seq = table[name].seq,
                                    !.id = table[name].id,
                                    !.flags = IF rev3 THEN table[name].flags ELSE @]
        order == SetToSeq(kept)
        update(e) == Out(EntryUpdate(Unassigned, e.seq, e.val), Nil)
    IN
    /\ role[n] = "client" /\ Free(n, c)
    /\ \A d \in Conns : resume[n][d] = Nothing
    /\ places # {}
    /\ ents' = [ents EXCEPT ![n] = [name \in Names |-> IF name \in new THEN place[name] ELSE @[name]]]
    /\ heap' = [heap EXCEPT ![n] =
          [o \in Objs |->
              LET owner == {name \in present : ents'[n][name] = o}
              IN IF owner = {} THEN FreeEntry ELSE after(CHOOSE name \in owner : TRUE)]]
    /\ idMap' = [idMap EXCEPT ![n] =
          [id \in Ids |->
              LET owner == {name \in named : table[name].id = id}
              IN IF owner = {} THEN Nil ELSE ents'[n][CHOOSE name \in owner : TRUE]]]
    /\ idCount' = [idCount EXCEPT ![n] = Max({0} \cup {table[name].id + 1 : name \in named})]
    /\ view' = [view EXCEPT ![n] =
          [name \in Names |-> IF name \in named \ kept THEN table[name].val ELSE @[name]]]
    /\ Send(n, c, [i \in DOMAIN order |-> update(EntryOf(n, order[i]))])
    /\ UNCHANGED <<role, dirty, saved, resume>>

\* GetPersistentEntries, by which every save of the persistent entries begins
PersistentEntries(n) ==
    [name \in Names |->
        IF Exists(n, name) /\ IsPersistent(EntryOf(n, name)) THEN EntryOf(n, name).val ELSE Nil]

GetPersistentEntries(n) ==
    /\ dirty' = [dirty EXCEPT ![n] = FALSE]
    /\ saved' = [saved EXCEPT ![n] = PersistentEntries(n)]
    /\ UNCHANGED <<role, heap, ents, idMap, idCount, view, hand, resume>>

\* StartServer and StartClient, at first and whenever the node has been stopped:
\* the tables stay as they are
SetOutgoing(n, server) ==
    /\ IF server THEN n \in Servers ELSE n \in Clients
    /\ role' = [role EXCEPT ![n] =
          IF ~ server THEN "client" ELSE IF AlwaysServer(n) THEN "server" ELSE "turned"]
    /\ UNCHANGED <<heap, ents, idMap, idCount, dirty, saved, view, hand, resume>>

\* a thread passes on the first message it has in hand
HandOver(n, t) ==
    /\ hand[n][t] # <<>>
    /\ hand' = [hand EXCEPT ![n][t] = Tail(@)]
    /\ UNCHANGED <<role, heap, ents, idMap, idCount, dirty, saved, view, resume>>
-----------------------------------------------------------------------------
(* A node by itself, its connections carrying whatever a peer may send. *)

EmptyTables ==
    /\ heap = [n \in Nodes |-> [o \in Objs |-> FreeEntry]]
    /\ ents = [n \in Nodes |-> [name \in Names |-> Nil]]
    /\ idMap = [n \in Nodes |-> [id \in Ids |-> Nil]]
    /\ idCount = [n \in Nodes |-> 0]
    /\ dirty = [n \in Nodes |-> FALSE]
    /\ saved = [n \in Nodes |-> [name \in Names |-> Nil]]
    /\ view = [n \in Nodes |-> [name \in Names |-> Nil]]
    /\ hand = [n \in Nodes |-> [t \in Threads |-> <<>>]]
    /\ resume = [n \in Nodes |-> [c \in Conns |-> Nothing]]

Init == EmptyTables /\ role = [n \in Nodes |-> "idle"]

EntryAssigns ==
    {EntryAssign(name, id, seq, value, flags) :
        name \in Names, id \in AnyId, seq \in SeqNums, value \in Values, flags \in BOOLEAN}

PeerMessages ==
    EntryAssigns
    \cup {EntryUpdate(id, seq, value) : id \in AnyId, seq \in SeqNums, value \in Values}
    \cup {FlagsUpdate(id, flags) : id \in AnyId, flags \in BOOLEAN}
    \cup {EntryDelete(id) : id \in AnyId}
    \cup {ClearEntries}

\* what a server's table can look like to a client
Presentations ==
    LET columns == [id : Ids, seq : SeqNums, val : Values, flags : BOOLEAN]
        present(p) == [name \in DOMAIN p |->
                          EntryAssign(name, p[name].id, p[name].seq, p[name].val, p[name].flags)]
        distinct(p) == \A x, y \in DOMAIN p : p[x].id = p[y].id => x = y
    IN {present(p) : p \in {q \in UNION {[known -> columns] : known \in SUBSET Names} : distinct(q)}}

Next ==
    \E n \in Nodes :
        \/ \E server \in BOOLEAN : SetOutgoing(n, server)
        \/ GetPersistentEntries(n)
        \/ \E u \in Users : UserCall(n, u)
        \/ \E c \in Conns :
              \/ \E msg \in PeerMessages :
                    \E rev3 \in IF msg.type = "EntryAssign" THEN BOOLEAN ELSE {TRUE} :
                        ProcessIncoming(n, c, msg, rev3)
              \/ BindResumed(n, c)
              \/ /\ role[n] = "client"
                 /\ \E table \in Presentations, newServer, rev3 \in BOOLEAN :
                       ApplyInitialAssignments(n, c, table, newServer, rev3)
        \/ \E t \in Threads : HandOver(n, t)

Spec == Init /\ [][Next]_storageVars
-----------------------------------------------------------------------------
TypeOK ==
    /\ role \in [Nodes -> {"idle", "server", "client", "turned"}]
    /\ heap \in [Nodes -> [Objs -> Entry]]
    /\ ents \in [Nodes -> [Names -> Objs \cup {Nil}]]
    /\ idMap \in [Nodes -> [Ids -> Objs \cup {Nil}]]
    /\ idCount \in [Nodes -> AnyId]
    /\ dirty \in [Nodes -> BOOLEAN]
    /\ saved \in [Nodes -> [Names -> Values \cup {Nil}]]
    /\ view \in [Nodes -> [Names -> Values \cup {Nil}]]
    /\ hand \in [Nodes -> [Threads -> Seq([msg : Message, except : Conns \cup {Nil}])]]
    /\ resume \in [Nodes -> [Conns -> [msg : EntryAssigns \cup {Nil}, obj : Objs \cup {Nil}]]]

\* On a server m_entries and m_idMap are two indexes of the same entries: each
\* entry of a name has an id, that id leads back to it, and no slot leads to an
\* entry that has lost its name.  It takes every operation that adds or removes
\* an entry to keep this, and a server answers a client by id alone.  A server
\* that was a client may have entries without id, and what another server made
\* of its slots; an entry that has an id is still found by it.
ServerIdMap ==
    \A n \in Nodes : IsServer(n) =>
        /\ \A name \in Names : Exists(n, name) =>
              /\ EntryOf(n, name).name = name
              /\ \/ ~ AlwaysServer(n) /\ EntryOf(n, name).id = Unassigned
                 \/ /\ EntryOf(n, name).id < idCount[n]
                    /\ idMap[n][EntryOf(n, name).id] = ents[n][name]
        /\ \A id \in Ids : idMap[n][id] # Nil =>
              /\ id < idCount[n]
              /\ AlwaysServer(n) =>
                    /\ heap[n][idMap[n][id]].id = id
                    /\ ents[n][heap[n][idMap[n][id]].name] = idMap[n][id]

\* Whatever its server sends, and while an assignment is half done, an id that a
\* node would put into a message of an entry is one by which it finds the entry.
EntryIdsResolve ==
    \A n \in Nodes, name \in Names : Exists(n, name) =>
        LET e == EntryOf(n, name) IN
        /\ e.name = name
        /\ e.id # Unassigned => Lookup(n, e.id) = ents[n][name]

\* A listener that follows every notification of a server knows its table of
\* values, what was loaded from a file included.
ViewMatches ==
    \A n \in Nodes, name \in Names : AlwaysServer(n) =>
        view[n][name] = IF Exists(n, name) THEN EntryOf(n, name).val ELSE Nil

\* A server never misses a change of its persistent entries: each has the value
\* that the last snapshot, or a file loaded since, has for it, or the dirty flag
\* asks for a new snapshot.
DirtyCoversChanges ==
    \A n \in Nodes : AlwaysServer(n) => saved[n] = PersistentEntries(n) \/ dirty[n]

\* A server never gives an id again: a slot it has emptied stays empty, so a
\* late message for a deleted entry cannot reach another one.
IdsNotReused ==
    [][\A n \in Nodes : IsServer(n) =>
          /\ idCount'[n] >= idCount[n]
          /\ \A id \in Ids : id < idCount[n] /\ idMap[n][id] = Nil => idMap'[n][id] = Nil
      ]_storageVars

\* No step of a server, of a user or of a reader, takes an entry back to an
\* older write: its sequence number is kept or goes forward.
ServerSeqForward ==
    [][\A n \in Nodes, o \in Objs :
          IsServer(n) /\ heap[n][o].name # Nil /\ heap'[n][o].name # Nil =>
              ~ Older(heap'[n][o].seq, heap[n][o].seq)
      ]_storageVars
=============================================================================
