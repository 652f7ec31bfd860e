------------------------------ MODULE FlushQueue ------------------------------
(***************************************************************************)
(* One connection of a server between flushes: the server's Storage queues *)
(* the messages of its entries, RPC answers go through the same queue, and *)
(* the dispatch thread posts the pending list.  What the merge is for is   *)
(* that the peer, reading the posted list, ends up where it would be had   *)
(* it read every message queued.                                           *)
(***************************************************************************)
EXTENDS OutgoingQueue, SequencesExt

CONSTANTS MaxPending   \* bound on the messages queued between two flushes

ASSUME MaxPendingAssumption == MaxPending \in Nat

ASSUME NilIsNoFlag == Nil \notin BOOLEAN

VARIABLES
    queue,    \* m_pendingOutgoing and m_pendingUpdate
    flagsOf,  \* the flags of the server's entry of each id, Nil if it has none
    nextId,   \* m_idMap.Count: an id is handed out once
    synced,   \* flagsOf at the last flush (history)
    given,    \* the messages queued since the last flush (history)
    collided, \* one of them was merged with, or cleared, what it should not (history)
    faulted   \* one of them was refused with an exception (history)

flushVars == <<queue, flagsOf, nextId, synced, given, collided, faulted>>

Live == {id \in Ids : flagsOf[id] # Nil}

FlushTypeOK ==
    /\ queue \in [list : Seq(Message), count : Nat,
                  update : [Ids -> [first : Nat, second : Nat]], fault : BOOLEAN]
    /\ flagsOf \in [Ids -> BOOLEAN \cup {Nil}]
    /\ synced \in [Ids -> BOOLEAN \cup {Nil}]
    /\ nextId \in AnyId
    /\ given \in Seq(Message)
    /\ collided \in BOOLEAN /\ faulted \in BOOLEAN

FlushInit ==
    /\ queue = EmptyQueue
    /\ nextId \in AnyId
    /\ flagsOf \in [Ids -> BOOLEAN \cup {Nil}] /\ Live = {id \in Ids : id < nextId}
    /\ synced = flagsOf
    /\ given = <<>>
    /\ collided = FALSE /\ faulted = FALSE

\* What the server's Storage and RpcServer may queue next.  Sequence numbers
\* play no part in the merge, and are 0.
Queueable ==
    {EntryAssign(name, id, 0, value, flags) :
        name \in Names, value \in Values, flags \in BOOLEAN,
        id \in Live \cup ({nextId} \ {Unassigned})}
    \cup {EntryUpdate(id, 0, value) : id \in Live, value \in Values}
    \cup {FlagsUpdate(id, flags) : id \in Live, flags \in BOOLEAN}
    \cup {EntryDelete(id) : id \in Live}
    \cup {ClearEntries, ExecuteRpc(0, 0)}

\* what is left of the server's entries; a clear spares the persistent ones
FlagsAfter(msg) ==
    CASE msg.type \in {"EntryAssign", "FlagsUpdate"} -> [flagsOf EXCEPT ![msg.id] = msg.flags]
      [] msg.type = "EntryDelete" -> [flagsOf EXCEPT ![msg.id] = Nil]
      [] msg.type = "ClearEntries" ->
            [id \in Ids |-> IF flagsOf[id] = TRUE THEN TRUE ELSE Nil]
      [] OTHER -> flagsOf

\* a ClearEntries knocks out what is pending for an entry that the server or the
\* peer, reading it, spares
ClearsSpared(msg) ==
    /\ msg.type = "ClearEntries"
    /\ \E i \in DOMAIN queue.list :
          /\ queue.list[i].type \in EntryTypes \ {"ClearEntries"}
          /\ flagsOf[queue.list[i].id] = TRUE \/ synced[queue.list[i].id] = TRUE

\* DispatcherBase.QueueOutgoing reaching this connection
Queue(msg) ==
    /\ Len(given) < MaxPending
    /\ queue' = QueueOutgoing(queue, msg)
    /\ flagsOf' = FlagsAfter(msg)
    /\ nextId' = IF msg.type = "EntryAssign" /\ msg.id = nextId THEN nextId + 1 ELSE nextId
    /\ given' = Append(given, msg)
    /\ collided' = (collided \/ Meets(queue, msg) \/ ClearsSpared(msg))
    /\ faulted' = (faulted \/ queue'.fault)
    /\ UNCHANGED synced

\* NetworkConnection.PostOutgoing with something pending
PostOutgoing ==
    /\ queue.list # <<>>
    /\ queue' = EmptyQueue
    /\ synced' = flagsOf
    /\ given' = <<>>
    /\ collided' = FALSE /\ faulted' = FALSE
    /\ UNCHANGED <<flagsOf, nextId>>

FlushNext == PostOutgoing \/ \E msg \in Queueable : Queue(msg)

FlushSpec == FlushInit /\ [][FlushNext]_flushVars
-----------------------------------------------------------------------------
(* The peer's table, and what a message does to it. *)

Absent == [val |-> Nil, flags |-> Nil]
Entry(flags) == [val |-> Nil, flags |-> flags]   \* with the value it had at the flush

PeerAtFlush == [id \in Ids |-> Entry(synced[id])]

Here(peer, id) == peer[id].flags # Nil

Read(peer, msg) ==
    CASE msg.type = "EntryAssign" ->
            [peer EXCEPT ![msg.id] = [val |-> msg.val, flags |-> msg.flags]]
      [] msg.type = "EntryUpdate" /\ Here(peer, msg.id) -> [peer EXCEPT ![msg.id].val = msg.val]
      [] msg.type = "FlagsUpdate" /\ Here(peer, msg.id) -> [peer EXCEPT ![msg.id].flags = msg.flags]
      [] msg.type = "EntryDelete" -> [peer EXCEPT ![msg.id] = Absent]
      [] msg.type = "ClearEntries" ->
            [id \in Ids |-> IF peer[id].flags = TRUE THEN peer[id] ELSE Absent]
      [] OTHER -> peer

PeerAfter(list) == FoldLeft(Read, PeerAtFlush, list)

\* The pending list does to the peer what all the queued messages would have
\* done, blanked deletes, overwritten flags and cleared assignments included.
\* It is claimed for intervals in which no two values of an entry were queued
\* (those are stored in the wrong place, see MergedAssignment, or refused), and
\* no clear came after a message about a persistent entry, which it knocks out
\* although it spares the entry.  And it is not claimed for the flags of an
\* entry assigned in the interval: a second FlagsUpdate takes the place of the
\* first, which can be ahead of the assignment.
EffectKept ==
    ~ collided /\ ~ faulted =>
        LET read == PeerAfter(queue.list)
            meant == PeerAfter(given)
        IN \A id \in Ids :
              /\ Here(read, id) <=> Here(meant, id)
              /\ read[id].val = meant[id].val
              /\ queue.update[id].first = 0 => read[id].flags = meant[id].flags

\* After a ClearEntries nothing queued before it is left to be read, and no
\* later message takes its place, misplaced merges included.
ClearedForGood ==
    LET cleared == {i \in DOMAIN given : given[i].type = "ClearEntries"} IN
    cleared # {} =>
        \E i \in DOMAIN queue.list :
            /\ queue.list[i].type = "ClearEntries"
            /\ \A j \in 1 .. (i - 1) : queue.list[j].type \in {"Unknown", "ExecuteRpc"}

\* Whatever was queued, the positions remembered for the entries are positions
\* of the pending list, so looking up the previous message never throws; and an
\* id the table has no slot for has none remembered.
PositionsInList ==
    \A id \in Ids :
        /\ queue.update[id].first <= Len(queue.list)
        /\ queue.update[id].second <= Len(queue.list)
        /\ id >= queue.count => queue.update[id] = [first |-> 0, second |-> 0]

\* "need to update assignement" (NetworkConnection.cs:227): when the last thing
\* queued is an update of an entry whose assignment is pending, the assignment
\* is left with the new value.
MergedAssignment ==
    LET last == given[Len(given)]
        pos == queue.update[last.id].first
    IN (given # <<>> /\ last.type = "EntryUpdate" /\ pos # 0) =>
          queue.list[pos].val = last.val

\* "only delete non-persistent values" (Storage.cs:868): the last message queued
\* is a clear, and the peer that reads the pending list still has the entries
\* the server's clear spared.
ClearKeepsPersistent ==
    given # <<>> /\ given[Len(given)].type = "ClearEntries" =>
        \A id \in Live : Here(PeerAfter(queue.list), id)
=============================================================================
