---------------------------- MODULE OutgoingQueue ----------------------------
(***************************************************************************)
(* The messages a connection has pending between two flushes, and how a    *)
(* new one is merged with them (NetworkConnection.QueueOutgoing and        *)
(* PostOutgoing).  m_pendingUpdate remembers, for each entry id, where in  *)
(* m_pendingOutgoing its last assignment or update (first) and its last    *)
(* flags update (second) are, counted from 1, 0 meaning nowhere.           *)
(*                                                                         *)
(* A queue is a value, [list, count, update, fault], and the operators     *)
(* return the queue after the call; fault is set when the call leaves by   *)
(* an ArgumentOutOfRangeException, thrown to whoever queued the message.   *)
(***************************************************************************)
EXTENDS Messages, Sequences

EmptyQueue == [list |-> <<>>, count |-> 0,
               update |-> [id \in Ids |-> [first |-> 0, second |-> 0]],
               fault |-> FALSE]

Fault(q) == [q EXCEPT !.fault = TRUE]

Add(q, msg) == [q EXCEPT !.list = Append(@, msg), !.fault = FALSE]

Replace(q, pos, msg) == [q EXCEPT !.list[pos] = msg, !.fault = FALSE]

\* ResizePendingUpdate: the table never shrinks but by Clear
Resized(q, size) == [q EXCEPT !.count = IF size > @ THEN size ELSE @]

\* where QueueOutgoing stores a merged assignment or update: the code uses the
\* 1-based position as a 0-based index, and hits the message after the old one
MergeIndex(q, id) == q.update[id].first + 1

\* where it reads the old one, with the same position less one
PreviousIndex(q, id) == q.update[id].first

Merged(q, id, msg) ==
    LET old == q.list[PreviousIndex(q, id)]
    IN IF old.type = "EntryAssign" /\ msg.type = "EntryUpdate"
       THEN EntryAssign(old.str, id, msg.seq, msg.val, old.flags)
       ELSE msg

AddValue(q, msg) ==
    LET id == msg.id
        added == Resized(Add(q, msg), id + 1)
    IN IF q.update[id].first = 0
       THEN [added EXCEPT !.update[id].first = Len(q.list) + 1]
       ELSE IF MergeIndex(q, id) \in 1 .. Len(q.list)
            THEN Replace(q, MergeIndex(q, id), Merged(q, id, msg))
            ELSE Fault(q)

\* msg is a value of an entry that has one pending
Meets(q, msg) ==
    /\ msg.type \in {"EntryAssign", "EntryUpdate"}
    /\ msg.id # Unassigned
    /\ q.update[msg.id].first # 0

\* an EntryDelete blanks what is pending for its entry
BlankPending(q, id) ==
    LET gone == {q.update[id].first, q.update[id].second} \ {0}
    IN [q EXCEPT !.list = [i \in DOMAIN @ |-> IF i \in gone THEN Blank ELSE @[i]],
                 !.update[id] = [first |-> 0, second |-> 0]]

AddDelete(q, msg) == Add(BlankPending(q, msg.id), msg)

\* AddFlags, had it left the flags pending as they are
AddFlagsKeepOld(q, msg) ==
    IF q.update[msg.id].second # 0 THEN q
    ELSE [Resized(Add(q, msg), msg.id + 1) EXCEPT !.update[msg.id].second = Len(q.list) + 1]

\* "if (id > m_pendingUpdate.Count)" leaves no slot for an id equal to Count,
\* and the indexing after it throws once the message is in the list
AddFlags(q, msg) ==
    LET id == msg.id
        added == Add(q, msg)
        resized == IF id > q.count THEN Resized(added, id + 1) ELSE added
    IN IF q.update[id].second # 0
       THEN Replace(q, q.update[id].second, msg)
       ELSE IF id < resized.count
            THEN [resized EXCEPT !.update[id].second = Len(q.list) + 1]
            ELSE Fault(resized)

EntryTypes == {"EntryAssign", "EntryUpdate", "FlagsUpdate", "EntryDelete", "ClearEntries"}

\* AddClear, without its m_pendingUpdate.Clear()
AddClearKeepPositions(q, msg) ==
    Add([q EXCEPT !.list =
            [i \in DOMAIN q.list |->
                IF q.list[i].type \in EntryTypes THEN Blank ELSE q.list[i]]],
        msg)

AddClear(q, msg) ==
    Add([EmptyQueue EXCEPT !.list =
            [i \in DOMAIN q.list |->
                IF q.list[i].type \in EntryTypes THEN Blank ELSE q.list[i]]],
        msg)

\* NetworkConnection.QueueOutgoing
QueueOutgoing(q, msg) ==
    CASE msg.type = "ClearEntries" -> AddClear(q, msg)
      [] msg.id # Unassigned /\ msg.type \in {"EntryAssign", "EntryUpdate"} -> AddValue(q, msg)
      [] msg.id # Unassigned /\ msg.type = "EntryDelete" -> AddDelete(q, msg)
      [] msg.id # Unassigned /\ msg.type = "FlagsUpdate" -> AddFlags(q, msg)
      [] OTHER -> Add(q, msg)
=============================================================================
