------------------------------- MODULE Messages -------------------------------
(***************************************************************************)
(* The messages by which two copies of the table keep each other up to     *)
(* date (Message.cs): their constructors, with the fields the receiver     *)
(* reads.  A Message object has every field, and so has the record; an     *)
(* unset string or value is Nil.  Entry flags are one bit, Persistent,     *)
(* the only one the code tests.                                            *)
(***************************************************************************)
EXTENDS SequenceNumber

CONSTANTS
    Names,       \* the entry names
    Values,      \* the values an entry can have
    Nil,         \* no name, no value, no entry: C#'s null
    Unassigned   \* the id 0xffff: the ids below it can be assigned

ASSUME MessagesAssumption ==
    /\ Unassigned \in Nat \ {0}
    /\ Nil \notin Names /\ Nil \notin Values

Ids == 0 .. (Unassigned - 1)
AnyId == 0 .. Unassigned

MsgTypes == {"Unknown", "HelloDone", "EntryAssign", "EntryUpdate", "FlagsUpdate",
             "EntryDelete", "ClearEntries", "ExecuteRpc"}

Message == [type : MsgTypes, str : Names \cup {Nil}, id : AnyId,
            seq : SeqNums, val : Values \cup {Nil}, flags : BOOLEAN]

\* new Message(): of type Unknown, for which Write puts nothing on the wire
Blank == [type |-> "Unknown", str |-> Nil, id |-> 0, seq |-> 0,
          val |-> Nil, flags |-> FALSE]

EntryAssign(name, id, seq, value, flags) ==
    [type |-> "EntryAssign", str |-> name, id |-> id, seq |-> seq,
     val |-> value, flags |-> flags]

EntryUpdate(id, seq, value) ==
    [Blank EXCEPT !.type = "EntryUpdate", !.id = id, !.seq = seq, !.val = value]

FlagsUpdate(id, flags) ==
    [Blank EXCEPT !.type = "FlagsUpdate", !.id = id, !.flags = flags]

EntryDelete(id) == [Blank EXCEPT !.type = "EntryDelete", !.id = id]

ClearEntries == [Blank EXCEPT !.type = "ClearEntries"]

\* ServerHelloDone and ClientHelloDone, which end the initial assignments
HelloDone == [Blank EXCEPT !.type = "HelloDone"]

ExecuteRpc(id, uid) == [Blank EXCEPT !.type = "ExecuteRpc", !.id = id, !.seq = uid]
=============================================================================
