--------------------------- MODULE SequenceWindow ---------------------------
(***************************************************************************)
(* One table entry written by one node and read by another: SetEntryValue  *)
(* increments the entry's sequence number and sends an EntryUpdate, and    *)
(* the EntryUpdate handler of the receiver keeps a value only when its     *)
(* number is newer.  The threads of the two nodes and the pending queue    *)
(* between them may reorder, repeat and drop updates, so the messages are  *)
(* a set.  The history variables count the writes without wrapping: they   *)
(* say what the order of the 16-bit numbers ought to be.                   *)
(***************************************************************************)
EXTENDS SequenceNumber

CONSTANTS MaxWrites   \* bound on the number of writes of a behaviour

ASSUME MaxWritesAssumption == MaxWrites \in Nat

VARIABLES
    seq,        \* the writer's entry.SeqNum
    writes,     \* how many times the writer has written (history)
    updates,    \* EntryUpdates under way: the number sent, and which write it is
    held,       \* the receiver's entry.SeqNum
    heldWrite   \* which write the receiver's value is (history)

windowVars == <<seq, writes, updates, held, heldWrite>>

WindowTypeOK ==
    /\ seq \in SeqNums /\ held \in SeqNums
    /\ writes \in 0 .. MaxWrites /\ heldWrite \in 0 .. MaxWrites
    /\ updates \subseteq [seq : SeqNums, write : 1 .. MaxWrites]

WindowInit ==
    /\ seq = 0 /\ writes = 0
    /\ updates = {}
    /\ held = 0 /\ heldWrite = 0

\* Storage.SetEntryValue, the branch that changes the value
Write ==
    /\ writes < MaxWrites
    /\ seq' = Inc(seq)
    /\ writes' = writes + 1
    /\ updates' = updates \cup {[seq |-> seq', write |-> writes']}
    /\ UNCHANGED <<held, heldWrite>>

\* Storage.ProcessIncoming, EntryUpdate: "if (seqNum <= entry.SeqNum) return"
Keep(u) ==
    /\ ~ NotNewer(u.seq, held)
    /\ held' = u.seq
    /\ heldWrite' = u.write
    /\ \E rest \in {updates, updates \ {u}} : updates' = rest
    /\ UNCHANGED <<seq, writes>>

\* the early return, and an update that never arrives
Drop(u) ==
    /\ updates' = updates \ {u}
    /\ UNCHANGED <<seq, writes, held, heldWrite>>

WindowNext == Write \/ \E u \in updates : Keep(u) \/ Drop(u)

WindowSpec == WindowInit /\ [][WindowNext]_windowVars
-----------------------------------------------------------------------------
\* An update less than half the circle away from what the receiver holds is
\* ordered against it as the writes themselves were: a late one is never taken
\* for a new one, nor a new one for a late one, also across the wrap to 0.
OrderIsWriteOrder ==
    \A u \in updates :
        LET ahead == u.write - heldWrite IN
        (ahead < HalfRange /\ -ahead < HalfRange) =>
            /\ Older(u.seq, held) <=> ahead < 0
            /\ Newer(u.seq, held) <=> ahead > 0
            /\ u.seq = held <=> ahead = 0

\* The receiver's value goes back to an older write only if an update came that
\* was half the circle or more behind it.
NeverBackInWindow ==
    [][heldWrite' < heldWrite => heldWrite - heldWrite' >= HalfRange]_windowVars
=============================================================================
