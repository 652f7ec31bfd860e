--------------------------- MODULE SequenceNumber ---------------------------
(***************************************************************************)
(* The 16-bit sequence numbers that order the writes of one table entry    *)
(* (SequenceNumber.cs).  They wrap, and are compared the way serial        *)
(* numbers are: the shorter way round the circle decides which is older.   *)
(* HalfRange stands for 1u << 15, so that TLC can go round the circle.     *)
(***************************************************************************)
EXTENDS Integers

CONSTANT HalfRange

ASSUME HalfRangeAssumption == HalfRange \in Nat /\ HalfRange > 1

SeqNums == 0 .. (2 * HalfRange - 1)

\* operator ++ : the successor, 0xffff + 1 being 0
Inc(a) == IF a + 1 > 2 * HalfRange - 1 THEN 0 ELSE a + 1

\* An unwrapped comparison, the mistake serial numbers exist to avoid.
PlainLess(a, b) == a < b

\* operator <
Older(a, b) ==
    \/ a < b /\ b - a < HalfRange
    \/ a > b /\ a - b > HalfRange

\* operator >
Newer(a, b) ==
    \/ a < b /\ b - a > HalfRange
    \/ a > b /\ a - b < HalfRange

\* operator <=
NotNewer(a, b) == a = b \/ Older(a, b)

(***************************************************************************)
(* The distance of d steps forward from a, for 0 <= d <= 2 * HalfRange.    *)
(* (Not code: it is how the lemmas say "d increments later".)              *)
(***************************************************************************)
Ahead(a, d) == IF a + d >= 2 * HalfRange THEN a + d - 2 * HalfRange ELSE a + d
=============================================================================
