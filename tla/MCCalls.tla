--------------------------------- MODULE MCCalls ---------------------------------
(***************************************************************************)
(* Threads that wait for another to act, for TLC to check in one run: the  *)
(* callers of a remote procedure (Rpc), and the threads in WaitForQueue    *)
(* and Poll of the native callback manager (CallbackManager).  The two     *)
(* share no state: the initial state picks the one that moves, and the     *)
(* other stays as it begins.  Calls.cfg gives CallbackManager's constants  *)
(* for listeners with callbacks, waited for.                               *)
(***************************************************************************)
EXTENDS Rpc, CallbackManager

VARIABLE part

\* polled listeners
Polled == INSTANCE CallbackManager WITH
    Added <- {TRUE}, Waits <- {}, Polls <- {"timed", "forever"},
    MaxSends <- 1, MaxPollCancels <- 1

callVars == <<part, vars, managerVars>>

CallsInit ==
    /\ part \in {"rpc", "callbacks", "polled"}
    /\ Init /\ (polled => part = "rpc")
    /\ ManagerInit

Moves(p) == part = p /\ UNCHANGED part

CallsNext ==
    \/ Moves("rpc") /\ Next /\ UNCHANGED managerVars
    \/ Moves("callbacks") /\ ManagerNext /\ UNCHANGED vars
    \/ Moves("polled") /\ Polled!ManagerNext /\ UNCHANGED vars

\* What the two instances promise is the same: it speaks of no constant they differ in.
CallsSpec == CallsInit /\ [][CallsNext]_callVars /\ Fairness /\ ManagerFairness
=============================================================================
