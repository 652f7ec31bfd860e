------------------------------- MODULE EntryFlags -------------------------------
(***************************************************************************)
(* The flags of one entry that every node has: SetFlags and ClearFlags of  *)
(* the tables (IndependentNetworkTable.cs, and the native library's        *)
(* NetworkTableEntry.inl), which read the flags and set them in two calls, *)
(* and Storage's FlagsUpdate, which has no sequence number and is queued   *)
(* after the monitor is released.  Connections stay up; merged updates     *)
(* (FlushQueue) have the effect of the last of them.                       *)
(***************************************************************************)
EXTENDS Integers, Sequences, FiniteSets

CONSTANTS
    Server, Clients,
    Threads,       \* the user's threads on each node
    KnownFlags, Ops,    \* the flags, and what is called: "set", "clear"
    MaxCalls       \* bound on the calls

ASSUME EntryFlagsAssumption ==
    /\ Server \notin Clients /\ Threads # {}
    /\ Ops \subseteq {"set", "clear"} /\ MaxCalls \in Nat

Nodes == Clients \cup {Server}

VARIABLES
    flags,      \* entry.Flags at each node
    calling,    \* of each thread, where its call is and the flags it computed
    up, down,   \* the streams of each client
    relay,      \* what the server's readers have yet to queue to the other clients
    calls,
    callers,    \* who has called (history)
    asked       \* the flags as the calls, in the order they began, make them (history)

flagsVars == <<flags, calling, up, down, relay, calls, callers, asked>>

NotCalling == [pc |-> "idle", flags |-> {}]

FlagsTypeOK ==
    /\ flags \in [Nodes -> SUBSET KnownFlags]
    /\ calling \in [Nodes \X Threads -> [pc : {"idle", "set", "queue"}, flags : SUBSET KnownFlags]]
    /\ up \in [Clients -> Seq(SUBSET KnownFlags)] /\ down \in [Clients -> Seq(SUBSET KnownFlags)]
    /\ relay \in [Clients -> Seq(SUBSET KnownFlags)]
    /\ calls \in 0 .. MaxCalls
    /\ callers \subseteq Nodes \X Threads /\ asked \in SUBSET KnownFlags

FlagsInit ==
    /\ flags = [n \in Nodes |-> {}]
    /\ calling = [t \in Nodes \X Threads |-> NotCalling]
    /\ up = [c \in Clients |-> <<>>] /\ down = [c \in Clients |-> <<>>]
    /\ relay = [c \in Clients |-> <<>>]
    /\ calls = 0 /\ callers = {} /\ asked = {}

ApplyFlags(op, have, flag) == IF op = "set" THEN have \cup {flag} ELSE have \ {flag}

\* SetFlags and ClearFlags, as far as GetEntryFlags
GetEntryFlags(t, op, flag) ==
    /\ calling[t].pc = "idle" /\ calls < MaxCalls
    /\ calling' = [calling EXCEPT ![t] =
                      [pc |-> "set", flags |-> ApplyFlags(op, flags[t[1]], flag)]]
    /\ calls' = calls + 1 /\ callers' = callers \cup {t}
    /\ asked' = ApplyFlags(op, asked, flag)
    /\ UNCHANGED <<flags, up, down, relay>>

\* SetEntryFlags, with the monitor; flags that are as they should be end it
SetEntryFlags(t) ==
    /\ calling[t].pc = "set"
    /\ flags' = [flags EXCEPT ![t[1]] = calling[t].flags]
    /\ calling' = [calling EXCEPT
                      ![t] = IF flags[t[1]] = @.flags THEN NotCalling ELSE [@ EXCEPT !.pc = "queue"]]
    /\ UNCHANGED <<up, down, relay, calls, callers, asked>>

Broadcast(clients, set) ==
    down' = [c \in Clients |-> IF c \in clients THEN Append(down[c], set) ELSE down[c]]

\* SetEntryFlags, after the monitor is released
QueueFlags(t) ==
    /\ calling[t].pc = "queue"
    /\ IF t[1] = Server
       THEN Broadcast(Clients, calling[t].flags) /\ UNCHANGED up
       ELSE /\ up' = [up EXCEPT ![t[1]] = Append(@, calling[t].flags)]
            /\ UNCHANGED down
    /\ calling' = [calling EXCEPT ![t] = NotCalling]
    /\ UNCHANGED <<flags, relay, calls, callers, asked>>

ClientReceives(c) ==
    /\ down[c] # <<>>
    /\ flags' = [flags EXCEPT ![c] = Head(down[c])]
    /\ down' = [down EXCEPT ![c] = Tail(@)]
    /\ UNCHANGED <<calling, up, relay, calls, callers, asked>>

\* ServerReceives, passing nothing on
ServerKeeps(c) ==
    /\ up[c] # <<>> /\ relay[c] = <<>>
    /\ flags' = [flags EXCEPT ![Server] = Head(up[c])]
    /\ up' = [up EXCEPT ![c] = Tail(@)]
    /\ UNCHANGED <<calling, down, relay, calls, callers, asked>>

ServerReceives(c) ==
    /\ up[c] # <<>> /\ relay[c] = <<>>
    /\ flags' = [flags EXCEPT ![Server] = Head(up[c])]
    /\ relay' = [relay EXCEPT ![c] = IF flags[Server] = Head(up[c]) THEN <<>> ELSE <<Head(up[c])>>]
    /\ up' = [up EXCEPT ![c] = Tail(@)]
    /\ UNCHANGED <<calling, down, calls, callers, asked>>

\* to all but the sender, after the monitor is released
ServerRelays(c) ==
    /\ relay[c] # <<>>
    /\ Broadcast(Clients \ {c}, Head(relay[c]))
    /\ relay' = [relay EXCEPT ![c] = <<>>]
    /\ UNCHANGED <<flags, calling, up, calls, callers, asked>>

FlagsNext ==
    \/ \E t \in Nodes \X Threads :
          \/ \E op \in Ops, flag \in KnownFlags : GetEntryFlags(t, op, flag)
          \/ SetEntryFlags(t) \/ QueueFlags(t)
    \/ \E c \in Clients : ClientReceives(c) \/ ServerReceives(c) \/ ServerRelays(c)

FlagsSpec == FlagsInit /\ [][FlagsNext]_flagsVars
-----------------------------------------------------------------------------
Quiet ==
    /\ \A t \in Nodes \X Threads : calling[t].pc = "idle"
    /\ \A c \in Clients : up[c] = <<>> /\ down[c] = <<>> /\ relay[c] = <<>>

\* If one thread of one node made every call, all nodes end up with the flags it asked
\* for, although an update is applied, passed on and answered for while later ones are
\* on their way (Storage.cs:336-370, 778-813).
OneCallerDecides ==
    Quiet /\ Cardinality(callers) <= 1 => \A n \in Nodes : flags[n] = asked

\* "Sets flags on the specified key" (IndependentNetworkTable.cs:160): where nobody
\* clears flags, and no other node calls, none that is set is lost.
NoFlagLost ==
    [][\A n \in Nodes : (\A t \in callers : t[1] = n) => flags[n] \subseteq flags'[n]]_flagsVars
=============================================================================
