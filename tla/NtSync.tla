-------------------------------- MODULE NtSync --------------------------------
(***************************************************************************)
(* A server and its clients keeping their tables the same: the Storage of  *)
(* each node, the pending queue of each end of each connection, the TCP    *)
(* streams between them and the handshake that starts a connection         *)
(* (DispatcherBase.cs, NetworkConnection.cs).                              *)
(*                                                                         *)
(* A connection is named by its client, and its ends are "srv" and "cli".  *)
(* A handshake that has made its connection Synchronized, so that messages *)
(* are queued for it, has yet to send what it has prepared.  The clients   *)
(* and the server stay what they are, and load no files.                   *)
(***************************************************************************)
EXTENDS Storage, OutgoingQueue

CONSTANTS
    Calls,        \* the calls of the public API that users make
    MaxCalls,     \* bound on the calls made
    MaxDrops,     \* bound on the connections lost
    MaxRestarts   \* bound on the crashes of the server

ASSUME NtSyncAssumption ==
    /\ \E s \in Nodes : Servers = {s}
    /\ Conns = Nodes \ Servers
    /\ Calls \subseteq {"SetEntryValue", "SetEntryTypeValue", "SetEntryFlags",
                        "DeleteEntry", "DeleteAllEntries"}
    /\ {MaxCalls, MaxDrops, MaxRestarts} \subseteq Nat

VARIABLES
    state,      \* m_state of each end; a connection that is not there is Dead
    pend,       \* m_pendingOutgoing and m_pendingUpdate of each end
    wire,       \* the messages on their way to each end
    prepared,   \* what the handshake of each end has made ready and not yet sent
    incoming,   \* what the server's handshake has read and not yet processed
    stopped,    \* the ends whose reader an exception has ended
    calls, drops, restarts,   \* counters for the bounds
    given,      \* the values users gave each name (history)
    writers,    \* the nodes that changed each name: by a user's call, or by
                \* asking the server for an entry it does not have (history)
    raced,      \* a message was replaced, refused or overtaken (history)
    displaced,  \* the connections whose pending queue at the server has merged a
                \* message into the place of another entry's (history)
    stale       \* a message outlived the connection it was made for, or took the
                \* place of another entry's (history)

linkVars == <<state, pend, wire, prepared, incoming, stopped>>
historyVars == <<calls, drops, restarts, given, writers, raced, displaced, stale>>
syncVars == <<storageVars, linkVars, historyVars>>

Ends == {"srv", "cli"}
Server == CHOOSE s \in Servers : TRUE
NodeAt(c, end) == IF end = "srv" THEN Server ELSE c
EndOf(n) == IF n = Server THEN "srv" ELSE "cli"
Other(end) == IF end = "srv" THEN "cli" ELSE "srv"
ConnsOf(n) == IF n = Server THEN Conns ELSE {n}
-----------------------------------------------------------------------------
(* Users *)

Changed(n, names) ==
    writers' = [name \in Names |-> writers[name] \cup (IF name \in names THEN {n} ELSE {})]

Give(n, name, value) ==
    /\ given' = [given EXCEPT ![name] = @ \cup {value}]
    /\ Changed(n, {name})

Call(n, u) ==
    /\ calls < MaxCalls
    /\ calls' = calls + 1
    /\ \/ \E name \in Names, value \in Values :
             /\ "SetEntryValue" \in Calls
             /\ SetEntryValue(n, u, name, value)
             /\ Give(n, name, value)
       \/ \E name \in Names, value \in Values :
             /\ "SetEntryTypeValue" \in Calls
             /\ SetEntryTypeValue(n, u, name, value)
             /\ Give(n, name, value)
       \/ \E name \in Names, flags \in BOOLEAN :
             /\ "SetEntryFlags" \in Calls
             /\ SetEntryFlags(n, u, name, flags)
             /\ Changed(n, {name}) /\ UNCHANGED given
       \/ \E name \in Names :
             /\ "DeleteEntry" \in Calls
             /\ DeleteEntry(n, u, name)
             /\ Changed(n, {name}) /\ UNCHANGED given
       \/ /\ "DeleteAllEntries" \in Calls
          /\ DeleteAllEntries(n, u)
          /\ Changed(n, Names) /\ UNCHANGED given
    /\ UNCHANGED <<linkVars, drops, restarts, raced, displaced, stale>>
-----------------------------------------------------------------------------
(* DispatcherBase.QueueOutgoing, with m_userMutex held throughout, passes   *)
(* one message to the connections that have or get the initial assignments. *)

\* Targets, had it left out the connections still in their handshake
TargetsActive(n, except) ==
    {c \in ConnsOf(n) \ {except} : state[c][EndOf(n)] = "Active"}

Targets(n, except) ==
    {c \in ConnsOf(n) \ {except} : state[c][EndOf(n)] \in {"Synchronized", "Active"}}

Overwrites(q, msg) ==
    Meets(q, msg) \/ (msg.type = "FlagsUpdate" /\ q.update[msg.id].second # 0)

\* Only values have sequence numbers: flags that another thread has changed too, and what
\* two users pass on at once, updates apart, may be passed on in the other order
Overtakes(n, t, msg) ==
    \E u \in Threads \ {t} : \E i \in DOMAIN hand[n][u] :
        LET other == hand[n][u][i].msg
            types == {msg.type, other.type}
        IN
        \/ types = {"FlagsUpdate"} /\ other.id = msg.id
        \/ {t, u} \subseteq Users /\ types # {"EntryUpdate"}

\* the message is merged over one that is pending for another entry, which is the
\* next: the stored positions count from 1, and are used as indexes from 0
Displaces(q, msg) ==
    /\ Meets(q, msg) /\ MergeIndex(q, msg.id) \in DOMAIN q.list
    /\ LET old == q.list[MergeIndex(q, msg.id)] IN old.type # "Unknown" /\ old.id # msg.id

\* what the server's message displaces in the queues that get it
Displacing(n, msg, conns) ==
    LET hit == {c \in conns : n = Server /\ Displaces(pend[c].srv, msg)} IN
    /\ displaced' = displaced \cup hit
    /\ stale' = (stale \/ hit # {})

QueueToAll(n, t) ==
    LET out == Head(hand[n][t])
        end == EndOf(n)
        targets == Targets(n, out.except)
        queued(c) == QueueOutgoing(pend[c][end], out.msg)
    IN
    /\ HandOver(n, t)
    /\ \A c \in targets : ~ queued(c).fault
    /\ pend' = [c \in Conns |->
                  IF c \in targets THEN [pend[c] EXCEPT ![end] = queued(c)] ELSE pend[c]]
    /\ raced' = (raced \/ Overtakes(n, t, out.msg)
                        \/ \E c \in targets : Overwrites(pend[c][end], out.msg))
    /\ Displacing(n, out.msg, targets)
    /\ UNCHANGED <<state, wire, prepared, incoming, stopped, calls, drops, restarts, given, writers>>

\* A connection refuses the message with an exception: those after it in
\* m_connections do not get it, a user's call ends with the exception, and a
\* reader ends for good.  The order of m_connections is any order.
Refused(n, t) ==
    LET out == Head(hand[n][t])
        end == EndOf(n)
        targets == Targets(n, out.except)
        queued(c) == QueueOutgoing(pend[c][end], out.msg)
        faulty == {c \in targets : queued(c).fault}
    IN
    /\ hand[n][t] # <<>>
    /\ \E first \in faulty, before \in SUBSET (targets \ faulty) :
          LET got == before \cup {first} IN
          /\ pend' = [c \in Conns |->
                        IF c \in got
                        THEN [pend[c] EXCEPT ![end] = [queued(c) EXCEPT !.fault = FALSE]]
                        ELSE pend[c]]
          /\ raced' = (raced \/ t \in Conns \/ got # targets \/ Overtakes(n, t, out.msg)
                              \/ \E c \in targets : Overwrites(pend[c][end], out.msg))
          /\ Displacing(n, out.msg, got)
    /\ hand' = [hand EXCEPT ![n][t] = <<>>]
    /\ IF t \in Conns
       THEN /\ stopped' = [stopped EXCEPT ![t] = @ \cup {end}]
            /\ resume' = [resume EXCEPT ![n][t] = Nothing]
            /\ incoming' = IF n = Server THEN [incoming EXCEPT ![t] = <<>>] ELSE incoming
            /\ heap' = [heap EXCEPT ![n] =
                  [o \in Objs |-> IF o \in Referenced(ents[n], idMap[n]) THEN @[o] ELSE FreeEntry]]
       ELSE UNCHANGED <<stopped, resume, incoming, heap>>
    /\ UNCHANGED <<role, ents, idMap, idCount, dirty, saved, view, state, wire, prepared,
                   calls, drops, restarts, given, writers>>
-----------------------------------------------------------------------------
(* Streams *)

Ascending(S) ==
    {f \in [1 .. Cardinality(S) -> S] : \A i, j \in 1 .. Cardinality(S) : i < j => f[i] < f[j]}

\* where the messages of a list are that are written: one that was blanked is
\* written as nothing
Written(list) == {i \in DOMAIN list : list[i].type # "Unknown"}

Post(c, end) ==
    /\ pend[c][end].list # <<>>
    /\ pend' = [pend EXCEPT ![c][end] = EmptyQueue]
    /\ \E order \in Ascending(Written(pend[c][end].list)) :
          wire' = [wire EXCEPT ![c][Other(end)] =
                      @ \o [i \in DOMAIN order |-> pend[c][end].list[order[i]]]]
    /\ UNCHANGED <<storageVars, state, prepared, incoming, stopped, historyVars>>

\* PostOutgoing, had it not waited for the handshake to end
PostEarly(c, end) == state[c][end] \in {"Synchronized", "Active"} /\ Post(c, end)

\* the dispatch thread posts what is pending, and the write thread writes it
PostOutgoing(c, end) == state[c][end] = "Active" /\ Post(c, end)

\* the loop of ReadThreadMain
Receive(c, end) ==
    /\ state[c][end] = "Active" /\ end \notin stopped[c]
    /\ wire[c][end] # <<>>
    /\ ProcessIncoming(NodeAt(c, end), c, Head(wire[c][end]), TRUE)
    /\ wire' = [wire EXCEPT ![c][end] = Tail(@)]
    /\ UNCHANGED <<state, pend, prepared, incoming, stopped, historyVars>>

Resume(c) == BindResumed(c, c) /\ UNCHANGED <<linkVars, historyVars>>

\* the part of a stream that ends with the first HelloDone, and its length
BatchLength(msgs) == SelectInSeq(msgs, LAMBDA msg : msg.type = "HelloDone")
-----------------------------------------------------------------------------
(* The handshake *)

\* A client connects, and GetInitialAssignments lists the entries the server
\* has; the readers of the client's last connection have ended by then.
Accept(c) ==
    LET table == InitialAssignments(Server)
        order == SetToSeq(DOMAIN table)
    IN
    /\ state[c] = [srv |-> "Dead", cli |-> "Dead"]
    /\ Free(Server, c) /\ Free(c, c) /\ incoming[c] = <<>>
    /\ state' = [state EXCEPT ![c] = [srv |-> "Synchronized", cli |-> "Handshake"]]
    /\ prepared' = [prepared EXCEPT ![c].srv =
                        Append([i \in DOMAIN order |-> table[order[i]]], HelloDone)]
    /\ stopped' = [stopped EXCEPT ![c] = {}]
    /\ UNCHANGED <<storageVars, pend, wire, incoming, historyVars>>

\* ClientHandshake: ServerHello carries no flags, so the server is always taken
\* for a new one
ClientHandshake(c) ==
    LET done == BatchLength(wire[c].cli)
        batch == SubSeq(wire[c].cli, 1, done - 1)
        table == [name \in {batch[i].str : i \in DOMAIN batch} |->
                    batch[SelectInSeq(batch, LAMBDA msg : msg.str = name)]]
        unsent == Unsent(c, table)
    IN
    /\ state[c].cli = "Handshake"
    /\ done # 0
    /\ ApplyInitialAssignments(c, c, table, TRUE, TRUE)
    /\ wire' = [wire EXCEPT ![c].cli = SubSeq(@, done + 1, Len(@))]
    /\ \E order \in SetToSeqs(unsent) :
          prepared' = [prepared EXCEPT ![c].cli = Append(order, HelloDone)]
    /\ state' = [state EXCEPT ![c].cli = "Synchronized"]
    /\ stale' = (stale \/ \E u \in Users : hand[c][u] # <<>>)
    /\ Changed(c, {msg.str : msg \in unsent})
    /\ UNCHANGED <<pend, incoming, stopped, calls, drops, restarts, given, raced, displaced>>

\* the handshake sends what it has prepared; the client's is over with that
SendPrepared(c, end) ==
    /\ prepared[c][end] # <<>>
    /\ wire' = [wire EXCEPT ![c][Other(end)] = @ \o prepared[c][end]]
    /\ prepared' = [prepared EXCEPT ![c][end] = <<>>]
    /\ state' = IF end = "cli" THEN [state EXCEPT ![c].cli = "Active"] ELSE state
    /\ UNCHANGED <<storageVars, pend, incoming, stopped, historyVars>>

\* ServerHandshake waits for the client's HelloDone before it processes anything
ServerHandshake(c) ==
    LET done == BatchLength(wire[c].srv) IN
    /\ state[c].srv = "Synchronized" /\ incoming[c] = <<>> /\ "srv" \notin stopped[c]
    /\ done # 0
    /\ incoming' = [incoming EXCEPT ![c] = SubSeq(wire[c].srv, 1, done)]
    /\ wire' = [wire EXCEPT ![c].srv = SubSeq(@, done + 1, Len(@))]
    /\ UNCHANGED <<storageVars, state, pend, prepared, stopped, historyVars>>

\* and then processes it all, whether or not the connection is still there
ProcessInitial(c) ==
    /\ incoming[c] # <<>>
    /\ ProcessIncoming(Server, c, Head(incoming[c]), TRUE)
    /\ incoming' = [incoming EXCEPT ![c] = Tail(@)]
    /\ state' = IF Head(incoming[c]) = HelloDone /\ state[c].srv # "Dead"
                THEN [state EXCEPT ![c].srv = "Active"] ELSE state
    /\ UNCHANGED <<pend, wire, prepared, stopped, historyVars>>
-----------------------------------------------------------------------------
(* Failures *)

Gone(c) ==
    /\ state' = [state EXCEPT ![c] = [srv |-> "Dead", cli |-> "Dead"]]
    /\ pend' = [pend EXCEPT ![c] = [srv |-> EmptyQueue, cli |-> EmptyQueue]]
    /\ wire' = [wire EXCEPT ![c] = [srv |-> <<>>, cli |-> <<>>]]
    /\ prepared' = [prepared EXCEPT ![c] = [srv |-> <<>>, cli |-> <<>>]]
    /\ stopped' = [stopped EXCEPT ![c] = {}]
    /\ displaced' = displaced \ {c}

\* The stream breaks: what is pending or on its way is lost.
Drop(c) ==
    /\ drops < MaxDrops
    /\ state[c] # [srv |-> "Dead", cli |-> "Dead"]
    /\ Gone(c)
    /\ drops' = drops + 1
    /\ UNCHANGED <<storageVars, incoming, calls, restarts, given, writers, raced, stale>>

\* The server crashes and starts again, with nothing to load.
Restart ==
    LET s == Server IN
    /\ restarts < MaxRestarts
    /\ restarts' = restarts + 1
    /\ heap' = [heap EXCEPT ![s] = [o \in Objs |-> FreeEntry]]
    /\ ents' = [ents EXCEPT ![s] = [name \in Names |-> Nil]]
    /\ idMap' = [idMap EXCEPT ![s] = [id \in Ids |-> Nil]]
    /\ idCount' = [idCount EXCEPT ![s] = 0]
    /\ dirty' = [dirty EXCEPT ![s] = FALSE]
    /\ saved' = [saved EXCEPT ![s] = [name \in Names |-> Nil]]
    /\ view' = [view EXCEPT ![s] = [name \in Names |-> Nil]]
    /\ hand' = [hand EXCEPT ![s] = [t \in Threads |-> <<>>]]
    /\ state' = [c \in Conns |-> [srv |-> "Dead", cli |-> "Dead"]]
    /\ pend' = [c \in Conns |-> [srv |-> EmptyQueue, cli |-> EmptyQueue]]
    /\ wire' = [c \in Conns |-> [srv |-> <<>>, cli |-> <<>>]]
    /\ prepared' = [c \in Conns |-> [srv |-> <<>>, cli |-> <<>>]]
    /\ incoming' = [c \in Conns |-> <<>>]
    /\ stopped' = [c \in Conns |-> {}]
    /\ displaced' = {}
    /\ UNCHANGED <<role, resume, calls, drops, given, writers, raced, stale>>
-----------------------------------------------------------------------------
SyncInit ==
    /\ EmptyTables
    /\ role = [n \in Nodes |-> IF n = Server THEN "server" ELSE "client"]
    /\ state = [c \in Conns |-> [srv |-> "Dead", cli |-> "Dead"]]
    /\ pend = [c \in Conns |-> [srv |-> EmptyQueue, cli |-> EmptyQueue]]
    /\ wire = [c \in Conns |-> [srv |-> <<>>, cli |-> <<>>]]
    /\ prepared = [c \in Conns |-> [srv |-> <<>>, cli |-> <<>>]]
    /\ incoming = [c \in Conns |-> <<>>]
    /\ stopped = [c \in Conns |-> {}]
    /\ calls = 0 /\ drops = 0 /\ restarts = 0
    /\ given = [name \in Names |-> {}]
    /\ writers = [name \in Names |-> {}]
    /\ raced = FALSE /\ displaced = {} /\ stale = FALSE

SyncNext ==
    \/ \E n \in Nodes, u \in Users : Call(n, u)
    \/ \E n \in Nodes, t \in Threads : QueueToAll(n, t) \/ Refused(n, t)
    \/ \E c \in Conns, end \in Ends : PostOutgoing(c, end) \/ Receive(c, end) \/ SendPrepared(c, end)
    \/ \E c \in Conns :
          \/ Resume(c)
          \/ Accept(c)
          \/ ClientHandshake(c)
          \/ ServerHandshake(c)
          \/ ProcessInitial(c)
          \/ Drop(c)
    \/ Restart

SyncSpec == SyncInit /\ [][SyncNext]_syncVars
-----------------------------------------------------------------------------
SyncTypeOK ==
    /\ TypeOK
    /\ state \in [Conns -> [Ends -> {"Dead", "Handshake", "Synchronized", "Active"}]]
    /\ wire \in [Conns -> [Ends -> Seq(Message)]]
    /\ prepared \in [Conns -> [Ends -> Seq(Message)]]
    /\ incoming \in [Conns -> Seq(Message)]
    /\ stopped \in [Conns -> SUBSET Ends] /\ displaced \in SUBSET Conns
    /\ \A c \in Conns, end \in Ends :
          /\ pend[c][end].list \in Seq(Message)
          /\ pend[c][end].update \in [Ids -> [first : Nat, second : Nat]]

\* While a connection is up, an id that both of its ends have an entry for is
\* the id of the same entry at both: messages carry ids alone, and each node has
\* given, taken and dropped ids by itself.  A message merged into the place of
\* another entry's is the exception: the next merge there may give the one's name to
\* the other's id, until the client connects again.
IdAgreement ==
    \A c \in Conns \ displaced, id \in Ids :
        state[c].cli \in {"Synchronized", "Active"} /\ Lookup(c, id) # Nil /\ Lookup(Server, id) # Nil =>
            heap[c][Lookup(c, id)].name = heap[Server][Lookup(Server, id)].name

\* Whatever is lost, blanked, replaced or received late, a name only ever has a
\* value that a user gave to that name.  The known exceptions are a call that outlives
\* a connection, its message made with the ids of the last one, and an id that got the
\* wrong name.
NoCrossTalk ==
    ~ stale =>
        \A n \in Nodes, name \in Names :
            Exists(n, name) => EntryOf(n, name).val \in given[name]

\* the end's reader has not read a HelloDone yet
Waiting(c, end) ==
    /\ state[c][end] = IF end = "srv" THEN "Synchronized" ELSE "Handshake"
    /\ end \notin stopped[c]
    /\ end = "srv" => incoming[c] = <<>>

\* An end that is in its handshake reads nothing but assignments up to the
\* HelloDone: anything else makes it hang up ("received message other than entry
\* assignment during initial handshake").
HandshakeUndisturbed ==
    \A c \in Conns, end \in Ends :
        Waiting(c, end) =>
            LET done == BatchLength(wire[c][end])
                before == IF done = 0 THEN Len(wire[c][end]) ELSE done - 1
            IN \A i \in 1 .. before : wire[c][end][i].type = "EntryAssign"

Quiet ==
    /\ \A n \in Nodes, t \in Threads : hand[n][t] = <<>>
    /\ \A c \in Conns :
          /\ resume[c][c] = Nothing /\ incoming[c] = <<>> /\ stopped[c] = {}
          /\ \A end \in Ends : /\ state[c][end] = "Active"
                               /\ pend[c][end].list = <<>> /\ wire[c][end] = <<>>

Same(c, name) ==
    /\ Exists(c, name) <=> Exists(Server, name)
    /\ Exists(c, name) =>
          /\ EntryOf(c, name).val = EntryOf(Server, name).val
          /\ EntryOf(c, name).flags = EntryOf(Server, name).flags

\* When every message has been taken, the nodes have the same table, in spite of
\* merges, echoes, ids assigned late and messages passed on after the monitor is
\* released; for the names that only one node changes, and if no queue had two
\* messages of the same entry to merge and no thread's message overtook another's.
Convergence ==
    Quiet /\ ~ raced /\ ~ stale =>
        \A name \in Names :
            Cardinality(writers[name]) <= 1 => \A c \in Conns : Same(c, name)
=============================================================================
