------------------------------- MODULE Dispatcher -------------------------------
(***************************************************************************)
(* The dispatcher (DispatcherBase.cs) and its acceptor (TcpAcceptor.cs):   *)
(* the user's Start and Stop, the dispatch thread, the server's or the     *)
(* client's thread, and of each connection the two threads that they join, *)
(* which NetworkConnection has in detail.                                  *)
(*                                                                         *)
(* Unlike the native library's (NativeDispatcher), this client's thread    *)
(* disconnects its old connection, and waits for its threads, with         *)
(* m_userMutex held, and a join throws the exception of the thread joined. *)
(* What else holds m_userMutex is one step, taken when it is free.         *)
(* Failures, and servers that refuse a revision, come at any moment, up to *)
(* MaxLosses of them.  The two starts' roles are the same, and the user's  *)
(* calls are made by one thread.  Saving, the messages and the period are  *)
(* left out.                                                               *)
(***************************************************************************)
EXTENDS Integers, Sequences, Functions

CONSTANTS
    Roles,    \* those of TRUE, a server, and FALSE, a client, that are started
    MaxStarts, MaxLosses,    \* bounds,
    MaxStreams, MaxAccepts   \* of streams made by a client and by a server

ASSUME DispatcherAssumption ==
    /\ Roles \subseteq BOOLEAN /\ {MaxStarts, MaxLosses, MaxStreams, MaxAccepts} \subseteq Nat
    /\ MaxAccepts <= MaxStreams

VARIABLES
    server,        \* the dispatcher's m_server, which every start sets to the same
    active,        \* m_active
    user,          \* where the user's Stop is
    dispatchers,   \* every dispatch thread there was; m_dispatchThread is the last
    main,          \* where m_clientServerThread is
    mutex,         \* m_userMutex: "free", or held by the client's thread across a join
    acceptor,      \* the acceptor of the last StartServer
    connector, override,    \* m_clientConnectors is not empty, the override is set
    reconnect, protoRev, signal,   \* m_doReconnect, m_reconnectProtoRev, m_reconnectCv
    connections,   \* m_connections
    closing,       \* the connections that Stop took and has not disposed of
    conns,         \* every connection made, by number
    losses,        \* failures so far
    refusal,       \* the last connection was refused for its revision (history)
    abandoned      \* connections that an exception kept a Stop from disposing of (history)

userVars == <<user, closing, abandoned>>
connectorVars == <<connector, override>>
retryVars == <<reconnect, protoRev, signal, refusal>>
vars == <<server, active, userVars, dispatchers, main, mutex, acceptor, connectorVars, retryVars,
          connections, conns, losses>>

Listed == Range(connections)

TypeOK ==
    /\ server \in Roles /\ active \in BOOLEAN /\ signal \in BOOLEAN /\ refusal \in BOOLEAN
    /\ user \in {"idle", "clear", "reconnect", "shutdown", "shutting", "dispatch", "main",
                 "swap", "close", "join"}
    /\ dispatchers \in Seq({"run", "done"}) /\ Len(dispatchers) <= MaxStarts
    /\ main \in {"none", "start", "loop", "accept", "blocked", "add", "connect", "install",
                 "dispose", "join", "wait", "done", "faulted"}
    /\ mutex \in {"free", "held"}
    /\ acceptor \in [shutdown : BOOLEAN, listening : BOOLEAN, open : BOOLEAN]
    /\ connector \in BOOLEAN /\ override \in BOOLEAN /\ reconnect \in BOOLEAN
    /\ protoRev \in {2, 3} /\ losses \in 0 .. MaxLosses
    /\ conns \in Seq([state : {"handshake", "active", "dead"}, rev : {2, 3}, open : BOOLEAN,
                      told : BOOLEAN, writer : {"run", "ended"},
                      reader : {"handshake", "refused", "failing", "reading", "queueing",
                                "ended", "faulted"}])
    /\ Len(conns) <= MaxStreams
    /\ connections \in Seq(DOMAIN conns) /\ closing \in Seq(DOMAIN conns)
    /\ abandoned \subseteq DOMAIN conns

NoAcceptor == [shutdown |-> FALSE, listening |-> FALSE, open |-> FALSE]

Init ==
    /\ server \in Roles
    /\ active = FALSE /\ user = "idle" /\ dispatchers = <<>> /\ main = "none" /\ mutex = "free"
    /\ acceptor = NoAcceptor /\ connector = FALSE /\ override = FALSE
    /\ reconnect = TRUE /\ protoRev = 3 /\ signal = FALSE
    /\ connections = <<>> /\ closing = <<>> /\ conns = <<>> /\ losses = 0
    /\ refusal = FALSE /\ abandoned = {}

Fails == losses < MaxLosses /\ losses' = losses + 1
-----------------------------------------------------------------------------
(* The user's thread. *)

\* StartServer and StartClient; the user may have stopped, or the server failed
Start ==
    /\ user = "idle" /\ ~ active /\ mutex = "free" /\ Len(dispatchers) < MaxStarts
    /\ active' = TRUE
    /\ acceptor' = NoAcceptor
    /\ dispatchers' = Append(dispatchers, "run")
    /\ main' = IF server THEN "start" ELSE "loop"
    /\ UNCHANGED <<server, userVars, mutex, connectorVars, retryVars, connections, conns, losses>>

\* only a client's thread reads what they set
SetConnector(set, over) ==
    /\ ~ server /\ mutex = "free"
    /\ connector' = (connector \/ set) /\ override' = over
    /\ UNCHANGED <<server, active, userVars, dispatchers, main, mutex, acceptor, retryVars,
                   connections, conns, losses>>

Stop ==
    /\ user = "idle" /\ dispatchers # <<>>
    /\ active' = FALSE /\ user' = "clear"
    /\ UNCHANGED <<server, closing, abandoned, dispatchers, main, mutex, acceptor, connectorVars,
                   retryVars, connections, conns, losses>>

StopUnchanged == UNCHANGED <<server, active, dispatchers, main, mutex, override, losses>>

StopClears ==
    /\ user = "clear" /\ mutex = "free"
    /\ connector' = FALSE /\ user' = "reconnect"
    /\ StopUnchanged /\ UNCHANGED <<closing, abandoned, acceptor, retryVars, connections, conns>>

\* ClientReconnect, whatever the revision
ClientReconnectPlain(rev) ==
    IF server THEN UNCHANGED <<reconnect, protoRev, signal>>
    ELSE reconnect' = TRUE /\ protoRev' = 3 /\ signal' = TRUE

ClientReconnect(rev) ==
    IF server THEN UNCHANGED <<reconnect, protoRev, signal>>
    ELSE reconnect' = TRUE /\ protoRev' = rev /\ signal' = TRUE

\* StopReconnects, without ClientReconnect
StopSkipsReconnect ==
    /\ user = "reconnect"
    /\ refusal' = FALSE /\ user' = "shutdown"
    /\ StopUnchanged
    /\ UNCHANGED <<closing, abandoned, acceptor, connector, reconnect, protoRev, signal, connections, conns>>

StopReconnects ==
    /\ user = "reconnect" /\ mutex = "free"
    /\ ClientReconnect(3)
    /\ refusal' = FALSE /\ user' = "shutdown"
    /\ StopUnchanged /\ UNCHANGED <<closing, abandoned, acceptor, connector, connections, conns>>

\* Shutdown: m_shutdown, and a connection to itself that wakes Accept ...
StopShuts ==
    /\ user = "shutdown"
    /\ acceptor' = [acceptor EXCEPT !.shutdown = server]
    /\ user' = "shutting"
    /\ StopUnchanged /\ UNCHANGED <<closing, abandoned, connector, retryVars, connections, conns>>

\* ... and m_server is stopped and null
StopShut ==
    /\ user = "shutting"
    /\ acceptor' = [acceptor EXCEPT !.listening = FALSE, !.open = FALSE]
    /\ user' = "dispatch"
    /\ StopUnchanged /\ UNCHANGED <<closing, abandoned, connector, retryVars, connections, conns>>

Unchanged4 == UNCHANGED <<acceptor, connector, retryVars>>

StopJoinsDispatch ==
    /\ user = "dispatch" /\ dispatchers[Len(dispatchers)] = "done"
    /\ user' = "main"
    /\ StopUnchanged /\ Unchanged4 /\ UNCHANGED <<closing, abandoned, connections, conns>>

\* the exception of m_clientServerThread ends the Stop
StopJoinsMain ==
    /\ user = "main" /\ main \in {"none", "done", "faulted"}
    /\ user' = IF main = "faulted" THEN "idle" ELSE "swap"
    /\ StopUnchanged /\ Unchanged4 /\ UNCHANGED <<closing, abandoned, connections, conns>>

StopSwaps ==
    /\ user = "swap" /\ mutex = "free"
    /\ closing' = connections /\ connections' = <<>>
    /\ user' = "close"
    /\ StopUnchanged /\ Unchanged4 /\ UNCHANGED <<abandoned, conns>>

\* NetworkConnection.Stop, up to the joins
Disposed(c) == [conns EXCEPT ![c].state = "dead", ![c].open = FALSE, ![c].told = TRUE]
Joinable(c) == conns[c].writer = "ended" /\ conns[c].reader \in {"ended", "faulted"}

StopDisposes ==
    /\ user = "close"
    /\ IF closing = <<>> THEN user' = "idle" /\ UNCHANGED conns
                         ELSE user' = "join" /\ conns' = Disposed(Head(closing))
    /\ StopUnchanged /\ Unchanged4 /\ UNCHANGED <<closing, abandoned, connections>>

\* the exception of a reader ends the foreach
StopJoinsConnection ==
    /\ user = "join" /\ Joinable(Head(closing))
    /\ LET throws == conns[Head(closing)].reader = "faulted"
       IN /\ user' = IF throws THEN "idle" ELSE "close"
          /\ closing' = IF throws THEN <<>> ELSE Tail(closing)
          /\ abandoned' = IF throws THEN abandoned \cup Range(Tail(closing)) ELSE abandoned
    /\ StopUnchanged /\ Unchanged4 /\ UNCHANGED <<connections, conns>>
-----------------------------------------------------------------------------
(* DispatchThreadMain. *)

Dead(c) == conns[c].state = "dead"

\* DispatchRuns, looking at the first connection only while it is up
DispatchSetsFlag(d) ==
    /\ dispatchers[d] = "run" /\ mutex = "free"
    /\ IF ~ active
       THEN dispatchers' = [dispatchers EXCEPT ![d] = "done"] /\ UNCHANGED reconnect
       ELSE /\ ~ server /\ ~ reconnect /\ \E c \in Listed : Dead(c)
            /\ reconnect' = TRUE
            /\ UNCHANGED dispatchers
    /\ UNCHANGED <<server, active, userVars, main, mutex, acceptor, connectorVars, protoRev,
                   signal, refusal, connections, conns, losses>>

DispatchRuns(d) ==
    /\ dispatchers[d] = "run"
    /\ IF ~ active
       THEN dispatchers' = [dispatchers EXCEPT ![d] = "done"] /\ UNCHANGED <<reconnect, signal>>
       ELSE /\ mutex = "free"
            /\ ~ server /\ ~ reconnect /\ \E c \in Listed : Dead(c)
            /\ reconnect' = TRUE /\ signal' = TRUE
            /\ UNCHANGED dispatchers
    /\ UNCHANGED <<server, active, userVars, main, mutex, acceptor, connectorVars, protoRev,
                   refusal, connections, conns, losses>>
-----------------------------------------------------------------------------
(* ServerThreadMain and the acceptor. *)

ServerUnchanged ==
    UNCHANGED <<server, userVars, dispatchers, mutex, connectorVars, retryVars>>

\* m_serverAccepter.Start
ServerStarts ==
    /\ main = "start"
    /\ \/ /\ acceptor' = [acceptor EXCEPT !.listening = TRUE, !.open = TRUE]
          /\ main' = "loop" /\ UNCHANGED <<active, losses>>
       \/ /\ Fails /\ main' = "done" /\ active' = FALSE /\ UNCHANGED acceptor
    /\ ServerUnchanged /\ UNCHANGED <<connections, conns>>

\* a null stream ends the server's thread
NoStream == main' = "done" /\ active' = FALSE

\* Accept's first line
ServerLoops ==
    /\ main = "loop" /\ server
    /\ CASE ~ active -> main' = "done" /\ UNCHANGED active
         [] active /\ (~ acceptor.listening \/ acceptor.shutdown) -> NoStream
         [] OTHER -> main' = "accept" /\ UNCHANGED active
    /\ ServerUnchanged /\ UNCHANGED <<acceptor, connections, conns, losses>>

\* m_server.Accept, when m_server may be null by now
AcceptCalls ==
    /\ main = "accept"
    /\ main' = IF acceptor.open THEN "blocked" ELSE "faulted"
    /\ ServerUnchanged /\ UNCHANGED <<active, acceptor, connections, conns, losses>>

AcceptReturns ==
    /\ main = "blocked"
    /\ \/ /\ ~ acceptor.shutdown /\ Len(conns) < MaxAccepts
          /\ main' = IF active THEN "add" ELSE "done"
          /\ UNCHANGED <<active, losses>>
       \/ acceptor.shutdown /\ NoStream /\ UNCHANGED losses
       \/ Fails /\ NoStream
    /\ ServerUnchanged /\ UNCHANGED <<acceptor, connections, conns>>

NewConnection(rev) ==
    conns' = Append(conns, [state |-> "handshake", rev |-> rev, open |-> TRUE, told |-> FALSE,
                            writer |-> "run", reader |-> "handshake"])

\* AddConnection, over the first connection
AddOverFirst ==
    /\ main = "add"
    /\ NewConnection(3)
    /\ IF connections = <<>> THEN connections' = <<Len(conns')>>
       ELSE connections' = [connections EXCEPT ![1] = Len(conns')]
    /\ main' = "loop"
    /\ ServerUnchanged /\ UNCHANGED <<active, acceptor, losses>>

\* the first dead connection's place is taken, and it is not disposed of
AddConnection ==
    /\ main = "add"
    /\ NewConnection(3)
    /\ LET dead == {i \in DOMAIN connections : Dead(connections[i])}
       IN IF dead = {}
          THEN connections' = Append(connections, Len(conns'))
          ELSE \E i \in dead :
                 /\ \A j \in dead : i <= j
                 /\ connections' = [connections EXCEPT ![i] = Len(conns')]
    /\ main' = "loop"
    /\ ServerUnchanged /\ UNCHANGED <<active, acceptor, losses>>
-----------------------------------------------------------------------------
(* ClientThreadMain. *)

ClientUnchanged == UNCHANGED <<server, active, userVars, dispatchers, acceptor, connectorVars>>

\* the sleep and the choice of a connector
ClientLoops ==
    /\ main = "loop" /\ ~ server /\ mutex = "free"
    /\ IF active THEN (connector \/ override) /\ main' = "connect" ELSE main' = "done"
    /\ ClientUnchanged /\ UNCHANGED <<mutex, retryVars, connections, conns, losses>>

\* with the bound on streams used up, connecting fails
Connect ==
    /\ main = "connect"
    /\ \/ Len(conns) < MaxStreams /\ main' = "install" /\ UNCHANGED losses
       \/ Fails /\ main' = "loop"
       \/ Len(conns) = MaxStreams /\ main' = "loop" /\ UNCHANGED losses
    /\ ClientUnchanged /\ UNCHANGED <<mutex, retryVars, connections, conns>>

Disconnect ==
    /\ main = "install" /\ mutex = "free"
    /\ mutex' = "held"
    /\ main' = IF connections = <<>> THEN "dispose" ELSE "join"
    /\ conns' = IF connections = <<>> THEN conns ELSE Disposed(connections[1])
    /\ ClientUnchanged /\ UNCHANGED <<retryVars, connections, losses>>

\* the exception of the old reader ends the client's thread
DisconnectJoins ==
    /\ main = "join" /\ Joinable(connections[1])
    /\ IF conns[connections[1]].reader = "faulted"
       THEN main' = "faulted" /\ mutex' = "free"
       ELSE main' = "dispose" /\ UNCHANGED mutex
    /\ ClientUnchanged /\ UNCHANGED <<retryVars, connections, conns, losses>>

\* up to the wait, which first tests its predicate
Install ==
    /\ main = "dispose"
    /\ NewConnection(protoRev)
    /\ connections' = <<Len(conns')>>
    /\ protoRev' = 3 /\ reconnect' = FALSE /\ refusal' = FALSE
    /\ mutex' = "free"
    /\ main' = IF active THEN "wait" ELSE "loop"
    /\ ClientUnchanged /\ UNCHANGED <<signal, losses>>

\* WaitOne, and the predicate again
ClientWakes ==
    /\ main = "wait" /\ signal /\ mutex = "free"
    /\ signal' = FALSE
    /\ main' = IF ~ active \/ reconnect THEN "loop" ELSE "wait"
    /\ ClientUnchanged /\ UNCHANGED <<mutex, reconnect, protoRev, refusal, connections, conns, losses>>
-----------------------------------------------------------------------------
(* A connection's threads. *)

ConnUnchanged ==
    UNCHANGED <<server, active, userVars, dispatchers, main, mutex, acceptor, connectorVars,
                connections>>

Reader(c, place, state) ==
    conns' = [conns EXCEPT ![c].reader = place, ![c].state = IF @ = "dead" THEN @ ELSE state]

\* a handshake succeeds, is refused, or fails and leaves the writer as it is
Handshake(c) ==
    /\ conns[c].reader = "handshake"
    /\ \/ conns[c].open /\ Reader(c, "reading", "active") /\ UNCHANGED losses
       \/ conns[c].open /\ ~ server /\ conns[c].rev = 3
          /\ Fails /\ Reader(c, "refused", "handshake")
       \/ conns[c].open /\ Fails /\ Reader(c, "ended", "dead")
       \/ ~ conns[c].open /\ Reader(c, "ended", "dead") /\ UNCHANGED losses
    /\ ConnUnchanged /\ UNCHANGED retryVars

Refused(c) ==
    /\ conns[c].reader = "refused" /\ mutex = "free"
    /\ ClientReconnect(2) /\ refusal' = TRUE
    /\ Reader(c, "failing", "handshake")
    /\ ConnUnchanged /\ UNCHANGED losses

HandshakeFails(c) ==
    /\ conns[c].reader = "failing"
    /\ Reader(c, "ended", "dead")
    /\ ConnUnchanged /\ UNCHANGED <<retryVars, losses>>

\* a message that makes Storage queue another, or throws
Receive(c) ==
    /\ conns[c].reader = "reading" /\ conns[c].open
    /\ \/ Reader(c, "queueing", "active") /\ UNCHANGED losses
       \/ Fails /\ Reader(c, "faulted", "active")
    /\ ConnUnchanged /\ UNCHANGED retryVars

QueueOutgoing(c) ==
    /\ conns[c].reader = "queueing" /\ mutex = "free"
    /\ Reader(c, "reading", "active")
    /\ ConnUnchanged /\ UNCHANGED <<retryVars, losses>>

ReaderEnds(c) ==
    /\ conns[c].reader = "reading" /\ ~ conns[c].open
    /\ conns' = [conns EXCEPT ![c].reader = "ended", ![c].state = "dead", ![c].told = TRUE]
    /\ ConnUnchanged /\ UNCHANGED <<retryVars, losses>>

\* told to, because it cannot send, or at its next test of Active
WriterEnds(c) ==
    /\ conns[c].writer = "run" /\ (~ conns[c].open \/ conns[c].reader = "ended")
    /\ conns' = [conns EXCEPT ![c].writer = "ended", ![c].state = "dead", ![c].open = FALSE]
    /\ ConnUnchanged /\ UNCHANGED <<retryVars, losses>>

Lose(c) ==
    /\ conns[c].open /\ Fails
    /\ conns' = [conns EXCEPT ![c].open = FALSE]
    /\ ConnUnchanged /\ UNCHANGED retryVars
-----------------------------------------------------------------------------
StopSteps ==
    \/ StopClears \/ StopReconnects \/ StopShuts \/ StopShut \/ StopJoinsDispatch
    \/ StopJoinsMain \/ StopSwaps \/ StopDisposes \/ StopJoinsConnection
ServerThreadMain == ServerStarts \/ ServerLoops \/ AcceptCalls \/ AddConnection
ClientThreadMain ==
    \/ ClientLoops \/ Connect \/ Disconnect \/ DisconnectJoins \/ Install \/ ClientWakes

\* the keep-alives of an active client's connection show its writer that the stream is gone
Threads(c) ==
    \/ Handshake(c) \/ Refused(c) \/ HandshakeFails(c) \/ QueueOutgoing(c) \/ ReaderEnds(c)
    \/ (conns[c].told \/ (~ server /\ conns[c].state = "active")) /\ WriterEnds(c)

Next ==
    \/ Start \/ Stop \/ StopSteps
    \/ \E set, over \in BOOLEAN : SetConnector(set, over)
    \/ \E d \in DOMAIN dispatchers : DispatchRuns(d)
    \/ ServerThreadMain \/ AcceptReturns \/ ClientThreadMain
    \/ \E c \in DOMAIN conns : Threads(c) \/ WriterEnds(c) \/ Receive(c) \/ Lose(c)

Spec == Init /\ [][Next]_vars

\* Threads run, and get m_userMutex if it is free again and again; Accept alone may
\* block for ever, until it is shut down.
Fairness ==
    /\ SF_vars(StopSteps)
    /\ \A d \in 1 .. MaxStarts : SF_vars(d \in DOMAIN dispatchers /\ DispatchRuns(d))
    /\ WF_vars(ServerThreadMain) /\ WF_vars(acceptor.shutdown /\ AcceptReturns)
    /\ SF_vars(ClientThreadMain)
    /\ \A c \in 1 .. MaxStreams : SF_vars(c \in DOMAIN conns /\ Threads(c))

FairSpec == Spec /\ Fairness
-----------------------------------------------------------------------------
\* The client's thread holds m_userMutex and joins a reader that waits for it
\* (DispatcherBase.cs:430-439 and 646).
Stuck == main = "join" /\ conns[connections[1]].reader \in {"queueing", "refused"}

\* A connection that is not dead is in m_connections, or Stop is about to close it,
\* whatever places are reused (381-392); unless a Stop was ended by an exception.
LiveListed ==
    \A c \in DOMAIN conns : conns[c].state # "dead" =>
        c \in Listed \cup Range(closing) \cup abandoned

\* The threads that start connections end by themselves only for these causes: the
\* exception of the old connection's reader ends the client's (438), a Shutdown that
\* finds Accept past its test ends the server's (TcpAcceptor.cs:88, 99-101).
MainFaultHasCause ==
    main = "faulted" =>
        IF server THEN acceptor.shutdown
                    ELSE \E c \in Listed : conns[c].reader = "faulted"

\* No connection that lives is out of every list, and no thread that starts connections is
\* gone for another cause.
NothingLost == LiveListed /\ MainFaultHasCause

\* After a server has refused revision 3 the next connection offers revision 2,
\* whatever woke the client's thread (445-453, 483).
RefusalIsHeeded ==
    [][Install /\ refusal => conns'[Len(conns')].rev = 2]_vars

\* Stop returns, or throws, unless the client's thread is stuck.
StopReturns == user = "clear" ~> user = "idle" \/ Stuck

\* A running client that has a connector ends up connected, however its connections
\* failed, unless it is stuck or its thread was ended by a reader's exception.  A
\* reader that threw leaves its connection active, and nobody reads it.
ClientConnects ==
    <>[](active /\ ~ server /\ (connector \/ override) /\ Len(conns) < MaxStreams)
        => <>[]((\E c \in Listed : conns[c].state = "active" /\ conns[c].open) \/ Stuck
                \/ main = "faulted")

\* "Dispose and close all connections" (214): when Stop has returned or thrown, no
\* connection has a thread left.
StopClosesAll ==
    [][user # "idle" /\ user' = "idle" => \A c \in DOMAIN conns : Joinable(c)]_vars

\* "Disconnect any current" (436): the client's thread gets through it.
DisconnectEnds == main = "join" ~> main # "join"
=============================================================================
