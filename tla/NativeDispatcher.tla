---------------------------- MODULE NativeDispatcher ---------------------------
(***************************************************************************)
(* The native library's dispatcher (Dispatcher.cpp): the user's thread     *)
(* that starts and stops it, its dispatch thread, its server or client     *)
(* thread, and the handshakes on the connections' own threads.             *)
(*                                                                         *)
(* What holds m_user_mutex is one step.  A condition variable wakes its    *)
(* waiter when it is notified, and the waiter then tests its predicate     *)
(* again.  NetworkConnection and TCPAcceptor are not in the repository; a  *)
(* connection here is destroyed at once, and an acceptor that is shut down *)
(* gives no stream.  Saving, flushing, and what the messages say beyond    *)
(* the protocol revision are left out.                                     *)
(***************************************************************************)
EXTENDS Integers, Sequences

CONSTANTS
    Roles,        \* what may be started: "server", "client"
    StopFirst,    \* the user calls Stop before starting again
    MaxStarts, MaxStreams, MaxLosses, MaxPeers   \* bounds

ASSUME DispatcherAssumption ==
    /\ Roles \subseteq {"server", "client"} /\ StopFirst \in BOOLEAN
    /\ {MaxStarts, MaxStreams, MaxLosses, MaxPeers} \subseteq Nat

VARIABLES
    active,        \* m_active
    mode,          \* m_networkMode, as the set of its flags
    user,          \* where the user's thread is, and the role it started last
    stopped,       \* nothing has been started since the last Stop
    dispatch,      \* where m_dispatch_thread is
    clientserver,  \* where m_clientserver_thread is
    joinable,      \* the two std::thread objects have a thread not joined yet
    woken,         \* m_reconnect_cv was notified
    acceptor,      \* m_server_acceptor
    connector,     \* m_client_connector is set
    override,      \* m_client_connector_override is set
    reconnect,     \* m_do_reconnect
    protoRev,      \* m_reconnect_proto_rev: 2 or 3
    connections,   \* m_connections
    conns,         \* every connection made (history), by number
    peer,          \* the server a client finds: its revision, or 0 for none
    refusal,       \* the last connection was refused for its revision (history)
    starts, losses, peers   \* counts that bound the model

userVars == <<user, stopped, starts>>
threadVars == <<dispatch, clientserver, joinable>>
listVars == <<connections, conns>>
clientVars == <<connector, override>>
retryVars == <<reconnect, protoRev, woken, refusal>>
peerVars == <<peer, peers, losses>>
vars == <<active, mode, userVars, threadVars, acceptor, clientVars, retryVars, listVars, peerVars>>

Flags == {"server", "client", "starting", "failure"}
Status == {"handshake", "refused", "ending", "active", "dead", "closed"}
Listed == {connections[i] : i \in DOMAIN connections}

TypeOK ==
    /\ active \in BOOLEAN /\ stopped \in BOOLEAN /\ woken \in BOOLEAN
    /\ mode \subseteq Flags
    /\ user \in [at : {"idle", "starting", "waking", "shutting", "joining", "closing",
                       "terminated"}, role : Roles \cup {"none"}]
    /\ dispatch \in {"none", "wait", "done"}
    /\ clientserver \in {"none", "start", "accept", "add", "loop", "pick", "connect",
                         "install", "wait", "done"}
    /\ joinable \in BOOLEAN /\ connector \in BOOLEAN /\ override \in BOOLEAN
    /\ acceptor \in {"none", "new", "listening", "down"}
    /\ reconnect \in BOOLEAN /\ refusal \in BOOLEAN
    /\ protoRev \in {2, 3} /\ peer \in {0, 2, 3}
    /\ conns \in Seq([status : Status, rev : {2, 3}, met : 0 .. MaxPeers])
    /\ Len(conns) <= MaxStreams
    /\ connections \in Seq(DOMAIN conns)
    /\ starts \in 0 .. MaxStarts /\ losses \in 0 .. MaxLosses /\ peers \in 0 .. MaxPeers

Init ==
    /\ active = FALSE /\ stopped = TRUE /\ woken = FALSE
    /\ mode = {}
    /\ user = [at |-> "idle", role |-> "none"]
    /\ dispatch = "none" /\ clientserver = "none" /\ joinable = FALSE
    /\ acceptor = "none" /\ connector = FALSE /\ override = FALSE
    /\ reconnect = TRUE /\ protoRev = 3 /\ refusal = FALSE
    /\ connections = <<>> /\ conns = <<>>
    /\ peer \in {0, 2, 3}
    /\ starts = 0 /\ losses = 0 /\ peers = 0

UserAt(p) == user.at = p
UserGoes(p) == user' = [user EXCEPT !.at = p]

\* m_reconnect_cv.notify_one()
NotifyReconnect == woken' = (woken \/ clientserver = "wait")
-----------------------------------------------------------------------------
(* The user's thread. *)

\* StartServer and StartClient, under m_user_mutex
Start(role) ==
    /\ UserAt("idle") /\ starts < MaxStarts /\ (StopFirst => stopped)
    /\ starts' = starts + 1
    /\ IF active
       THEN UNCHANGED <<active, user, stopped>>
       ELSE active' = TRUE /\ stopped' = FALSE /\ user' = [at |-> "starting", role |-> role]
    /\ UNCHANGED <<mode, threadVars, acceptor, clientVars, retryVars, listVars, peerVars>>

\* the rest of them: assigning to a std::thread that is joinable ends the program
StartThreads ==
    /\ UserAt("starting")
    /\ mode' = {user.role, "starting"}
    /\ acceptor' = IF user.role = "server" THEN "new" ELSE acceptor
    /\ IF joinable
       THEN UserGoes("terminated") /\ UNCHANGED threadVars
       ELSE /\ UserGoes("idle")
            /\ dispatch' = "wait" /\ joinable' = TRUE
            /\ clientserver' = IF user.role = "server" THEN "start" ELSE "loop"
    /\ UNCHANGED <<active, stopped, starts, clientVars, retryVars, listVars, peerVars>>

\* Stop, returning at once when nothing is active
StopIfActive ==
    /\ UserAt("idle")
    /\ active' = FALSE
    /\ IF active THEN UserGoes("waking") /\ UNCHANGED stopped
                 ELSE stopped' = TRUE /\ UNCHANGED user
    /\ UNCHANGED <<mode, starts, threadVars, acceptor, clientVars, retryVars, listVars, peerVars>>

Stop ==
    /\ UserAt("idle")
    /\ active' = FALSE
    /\ UserGoes("waking")
    /\ UNCHANGED <<mode, stopped, starts, threadVars, acceptor, clientVars, retryVars, listVars, peerVars>>

\* ClientReconnect, when the mode lets it
ClientReconnect(rev) ==
    IF "server" \in mode THEN UNCHANGED <<reconnect, protoRev, woken>>
    ELSE reconnect' = TRUE /\ protoRev' = rev /\ NotifyReconnect

StopWakesClient ==
    /\ UserAt("waking")
    /\ connector' = FALSE
    /\ ClientReconnect(3)
    /\ refusal' = FALSE
    /\ UserGoes("shutting")
    /\ UNCHANGED <<active, mode, stopped, starts, threadVars, acceptor, override, listVars, peerVars>>

StopShutsAcceptor ==
    /\ UserAt("shutting")
    /\ acceptor' = IF acceptor = "none" THEN "none" ELSE "down"
    /\ UserGoes("joining")
    /\ UNCHANGED <<active, mode, stopped, starts, threadVars, clientVars, retryVars, listVars, peerVars>>

StopJoins ==
    /\ UserAt("joining")
    /\ joinable => dispatch = "done" /\ clientserver = "done"
    /\ joinable' = FALSE
    /\ UserGoes("closing")
    /\ UNCHANGED <<active, mode, stopped, starts, dispatch, clientserver, acceptor, clientVars,
                   retryVars, listVars, peerVars>>

Closing(ids) == [c \in DOMAIN conns |->
                   IF c \in ids THEN [conns[c] EXCEPT !.status = "closed"] ELSE conns[c]]

StopCloses ==
    /\ UserAt("closing")
    /\ conns' = Closing(Listed) /\ connections' = <<>>
    /\ stopped' = TRUE
    /\ UserGoes("idle")
    /\ UNCHANGED <<active, mode, starts, threadVars, acceptor, clientVars, retryVars, peerVars>>

\* SetConnector, SetConnectorOverride and ClearConnectorOverride, on any thread
SetConnector(set, over) ==
    /\ connector' = (connector \/ set) /\ override' = over
    /\ UNCHANGED <<active, mode, userVars, threadVars, acceptor, retryVars, listVars, peerVars>>
-----------------------------------------------------------------------------
(* DispatchThreadMain. *)

Dead(c) == conns[c].status = "dead"

\* DispatchWakes, setting m_do_reconnect and notifying nobody
DispatchSetsFlag ==
    /\ dispatch = "wait"
    /\ IF ~ active
       THEN dispatch' = "done" /\ UNCHANGED reconnect
       ELSE /\ "client" \in mode /\ ~ reconnect /\ \E c \in Listed : Dead(c)
            /\ reconnect' = TRUE
            /\ UNCHANGED dispatch
    /\ UNCHANGED <<active, mode, userVars, clientserver, joinable, acceptor, clientVars, protoRev,
                   refusal, woken, listVars, peerVars>>

\* What is posted changes nothing here.
DispatchWakes ==
    /\ dispatch = "wait"
    /\ IF ~ active
       THEN dispatch' = "done" /\ UNCHANGED <<reconnect, woken>>
       ELSE /\ "client" \in mode /\ ~ reconnect /\ \E c \in Listed : Dead(c)
            /\ reconnect' = TRUE /\ NotifyReconnect
            /\ UNCHANGED dispatch
    /\ UNCHANGED <<active, mode, userVars, clientserver, joinable, acceptor, clientVars, protoRev,
                   refusal, listVars, peerVars>>
-----------------------------------------------------------------------------
(* ServerThreadMain. *)

ServerUnchanged ==
    UNCHANGED <<userVars, dispatch, joinable, clientVars, retryVars, peerVars>>

ServerStarts ==
    /\ clientserver = "start"
    /\ \/ /\ acceptor = "new"
          /\ acceptor' = "listening" /\ mode' = {"server"}
          /\ clientserver' = "loop" /\ UNCHANGED active
       \/ /\ active' = FALSE /\ mode' = {"server", "failure"}
          /\ clientserver' = "done" /\ UNCHANGED acceptor
    /\ ServerUnchanged /\ UNCHANGED listVars

IsServer == user.role = "server"

ServerLoops ==
    /\ clientserver = "loop" /\ IsServer
    /\ IF active THEN clientserver' = "accept" /\ UNCHANGED mode
                 ELSE clientserver' = "done" /\ mode' = {}
    /\ ServerUnchanged /\ UNCHANGED <<active, acceptor, listVars>>

\* accept gives a stream, or fails
Accept ==
    /\ clientserver = "accept"
    /\ \/ /\ acceptor = "listening" /\ Len(conns) < MaxStreams
          /\ IF active THEN clientserver' = "add" /\ UNCHANGED mode
                       ELSE clientserver' = "done" /\ mode' = {}
          /\ UNCHANGED active
       \/ active' = FALSE /\ clientserver' = "done" /\ UNCHANGED mode
    /\ ServerUnchanged /\ UNCHANGED <<acceptor, listVars>>

NewConnection(rev) == Append(conns, [status |-> "handshake", rev |-> rev, met |-> peers])

\* AddConnection, reusing the first slot
AddOverFirst ==
    /\ clientserver = "add"
    /\ conns' = NewConnection(3)
    /\ connections' = IF connections = <<>> THEN <<Len(conns')>>
                      ELSE [connections EXCEPT ![1] = Len(conns')]
    /\ clientserver' = "loop"
    /\ ServerUnchanged /\ UNCHANGED <<active, mode, acceptor>>

\* reuse the first dead connection's slot
AddConnection ==
    /\ clientserver = "add"
    /\ conns' = NewConnection(3)
    /\ LET dead == {i \in DOMAIN connections : Dead(connections[i])}
       IN IF dead = {} THEN connections' = Append(connections, Len(conns'))
          ELSE \E i \in dead : /\ \A j \in dead : i <= j
                               /\ connections' = [connections EXCEPT ![i] = Len(conns')]
    /\ clientserver' = "loop"
    /\ ServerUnchanged /\ UNCHANGED <<active, mode, acceptor>>
-----------------------------------------------------------------------------
(* ClientThreadMain. *)

ClientUnchanged ==
    UNCHANGED <<active, userVars, dispatch, joinable, acceptor, clientVars, peerVars>>

ClientLoops ==
    /\ clientserver = "loop" /\ ~ IsServer
    /\ IF active THEN clientserver' = "pick" /\ UNCHANGED mode
                 ELSE clientserver' = "done" /\ mode' = {}
    /\ ClientUnchanged /\ UNCHANGED <<listVars, retryVars>>

\* the end of the sleep between retries
ClientPicks ==
    /\ clientserver = "pick"
    /\ IF override \/ connector THEN clientserver' = "connect" /\ UNCHANGED mode
       ELSE clientserver' = "loop" /\ mode' = {"client", "failure"}
    /\ ClientUnchanged /\ UNCHANGED <<listVars, retryVars>>

\* it finds no server once MaxStreams are used up
Connect ==
    /\ clientserver = "connect"
    /\ IF peer = 0 \/ Len(conns) = MaxStreams
       THEN clientserver' = "loop" /\ mode' = {"client", "failure"}
       ELSE clientserver' = "install" /\ mode' = {"client"}
    /\ ClientUnchanged /\ UNCHANGED <<listVars, retryVars>>

\* under m_user_mutex up to the wait, which first tests its predicate
Install ==
    /\ clientserver = "install"
    /\ conns' = Append(Closing(Listed), [status |-> "handshake", rev |-> protoRev, met |-> peers])
    /\ connections' = <<Len(conns) + 1>>
    /\ protoRev' = 3 /\ reconnect' = FALSE /\ woken' = FALSE /\ refusal' = FALSE
    /\ clientserver' = IF active THEN "wait" ELSE "loop"
    /\ ClientUnchanged /\ UNCHANGED mode

ClientWakes ==
    /\ clientserver = "wait" /\ woken
    /\ clientserver' = IF ~ active \/ reconnect THEN "loop" ELSE "wait"
    /\ woken' = FALSE
    /\ ClientUnchanged /\ UNCHANGED <<mode, listVars, reconnect, protoRev, refusal>>
-----------------------------------------------------------------------------
(* The connections' threads, and the peer. *)

Becomes(c, status) == conns' = [conns EXCEPT ![c].status = status]

ConnUnchanged ==
    UNCHANGED <<active, mode, userVars, threadVars, acceptor, clientVars, connections, peer, peers>>

\* a server of revision 2 refuses a client of revision 3; the stream may have ended
ClientHandshake(c) ==
    /\ ~ IsServer /\ conns[c].status = "handshake"
    /\ Becomes(c, IF conns[c].met # peers THEN "dead"
                  ELSE IF peer = 2 /\ conns[c].rev = 3 THEN "refused" ELSE "active")
    /\ ConnUnchanged /\ UNCHANGED <<retryVars, losses>>

\* a client that cannot finish it is one that is lost
ServerHandshake(c) ==
    /\ IsServer /\ conns[c].status = "handshake"
    /\ Becomes(c, "active")
    /\ ConnUnchanged /\ UNCHANGED <<retryVars, losses>>

\* ClientReconnect(0x0200), before the handshake returns false
Refused(c) ==
    /\ conns[c].status = "refused"
    /\ Becomes(c, "ending")
    /\ ClientReconnect(2)
    /\ refusal' = TRUE
    /\ ConnUnchanged /\ UNCHANGED losses

HandshakeFails(c) ==
    /\ conns[c].status = "ending"
    /\ Becomes(c, "dead")
    /\ ConnUnchanged /\ UNCHANGED <<retryVars, losses>>

\* the stream ends: of itself, or because the peer is no longer what it was
Lose(c) ==
    /\ conns[c].status \in {"handshake", "active"}
    /\ Becomes(c, "dead")
    /\ IF ~ IsServer /\ conns[c].met # peers THEN UNCHANGED losses
       ELSE losses < MaxLosses /\ losses' = losses + 1
    /\ ConnUnchanged /\ UNCHANGED retryVars

\* the client's server goes, comes back or is replaced by one of another revision
PeerChanges(rev) ==
    /\ rev # peer /\ peers < MaxPeers
    /\ peer' = rev /\ peers' = peers + 1
    /\ UNCHANGED <<active, mode, userVars, threadVars, acceptor, clientVars, retryVars, listVars, losses>>
-----------------------------------------------------------------------------
StopSteps == StopWakesClient \/ StopShutsAcceptor \/ StopJoins \/ StopCloses
ServerThreadMain == ServerStarts \/ ServerLoops \/ Accept \/ AddConnection
ClientThreadMain == ClientLoops \/ ClientPicks \/ Connect \/ Install \/ ClientWakes

ConnectionThread(c) ==
    \/ ClientHandshake(c) \/ ServerHandshake(c) \/ Refused(c) \/ HandshakeFails(c)
    \/ (conns[c].met # peers /\ Lose(c))

Next ==
    \/ \E role \in Roles : Start(role)
    \/ StartThreads \/ Stop \/ StopSteps
    \/ \E set, over \in BOOLEAN : SetConnector(set, over)
    \/ DispatchWakes \/ ServerThreadMain \/ ClientThreadMain
    \/ \E c \in DOMAIN conns : ConnectionThread(c) \/ Lose(c)
    \/ \E rev \in {0, 2, 3} : PeerChanges(rev)

Spec == Init /\ [][Next]_vars

\* Threads run, a dead stream is noticed, a dispatch period ends, and a Start or a
\* Stop that has begun goes on.  Accept alone may block for ever, until shut down.
Fairness ==
    /\ WF_vars(StartThreads) /\ WF_vars(StopSteps) /\ WF_vars(DispatchWakes)
    /\ WF_vars(ServerStarts) /\ WF_vars(ServerLoops) /\ WF_vars(AddConnection)
    /\ WF_vars(acceptor = "down" /\ Accept)
    /\ WF_vars(ClientThreadMain)
    /\ \A c \in 1 .. MaxStreams : WF_vars(c \in DOMAIN conns /\ ConnectionThread(c))

FairSpec == Spec /\ Fairness
-----------------------------------------------------------------------------
\* When Stop has returned nothing of the dispatcher is left running: no thread, no
\* connection (Dispatcher.cpp:164-192).
StopLeavesNothing ==
    stopped /\ UserAt("idle") =>
        /\ dispatch \in {"none", "done"} /\ clientserver \in {"none", "done"} /\ ~ joinable
        /\ \A c \in DOMAIN conns : conns[c].status \in {"dead", "closed"}

\* A user who stops the dispatcher before starting it again never assigns over a
\* thread, however the threads ended (147, 160, 181).
NeverTerminates == StopFirst => ~ UserAt("terminated")

\* A connection that is not dead is in m_connections until it is disconnected,
\* whatever slots are reused (396-404).
LiveConnectionsListed ==
    \A c \in DOMAIN conns : conns[c].status \in {"handshake", "active"} => c \in Listed

\* The three together: no thread is assigned over, however those before it ended; a
\* Stop that returns leaves no thread and no connection; those that live are listed.
NothingLeftRunning == NeverTerminates /\ StopLeavesNothing /\ LiveConnectionsListed

\* The client's thread disconnects no connection that could still be of use, nor
\* one whose thread could yet ask for a reconnection (450).
InstallsOverTheDead ==
    [][Install => \A c \in Listed : conns[c].status \in {"dead", "ending"}]_vars

\* After a server has refused revision 3 the next connection offers revision 2,
\* whatever woke the client's thread (452-456, 488).
RefusalIsHeeded ==
    [][Install /\ refusal => conns'[Len(conns')].rev = 2]_vars

\* Stop returns.
StopReturns == UserAt("waking") ~> UserAt("idle")

Connected == \E c \in Listed : conns[c].status = "active" /\ conns[c].met = peers

\* A running client that has a connector and whose server is there, of either
\* revision, ends up connected to it, whatever was lost before.
ClientConnects ==
    <>[](active /\ ~ IsServer /\ (connector \/ override) /\ peer # 0
         /\ Len(conns) < MaxStreams) => <>[]Connected

\* "NT_NET_MODE_NONE = 0x00, /* not running */" (ntcore_c.h:93): the mode when Stop
\* has returned.
StoppedModeIsNone == stopped /\ UserAt("idle") => mode = {}
=============================================================================
