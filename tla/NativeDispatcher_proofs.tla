------------------------- MODULE NativeDispatcher_proofs -------------------------
(***************************************************************************)
(* What the native dispatcher's Start and Stop leave behind, for any roles *)
(* and numbers of starts, connections, losses and servers: no std::thread  *)
(* is assigned over, no connection is dropped alive, and nothing runs when *)
(* Stop has returned.                                                      *)
(*                                                                         *)
(* Nothing is listed that was not made, every connection that is not over  *)
(* is listed, the threads run only between a Start and the join of a Stop, *)
(* and a Stop that ended has found all of that to be over.                 *)
(***************************************************************************)
EXTENDS NativeDispatcher, SequenceTheorems, TLAPS

Conn == [status : Status, rev : {2, 3}, met : Nat]

Types ==
    /\ user \in [at : {"idle", "starting", "waking", "shutting", "joining", "closing",
                       "terminated"}, role : Roles \cup {"none"}]
    /\ stopped \in BOOLEAN /\ joinable \in BOOLEAN
    /\ protoRev \in {2, 3} /\ peers \in Nat
    /\ conns \in Seq(Conn) /\ connections \in Seq(DOMAIN conns)

Over(c) == conns[c].status \in {"dead", "closed"}

\* A connection that is not over is in m_connections.
AliveListed == \A c \in DOMAIN conns : Over(c) \/ c \in Listed

\* Threads run only while they can be joined.
JoinedIsDone == ~ joinable => dispatch \in {"none", "done"} /\ clientserver \in {"none", "done"}

\* They cannot be joined yet as they are started, and no more when they were.
JoinOrder ==
    /\ UserAt("closing") => ~ joinable
    /\ UserAt("starting") => ~ stopped /\ (StopFirst => ~ joinable)
    /\ stopped => ~ joinable
    /\ StopFirst => ~ UserAt("terminated")

\* Once stopped, all is over.
StoppedIsOver == stopped => \A c \in DOMAIN conns : Over(c)

IInv == Types /\ AliveListed /\ JoinedIsDone /\ JoinOrder /\ StoppedIsOver
-----------------------------------------------------------------------------
LEMMA Initially == Init => IInv
<1> SUFFICES ASSUME Init PROVE IInv
  OBVIOUS
<1>1. Types
  <2>1. user \in [at : {"idle", "starting", "waking", "shutting", "joining", "closing",
                       "terminated"}, role : Roles \cup {"none"}]
    BY DEF Init
  <2>2. conns \in Seq(Conn) /\ connections \in Seq(DOMAIN conns)
    BY DEF Init
  <2> QED
    BY <2>1, <2>2 DEF Init, Types
<1>2. AliveListed /\ JoinedIsDone /\ JoinOrder /\ StoppedIsOver
  BY DEF Init, AliveListed, JoinedIsDone, JoinOrder, StoppedIsOver, UserAt
<1> QED
  BY <1>1, <1>2 DEF IInv

\* Steps that leave the user, its threads' being joinable, and the connections alone, and
\* start no thread.
LEMMA ThreadsKeep ==
    ASSUME IInv, UNCHANGED <<userVars, joinable, listVars, peers>>, protoRev' \in {2, 3},
           dispatch' # dispatch => dispatch = "wait",
           clientserver' # clientserver => clientserver \notin {"none", "done"}
    PROVE  IInv'
<1>1. Types' /\ AliveListed' /\ JoinOrder' /\ StoppedIsOver'
  BY DEF IInv, Types, AliveListed, JoinOrder, StoppedIsOver, Over, Listed, UserAt, userVars, listVars
<1>2. JoinedIsDone'
  BY DEF IInv, JoinedIsDone
<1> QED
  BY <1>1, <1>2 DEF IInv

LEMMA StartKeeps ==
    ASSUME IInv, NEW role \in Roles, Start(role)
    PROVE  IInv'
<1>1. user' \in [at : {"idle", "starting", "waking", "shutting", "joining", "closing",
                       "terminated"}, role : Roles \cup {"none"}]
  BY DEF IInv, Types, Start
<1>2. Types'
  BY <1>1 DEF IInv, Types, Start, threadVars, retryVars, listVars, peerVars
<1>3. AliveListed' /\ JoinedIsDone' /\ StoppedIsOver'
  BY DEF IInv, AliveListed, JoinedIsDone, StoppedIsOver, Over, Listed, Start, threadVars, listVars
<1>4. JoinOrder'
  BY DEF IInv, Types, JoinOrder, UserAt, Start, threadVars
<1> QED
  BY <1>2, <1>3, <1>4 DEF IInv

LEMMA StartThreadsKeeps ==
    ASSUME IInv, StartThreads
    PROVE  IInv'
<1>1. user.at = "starting" /\ ~ stopped
  BY DEF IInv, JoinOrder, StartThreads, UserAt
<1>2. /\ UNCHANGED <<stopped, protoRev, peers, conns, connections>>
      /\ joinable' \in BOOLEAN
      /\ user' = [user EXCEPT !.at = IF joinable THEN "terminated" ELSE "idle"]
  BY DEF IInv, Types, StartThreads, UserGoes, threadVars, retryVars, listVars, peerVars
<1>3. user'.at = (IF joinable THEN "terminated" ELSE "idle")
  BY <1>2 DEF IInv, Types
<1>4. Types'
  BY <1>2 DEF IInv, Types
<1>5. AliveListed' /\ StoppedIsOver'
  BY <1>2 DEF IInv, AliveListed, StoppedIsOver, Over, Listed
<1>6. JoinedIsDone'
  BY DEF IInv, JoinedIsDone, StartThreads, threadVars
<1>7. JoinOrder'
  BY <1>1, <1>2, <1>3 DEF IInv, JoinOrder, UserAt
<1> QED
  BY <1>4, <1>5, <1>6, <1>7 DEF IInv

\* The steps of Stop that only move the user's thread.
LEMMA UserMoves ==
    ASSUME IInv, NEW from \in {"idle", "waking", "shutting"}, NEW to \in {"waking", "shutting", "joining"},
           UserAt(from), UserGoes(to),
           UNCHANGED <<stopped, starts, threadVars, listVars, peerVars>>, protoRev' \in {2, 3}
    PROVE  IInv'
<1>1. user'.at = to /\ user'.role = user.role
  BY DEF IInv, Types, UserGoes
<1>2. Types'
  BY DEF IInv, Types, UserGoes, threadVars, listVars, peerVars
<1>3. AliveListed' /\ JoinedIsDone' /\ StoppedIsOver'
  BY DEF IInv, AliveListed, JoinedIsDone, StoppedIsOver, Over, Listed, threadVars, listVars
<1>4. JoinOrder'
  BY <1>1 DEF IInv, JoinOrder, UserAt, threadVars
<1> QED
  BY <1>2, <1>3, <1>4 DEF IInv

LEMMA StopKeeps ==
    ASSUME IInv, Stop \/ StopWakesClient \/ StopShutsAcceptor
    PROVE  IInv'
<1>1. CASE Stop
  BY <1>1, UserMoves DEF Stop, retryVars, IInv, Types
<1>2. CASE StopWakesClient
  BY <1>2, UserMoves DEF StopWakesClient, ClientReconnect, IInv, Types
<1>3. CASE StopShutsAcceptor
  BY <1>3, UserMoves DEF StopShutsAcceptor, retryVars, IInv, Types
<1> QED
  BY <1>1, <1>2, <1>3

LEMMA StopJoinsKeeps ==
    ASSUME IInv, StopJoins
    PROVE  IInv'
<1>1. user'.at = "closing" /\ user' \in [at : {"idle", "starting", "waking", "shutting", "joining",
                                             "closing", "terminated"}, role : Roles \cup {"none"}]
  BY DEF IInv, Types, StopJoins, UserGoes
<1>2. Types'
  BY <1>1 DEF IInv, Types, StopJoins, retryVars, listVars, peerVars
<1>3. AliveListed' /\ StoppedIsOver'
  BY DEF IInv, AliveListed, StoppedIsOver, Over, Listed, StopJoins, listVars
<1>4. JoinedIsDone'
  BY DEF IInv, JoinedIsDone, StopJoins
<1>5. JoinOrder'
  BY <1>1 DEF IInv, JoinOrder, UserAt, StopJoins
<1> QED
  BY <1>2, <1>3, <1>4, <1>5 DEF IInv

\* What closing the listed connections leaves.
LEMMA ClosingCloses ==
    ASSUME IInv
    PROVE  /\ Closing(Listed) \in Seq(Conn) /\ Len(Closing(Listed)) = Len(conns)
           /\ \A c \in DOMAIN conns : Closing(Listed)[c].status \in {"dead", "closed"}
<1> DEFINE new == Closing(Listed)
<1>1. conns \in Seq(Conn) /\ DOMAIN conns = 1 .. Len(conns) /\ Len(conns) \in Nat
  BY DEF IInv, Types
<1>2. \A c \in DOMAIN conns : new[c] \in Conn /\ new[c].status \in {"dead", "closed"}
  <2> SUFFICES ASSUME NEW c \in DOMAIN conns
               PROVE  new[c] \in Conn /\ new[c].status \in {"dead", "closed"}
    OBVIOUS
  <2>1. conns[c] \in Conn
    BY <1>1
  <2>2. CASE c \in Listed
    <3>1. new[c] = [conns[c] EXCEPT !.status = "closed"]
      BY <2>2 DEF Closing
    <3> QED
      BY <2>1, <3>1 DEF Conn, Status
  <2>3. CASE c \notin Listed
    <3>1. new[c] = conns[c]
      BY <2>3 DEF Closing
    <3> QED
      BY <2>1, <2>3, <3>1 DEF IInv, AliveListed, Over
  <2> QED
    BY <2>2, <2>3
<1>3. new \in [1 .. Len(conns) -> Conn]
  BY <1>1, <1>2 DEF Closing
<1>4. new \in Seq(Conn) /\ Len(new) = Len(conns)
  BY <1>1, <1>3
<1> QED
  BY <1>2, <1>4

LEMMA StopClosesKeeps ==
    ASSUME IInv, StopCloses
    PROVE  IInv'
<1>1. user'.at = "idle" /\ user' \in [at : {"idle", "starting", "waking", "shutting", "joining",
                                          "closing", "terminated"}, role : Roles \cup {"none"}]
  BY DEF IInv, Types, StopCloses, UserGoes
<1>2. conns' \in Seq(Conn) /\ connections' = <<>> /\ DOMAIN conns' = DOMAIN conns
  BY ClosingCloses DEF IInv, Types, StopCloses
<1>3. Types'
  BY <1>1, <1>2 DEF IInv, Types, StopCloses, threadVars, retryVars, peerVars
<1>4. \A c \in DOMAIN conns' : conns'[c].status \in {"dead", "closed"}
  BY <1>2, ClosingCloses DEF StopCloses
<1>5. AliveListed' /\ StoppedIsOver'
  BY <1>4 DEF AliveListed, StoppedIsOver, Over
<1>6. JoinedIsDone' /\ JoinOrder'
  BY <1>1 DEF IInv, JoinedIsDone, JoinOrder, UserAt, StopCloses, threadVars
<1> QED
  BY <1>3, <1>5, <1>6 DEF IInv-----------------------------------------------------------------------------
LEMMA AddConnectionKeeps ==
    ASSUME IInv, AddConnection
    PROVE  IInv'
<1> DEFINE new == [status |-> "handshake", rev |-> 3, met |-> peers]
           n == Len(conns) + 1
<1>1. new \in Conn
  BY DEF IInv, Types, Conn, Status
<1>2. conns' = Append(conns, new)
  BY DEF AddConnection, NewConnection
<1> HIDE DEF new
<1>3. /\ conns' \in Seq(Conn) /\ Len(conns') = n /\ DOMAIN conns' = 1 .. n
      /\ \A c \in DOMAIN conns : conns'[c] = conns[c]
      /\ DOMAIN conns = 1 .. Len(conns) /\ Len(conns) \in Nat
  BY <1>1, <1>2 DEF IInv, Types
<1>4. connections \in Seq(DOMAIN conns')
  BY <1>3 DEF IInv, Types
<1>5. \/ connections' = Append(connections, n)
      \/ \E i \in DOMAIN connections :
            Dead(connections[i]) /\ connections' = [connections EXCEPT ![i] = n]
  BY <1>3 DEF AddConnection
<1>6. /\ connections' \in Seq(DOMAIN conns')
      /\ \A c \in DOMAIN conns' : c \in Listed' \/ (c \in DOMAIN conns /\ (Over(c) \/ c \notin Listed))
  <2>1. CASE connections' = Append(connections, n)
    <3>1. connections' \in Seq(DOMAIN conns')
      BY <1>3, <1>4, <2>1
    <3>2. connections'[Len(connections) + 1] = n /\ Len(connections) + 1 \in DOMAIN connections'
          /\ \A i \in DOMAIN connections : connections'[i] = connections[i] /\ i \in DOMAIN connections'
      BY <1>3, <1>4, <2>1
    <3>3. n \in Listed' /\ \A c \in Listed : c \in Listed'
      BY <3>2 DEF Listed
    <3> QED
      BY <1>3, <3>1, <3>3
  <2>2. ASSUME NEW i \in DOMAIN connections, Dead(connections[i]),
               connections' = [connections EXCEPT ![i] = n]
        PROVE  <1>6!1 /\ <1>6!2
    <3>1. /\ connections' \in Seq(DOMAIN conns') /\ DOMAIN connections' = DOMAIN connections
          /\ connections'[i] = n
          /\ \A j \in DOMAIN connections : j # i => connections'[j] = connections[j]
      BY <1>3, <1>4, <2>2, ExceptSeq
    <3>2. n \in Listed' /\ \A c \in Listed : c = connections[i] \/ c \in Listed'
      BY <3>1, <2>2 DEF Listed
    <3>3. Over(connections[i])
      BY <2>2 DEF Dead, Over
    <3> QED
      BY <1>3, <3>1, <3>2, <3>3
  <2> QED
    BY <1>5, <2>1, <2>2
<1>7. Types'
  BY <1>3, <1>6 DEF IInv, Types, AddConnection, ServerUnchanged, userVars, retryVars, peerVars
<1>8. AliveListed'
  <2> SUFFICES ASSUME NEW c \in DOMAIN conns', c \notin Listed'
               PROVE  Over(c)'
    BY DEF AliveListed
  <2>1. c \in DOMAIN conns /\ Over(c)
    BY <1>6 DEF IInv, AliveListed
  <2> QED
    BY <1>3, <2>1 DEF Over
<1>9. joinable /\ ~ stopped
  BY DEF IInv, JoinedIsDone, JoinOrder, AddConnection
<1>10. JoinedIsDone' /\ JoinOrder' /\ StoppedIsOver'
  BY <1>9 DEF IInv, JoinedIsDone, JoinOrder, StoppedIsOver, UserAt, AddConnection,
              ServerUnchanged, userVars
<1> QED
  BY <1>7, <1>8, <1>10 DEF IInv

LEMMA InstallKeeps ==
    ASSUME IInv, Install
    PROVE  IInv'
<1> DEFINE new == [status |-> "handshake", rev |-> protoRev, met |-> peers]
           n == Len(conns) + 1
<1>1. new \in Conn
  BY DEF IInv, Types, Conn, Status
<1>2. conns' = Append(Closing(Listed), new) /\ connections' = <<n>>
  BY DEF Install
<1> HIDE DEF new
<1>3. Len(conns) \in Nat /\ DOMAIN conns = 1 .. Len(conns)
  BY DEF IInv, Types
<1>4. /\ conns' \in Seq(Conn) /\ DOMAIN conns' = 1 .. n
      /\ \A c \in DOMAIN conns : conns'[c] = Closing(Listed)[c]
  BY <1>1, <1>2, <1>3, ClosingCloses
<1>5. connections' \in Seq(DOMAIN conns') /\ Listed' = {n}
  BY <1>2, <1>3, <1>4 DEF Listed
<1>6. Types'
  BY <1>4, <1>5 DEF IInv, Types, Install, ClientUnchanged, userVars, peerVars
<1>7. AliveListed'
  BY <1>3, <1>4, <1>5, ClosingCloses DEF AliveListed, Over
<1>8. joinable /\ ~ stopped
  BY DEF IInv, JoinedIsDone, JoinOrder, Install
<1>9. JoinedIsDone' /\ JoinOrder' /\ StoppedIsOver'
  BY <1>8 DEF IInv, JoinedIsDone, JoinOrder, StoppedIsOver, UserAt, Install, ClientUnchanged, userVars
<1> QED
  BY <1>6, <1>7, <1>9 DEF IInv

\* A connection's thread, or its peer, moves it on, but not from where it is over.
LEMMA BecomesKeeps ==
    ASSUME IInv, NEW c \in DOMAIN conns, NEW status \in Status, ~ Over(c), Becomes(c, status),
           UNCHANGED <<userVars, threadVars, connections, peers>>, protoRev' \in {2, 3}
    PROVE  IInv'
<1> DEFINE new == [conns[c] EXCEPT !.status = status]
<1>1. conns \in Seq(Conn) /\ conns[c] \in Conn
  BY DEF IInv, Types
<1>2. new \in Conn
  BY <1>1 DEF Conn
<1>3. conns' = [conns EXCEPT ![c] = new]
  BY DEF Becomes
<1> HIDE DEF new
<1>4. /\ conns' \in Seq(Conn) /\ DOMAIN conns' = DOMAIN conns
      /\ \A d \in DOMAIN conns : d # c => conns'[d] = conns[d]
  BY <1>1, <1>2, <1>3, ExceptSeq
<1>5. Types'
  BY <1>4 DEF IInv, Types, userVars, threadVars
<1>6. AliveListed'
  BY <1>4 DEF IInv, AliveListed, Over, Listed
<1>7. ~ stopped
  BY DEF IInv, StoppedIsOver
<1>8. JoinedIsDone' /\ JoinOrder' /\ StoppedIsOver'
  BY <1>7 DEF IInv, JoinedIsDone, JoinOrder, StoppedIsOver, UserAt, userVars, threadVars
<1> QED
  BY <1>5, <1>6, <1>8 DEF IInv

LEMMA ConnectionKeeps ==
    ASSUME IInv, NEW c \in DOMAIN conns, ConnectionThread(c) \/ Lose(c)
    PROVE  IInv'
<1> USE DEF ConnUnchanged, retryVars, Over, Status
<1>1. CASE ClientHandshake(c)
  <2>1. PICK status \in {"dead", "refused", "active"} : Becomes(c, status)
    BY <1>1 DEF ClientHandshake
  <2> QED
    BY <1>1, <2>1, BecomesKeeps DEF ClientHandshake, IInv, Types
<1>2. CASE ServerHandshake(c)
  BY <1>2, BecomesKeeps DEF ServerHandshake, IInv, Types
<1>3. CASE Refused(c)
  BY <1>3, BecomesKeeps DEF Refused, ClientReconnect, IInv, Types
<1>4. CASE HandshakeFails(c)
  BY <1>4, BecomesKeeps DEF HandshakeFails, IInv, Types
<1>5. CASE Lose(c)
  BY <1>5, BecomesKeeps DEF Lose, IInv, Types
<1> QED
  BY <1>1, <1>2, <1>3, <1>4, <1>5 DEF ConnectionThread

LEMMA DispatcherThreadsKeep ==
    ASSUME IInv, DispatchWakes \/ ServerThreadMain \/ ClientThreadMain
    PROVE  IInv'
<1> USE DEF IInv, Types, ServerUnchanged, ClientUnchanged, retryVars, peerVars
<1>1. CASE DispatchWakes
  BY <1>1, ThreadsKeep DEF DispatchWakes
<1>2. CASE ServerStarts
  BY <1>2, ThreadsKeep DEF ServerStarts
<1>3. CASE ServerLoops
  BY <1>3, ThreadsKeep DEF ServerLoops
<1>4. CASE Accept
  BY <1>4, ThreadsKeep DEF Accept
<1>5. CASE ClientLoops
  BY <1>5, ThreadsKeep DEF ClientLoops
<1>6. CASE ClientPicks
  BY <1>6, ThreadsKeep DEF ClientPicks
<1>7. CASE Connect
  BY <1>7, ThreadsKeep DEF Connect
<1>8. CASE ClientWakes
  BY <1>8, ThreadsKeep DEF ClientWakes
<1> QED
  BY <1>1, <1>2, <1>3, <1>4, <1>5, <1>6, <1>7, <1>8, AddConnectionKeeps, InstallKeeps
     DEF ServerThreadMain, ClientThreadMain

\* The connectors, and the server a client finds.
LEMMA EnvironmentKeeps ==
    ASSUME IInv, (\E set, over \in BOOLEAN : SetConnector(set, over)) \/ (\E rev : PeerChanges(rev))
    PROVE  IInv'
<1>1. /\ UNCHANGED <<userVars, threadVars, listVars, protoRev>>
      /\ peers' \in Nat
  BY DEF IInv, Types, SetConnector, PeerChanges, retryVars, peerVars
<1>2. Types' /\ AliveListed' /\ StoppedIsOver'
  BY <1>1 DEF IInv, Types, AliveListed, StoppedIsOver, Over, Listed, userVars, threadVars, listVars
<1>3. JoinedIsDone' /\ JoinOrder'
  BY <1>1 DEF IInv, JoinedIsDone, JoinOrder, UserAt, userVars, threadVars
<1> QED
  BY <1>2, <1>3 DEF IInv

LEMMA StepKeeps == IInv /\ [Next]_vars => IInv'
<1> SUFFICES ASSUME IInv, [Next]_vars PROVE IInv'
  OBVIOUS
<1>1. ASSUME NEW role \in Roles, Start(role)
      PROVE  IInv'
  BY <1>1, StartKeeps
<1>2. CASE StartThreads \/ Stop
  BY <1>2, StartThreadsKeeps, StopKeeps
<1>3. CASE StopSteps
  BY <1>3, StopKeeps, StopJoinsKeeps, StopClosesKeeps DEF StopSteps
<1>4. CASE (\E set, over \in BOOLEAN : SetConnector(set, over))
           \/ \E rev \in {0, 2, 3} : PeerChanges(rev)
  BY <1>4, EnvironmentKeeps
<1>5. CASE DispatchWakes \/ ServerThreadMain \/ ClientThreadMain
  BY <1>5, DispatcherThreadsKeep
<1>6. ASSUME NEW c \in DOMAIN conns, ConnectionThread(c) \/ Lose(c)
      PROVE  IInv'
  BY <1>6, ConnectionKeeps
<1>7. CASE UNCHANGED vars
  BY <1>7, ThreadsKeep DEF vars, userVars, threadVars, retryVars, listVars, peerVars, IInv, Types
<1> QED
  BY <1>1, <1>2, <1>3, <1>4, <1>5, <1>6, <1>7 DEF Next

LEMMA Invariance == Spec => []IInv
BY Initially, StepKeeps, PTL DEF Spec
-----------------------------------------------------------------------------
\* A user who stops the dispatcher before starting it again never has a std::thread
\* assigned over, which would end the program, however the threads ended and however
\* often it is done (Dispatcher.cpp:117-192).
THEOREM NeverTerminatesHolds == Spec => []NeverTerminates
<1>1. IInv => NeverTerminates
  BY DEF IInv, JoinOrder, NeverTerminates
<1> QED
  BY Invariance, <1>1, PTL

\* No connection that still lives is dropped from m_connections, whatever slots are
\* reused and whatever the client's thread disconnects (Dispatcher.cpp:384-406, 441-450).
THEOREM LiveConnectionsListedHolds == Spec => []LiveConnectionsListed
<1>1. IInv => LiveConnectionsListed
  BY DEF IInv, AliveListed, Over, LiveConnectionsListed
<1> QED
  BY Invariance, <1>1, PTL

\* When Stop has returned no thread runs and no connection lives (Dispatcher.cpp:164-192).
THEOREM StopLeavesNothingHolds == Spec => []StopLeavesNothing
<1>1. IInv => StopLeavesNothing
  BY DEF IInv, JoinOrder, JoinedIsDone, StoppedIsOver, Over, StopLeavesNothing
<1> QED
  BY Invariance, <1>1, PTL

\* The three together, which a run checks on a small instance.
THEOREM NothingLeftRunningHolds == Spec => []NothingLeftRunning
BY NeverTerminatesHolds, LiveConnectionsListedHolds, StopLeavesNothingHolds, PTL
   DEF NothingLeftRunning
=============================================================================
