----------------------------- MODULE Dispatcher_proofs -----------------------------
(***************************************************************************)
(* The dispatcher, for servers and clients, any numbers of starts, streams *)
(* and failures: whatever steps the user's Stop, the threads that start    *)
(* connections and the connections' own are at, no connection that lives   *)
(* drops out of m_connections, those threads die of no exception but the   *)
(* ones that Dispatcher names, and a refused revision is heeded.           *)
(***************************************************************************)
EXTENDS Dispatcher, SequenceTheorems, TLAPS

ConnRecord ==
    [state : {"handshake", "active", "dead"}, rev : {2, 3}, open : BOOLEAN, told : BOOLEAN,
     writer : {"run", "ended"},
     reader : {"handshake", "refused", "failing", "reading", "queueing", "ended", "faulted"}]

Types ==
    /\ server \in BOOLEAN /\ active \in BOOLEAN /\ protoRev \in {2, 3}
    /\ acceptor \in [shutdown : BOOLEAN, listening : BOOLEAN, open : BOOLEAN]
    /\ conns \in Seq(ConnRecord)
    /\ connections \in Seq(Nat) /\ Listed \subseteq DOMAIN conns
    /\ closing \in Seq(Nat) /\ Range(closing) \subseteq DOMAIN conns
    /\ \A c \in DOMAIN conns : conns[c].reader = "refused" => ~ server

\* Active is set only while no Stop is under way, and neither a Start nor the end of a Stop
\* meets a thread of the last start: that of the server or the client has ended, and m_userMutex
\* is held by that of a client alone, while it disconnects.
Places ==
    /\ user # "idle" => ~ active
    /\ user = "idle" /\ ~ active => main \in {"none", "done", "faulted"}
    /\ user \in {"swap", "close", "join"} => main \in {"none", "done"}
    /\ main \in {"start", "accept", "blocked", "add"} => server
    /\ main \in {"connect", "install", "join", "dispose", "wait"} => ~ server
    /\ mutex = "held" <=> main \in {"join", "dispose"}
    /\ user \notin {"close", "join"} => closing = <<>>

\* What is about to be left out of a list is dead: the connection that Stop waits for, and that
\* of a client, which has one.
Leaving ==
    /\ user = "join" => closing # <<>> /\ Dead(Head(closing))
    /\ ~ server => Len(connections) <= 1
    /\ main = "join" => connections # <<>>
    /\ main \in {"join", "dispose"} => \A c \in Listed : Dead(c)

\* m_server is null only after a Shutdown, which first sets m_shutdown.
Shutdowns ==
    /\ acceptor.listening = acceptor.open
    /\ user = "shutting" /\ server => acceptor.shutdown
    /\ main = "accept" => acceptor.open \/ acceptor.shutdown

\* The reconnection after a refusal is to offer revision 2.
Refusals == refusal => protoRev = 2

IInv == Types /\ Places /\ Leaving /\ Shutdowns /\ Refusals /\ LiveListed /\ MainFaultHasCause
-----------------------------------------------------------------------------
LEMMA Initially == Init => IInv
<1> SUFFICES ASSUME Init PROVE IInv
  OBVIOUS
<1>1. Types
  <2>1. server \in BOOLEAN /\ active \in BOOLEAN /\ protoRev \in {2, 3}
    BY DispatcherAssumption DEF Init
  <2>2. acceptor \in [shutdown : BOOLEAN, listening : BOOLEAN, open : BOOLEAN]
    BY DEF Init, NoAcceptor
  <2>3. conns = <<>> /\ connections = <<>> /\ closing = <<>>
    BY DEF Init
  <2>4. Listed = {} /\ Range(closing) = {}
    BY <2>3 DEF Listed, Range
  <2> QED
    BY <2>1, <2>2, <2>3, <2>4 DEF Types
<1>2. Places /\ Leaving /\ Shutdowns /\ Refusals
  BY DEF Init, Places, Leaving, Shutdowns, Refusals, NoAcceptor
<1>3. LiveListed /\ MainFaultHasCause
  BY DEF Init, LiveListed, MainFaultHasCause
<1> QED
  BY <1>1, <1>2, <1>3 DEF IInv

\* A step that leaves the connections and the lists as they are.
LEMMA ListsStay ==
    ASSUME IInv, UNCHANGED <<server, conns, connections, closing, abandoned>>,
           active' \in BOOLEAN, protoRev' \in {2, 3},
           acceptor' \in [shutdown : BOOLEAN, listening : BOOLEAN, open : BOOLEAN]
    PROVE  Types' /\ LiveListed'
BY DEF IInv, Types, LiveListed, Listed, Range

LEMMA StartKeeps ==
    ASSUME IInv, Start
    PROVE  IInv'
<1>1. Types' /\ LiveListed'
  <2>1. NoAcceptor \in [shutdown : BOOLEAN, listening : BOOLEAN, open : BOOLEAN]
    BY DEF NoAcceptor
  <2> QED
    BY <2>1, ListsStay DEF Start, IInv, Types, userVars, retryVars
<1>2. Places' /\ Leaving' /\ Shutdowns' /\ Refusals' /\ MainFaultHasCause'
  BY DEF IInv, Types, Places, Leaving, Shutdowns, Refusals, MainFaultHasCause, Start, NoAcceptor,
         userVars, retryVars
<1> QED
  BY <1>1, <1>2 DEF IInv

LEMMA UserKeeps ==
    ASSUME IInv, \/ \E set, over : SetConnector(set, over)
                 \/ Stop \/ StopClears \/ StopReconnects \/ StopShuts \/ StopShut
                 \/ StopJoinsDispatch \/ StopJoinsMain
    PROVE  IInv'
<1>1. UNCHANGED <<server, conns, connections, closing, abandoned, main, mutex>>
  BY DEF SetConnector, Stop, StopClears, StopReconnects, StopShuts, StopShut, StopJoinsDispatch,
         StopJoinsMain, StopUnchanged, Unchanged4, userVars
<1>2. /\ active' \in BOOLEAN /\ protoRev' \in {2, 3}
      /\ acceptor' \in [shutdown : BOOLEAN, listening : BOOLEAN, open : BOOLEAN]
  <2>1. CASE StopShuts \/ StopShut
    BY <2>1 DEF IInv, Types, StopShuts, StopShut, StopUnchanged, retryVars
  <2>2. CASE Stop \/ StopClears \/ StopReconnects \/ StopJoinsDispatch \/ StopJoinsMain
             \/ \E set, over : SetConnector(set, over)
    BY <2>2 DEF IInv, Types, SetConnector, Stop, StopClears, StopReconnects, StopJoinsDispatch,
                StopJoinsMain, StopUnchanged, Unchanged4, retryVars, ClientReconnect
  <2> QED
    BY <2>1, <2>2
<1>3. Types' /\ LiveListed'
  BY <1>1, <1>2, ListsStay
<1>4. Places' /\ Leaving'
  BY <1>1 DEF IInv, Places, Leaving, Listed, Range, Dead, SetConnector, Stop, StopClears, StopReconnects,
              StopShuts, StopShut, StopJoinsDispatch, StopJoinsMain, StopUnchanged, userVars
<1>5. Shutdowns' /\ MainFaultHasCause'
  <2>1. CASE StopShuts \/ StopShut
    <3>1. \/ /\ user' = "shutting" /\ acceptor'.shutdown = server
             /\ acceptor'.listening = acceptor.listening /\ acceptor'.open = acceptor.open
          \/ /\ user = "shutting" /\ user' = "dispatch" /\ acceptor'.shutdown = acceptor.shutdown
             /\ acceptor'.listening = FALSE /\ acceptor'.open = FALSE
      BY <2>1 DEF IInv, Types, StopShuts, StopShut
    <3>2. Shutdowns /\ (main = "accept" => server) /\ MainFaultHasCause
      BY DEF IInv, Places
    <3>3. (main = "accept" => acceptor'.open \/ acceptor'.shutdown)
          /\ (main = "faulted" /\ server => acceptor'.shutdown)
      BY <3>1, <3>2 DEF Shutdowns, MainFaultHasCause
    <3>4. acceptor'.listening = acceptor'.open /\ (user' = "shutting" /\ server => acceptor'.shutdown)
      BY <3>1, <3>2 DEF Shutdowns
    <3> QED
      BY <1>1, <3>2, <3>3, <3>4 DEF Shutdowns, MainFaultHasCause, Listed, Range
  <2>2. CASE Stop \/ StopClears \/ StopReconnects \/ StopJoinsDispatch \/ StopJoinsMain
             \/ \E set, over : SetConnector(set, over)
    BY <1>1, <2>2 DEF IInv, Shutdowns, MainFaultHasCause, Listed, Range, SetConnector, Stop,
                StopClears, StopReconnects, StopJoinsDispatch, StopJoinsMain, Unchanged4, userVars
  <2> QED
    BY <2>1, <2>2
<1>6. Refusals'
  BY DEF IInv, Refusals, SetConnector, Stop, StopClears, StopReconnects, StopShuts, StopShut,
         StopJoinsDispatch, StopJoinsMain, Unchanged4, retryVars
<1> QED
  BY <1>3, <1>4, <1>5, <1>6 DEF IInv

LEMMA StopSwapsKeeps ==
    ASSUME IInv, StopSwaps
    PROVE  IInv'
<1>1. /\ user = "swap" /\ mutex = "free" /\ user' = "close" /\ closing' = connections
      /\ connections' = <<>> /\ closing = <<>>
      /\ UNCHANGED <<server, active, main, mutex, acceptor, refusal, protoRev, conns, abandoned>>
  BY DEF IInv, Places, StopSwaps, StopUnchanged, Unchanged4, retryVars
<1>2. Types'
  BY <1>1 DEF IInv, Types, Listed, Range
<1>3. Places' /\ Leaving' /\ Shutdowns' /\ Refusals' /\ MainFaultHasCause'
  BY <1>1 DEF IInv, Places, Leaving, Shutdowns, Refusals, MainFaultHasCause, Listed, Range
<1>4. LiveListed'
  BY <1>1 DEF IInv, LiveListed, Listed, Range
<1> QED
  BY <1>2, <1>3, <1>4 DEF IInv

\* A connection changes: it does not come back to life, and an exception stays.
LEMMA ConnChanges ==
    ASSUME IInv, NEW c \in DOMAIN conns, NEW r \in ConnRecord, conns' = [conns EXCEPT ![c] = r],
           conns[c].state = "dead" => r.state = "dead",
           conns[c].reader = "faulted" => r.reader = "faulted",
           r.reader = "refused" => ~ server,
           UNCHANGED <<server, active, closing, abandoned, acceptor, connections>>,
           protoRev' \in {2, 3}
    PROVE  /\ Types' /\ LiveListed' /\ Listed' = Listed
           /\ \A d \in DOMAIN conns : Dead(d) => Dead(d)'
           /\ \A d \in DOMAIN conns : conns[d].reader = "faulted" => conns'[d].reader = "faulted"
<1>1. /\ conns' \in Seq(ConnRecord) /\ DOMAIN conns' = DOMAIN conns /\ conns'[c] = r
      /\ \A d \in DOMAIN conns : d # c => conns'[d] = conns[d]
  BY ExceptSeq DEF IInv, Types
<1>2. Listed' = Listed
  BY DEF Listed, Range
<1>3. Types'
  BY <1>1, <1>2 DEF IInv, Types
<1>4. LiveListed'
  BY <1>1, <1>2 DEF IInv, LiveListed
<1> QED
  BY <1>1, <1>2, <1>3, <1>4 DEF Dead

\* NetworkConnection.Stop kills it.
LEMMA Disposing ==
    ASSUME IInv, NEW c \in DOMAIN conns, conns' = Disposed(c),
           UNCHANGED <<server, active, closing, abandoned, acceptor, connections, protoRev>>
    PROVE  /\ Types' /\ LiveListed' /\ Listed' = Listed /\ Dead(c)'
           /\ \A d \in DOMAIN conns : Dead(d) => Dead(d)'
           /\ \A d \in DOMAIN conns : conns[d].reader = "faulted" => conns'[d].reader = "faulted"
<1> PICK o : o = conns[c]
  OBVIOUS
<1> DEFINE p == [o EXCEPT !.state = "dead"]
           q == [p EXCEPT !.open = FALSE]
           r == [q EXCEPT !.told = TRUE]
<1>1. o \in ConnRecord
  BY DEF IInv, Types
<1>2. r \in ConnRecord /\ r.state = "dead" /\ r.reader = o.reader
  <2>1. p \in ConnRecord /\ p.state = "dead" /\ p.reader = o.reader
    BY <1>1 DEF ConnRecord
  <2> HIDE DEF p
  <2>2. q \in ConnRecord /\ q.state = "dead" /\ q.reader = o.reader
    BY <2>1 DEF ConnRecord
  <2> HIDE DEF q
  <2> QED
    BY <2>2 DEF ConnRecord
<1>3. conns' = [conns EXCEPT ![c] = r]
  BY DEF Disposed, IInv, Types
<1> HIDE DEF r
<1>4. protoRev' \in {2, 3} /\ (conns[c].reader = "refused" => ~ server)
  BY DEF IInv, Types
<1>5. conns'[c] = r
  BY <1>3 DEF IInv, Types
<1> QED
  BY <1>2, <1>3, <1>4, <1>5, ConnChanges DEF Dead

LEMMA StopDisposesKeeps ==
    ASSUME IInv, StopDisposes
    PROVE  IInv'
<1>1. /\ user = "close" /\ UNCHANGED <<server, active, main, mutex, acceptor, refusal, protoRev,
                                       closing, abandoned, connections>>
  BY DEF StopDisposes, StopUnchanged, Unchanged4, retryVars
<1>2. CASE closing = <<>>
  <2>1. UNCHANGED conns /\ user' = "idle"
    BY <1>2 DEF StopDisposes
  <2>2. Types' /\ LiveListed'
    BY <1>1, <2>1, ListsStay DEF IInv, Types
  <2> QED
    BY <1>1, <1>2, <2>1, <2>2
       DEF IInv, Places, Leaving, Shutdowns, Refusals, MainFaultHasCause, Listed, Range, Dead
<1>3. CASE closing # <<>>
  <2> PICK c : c = Head(closing)
    OBVIOUS
  <2>1. c \in DOMAIN conns
    BY <1>3 DEF IInv, Types, Range
  <2>2. user' = "join" /\ conns' = Disposed(c)
    BY <1>3 DEF StopDisposes
  <2>3. /\ Types' /\ LiveListed' /\ Listed' = Listed /\ Dead(c)'
        /\ \A d \in DOMAIN conns : Dead(d) => Dead(d)'
        /\ \A d \in DOMAIN conns : conns[d].reader = "faulted" => conns'[d].reader = "faulted"
    BY <1>1, <2>1, <2>2, Disposing
  <2>4. Listed \subseteq DOMAIN conns
    BY DEF IInv, Types
  <2>5. Leaving'
    BY <1>1, <1>3, <2>2, <2>3, <2>4 DEF IInv, Places, Leaving, Dead
  <2>6. MainFaultHasCause'
    BY <1>1, <2>3, <2>4 DEF IInv, MainFaultHasCause
  <2> QED
    BY <1>1, <2>2, <2>3, <2>5, <2>6 DEF IInv, Places, Shutdowns, Refusals
<1> QED
  BY <1>2, <1>3

LEMMA HeadAndTail ==
    ASSUME NEW S, NEW s \in Seq(S), s # <<>>
    PROVE  Range(s) = {Head(s)} \cup Range(Tail(s)) /\ Tail(s) \in Seq(S)
<1>1. \A i \in DOMAIN Tail(s) : i + 1 \in DOMAIN s /\ Tail(s)[i] = s[i + 1]
  OBVIOUS
<1>2. \A i \in DOMAIN s : i = 1 \/ (i - 1 \in DOMAIN Tail(s) /\ Tail(s)[i - 1] = s[i])
  OBVIOUS
<1>3. Head(s) = s[1] /\ 1 \in DOMAIN s
  OBVIOUS
<1>4. Range(s) \subseteq {Head(s)} \cup Range(Tail(s))
  <2> SUFFICES ASSUME NEW i \in DOMAIN s
               PROVE  s[i] = Head(s) \/ s[i] \in Range(Tail(s))
    BY DEF Range
  <2> QED
    BY <1>2, <1>3 DEF Range
<1>5. {Head(s)} \cup Range(Tail(s)) \subseteq Range(s)
  BY <1>1, <1>3 DEF Range
<1> QED
  BY <1>4, <1>5

LEMMA StopJoinsConnectionKeeps ==
    ASSUME IInv, StopJoinsConnection
    PROVE  IInv'
<1>1. /\ user = "join" /\ UNCHANGED <<server, active, main, mutex, acceptor, refusal, protoRev,
                                      connections, conns>>
  BY DEF StopJoinsConnection, StopUnchanged, Unchanged4, retryVars
<1>2. \/ user' = "idle" /\ closing' = <<>> /\ abandoned' = abandoned \cup Range(Tail(closing))
      \/ user' = "close" /\ closing' = Tail(closing) /\ abandoned' = abandoned
  BY DEF StopJoinsConnection
<1>3. closing # <<>> /\ closing \in Seq(Nat) /\ Dead(Head(closing)) /\ Range(closing) \subseteq DOMAIN conns
  BY <1>1 DEF IInv, Types, Leaving
<1>4. Range(closing) = {Head(closing)} \cup Range(Tail(closing)) /\ Tail(closing) \in Seq(Nat)
  BY <1>3, HeadAndTail
<1>5. Types'
  <2>1. Range(<<>>) = {} /\ Listed' = Listed
    BY <1>1 DEF Range, Listed
  <2>2. Range(closing') \subseteq Range(closing) /\ closing' \in Seq(Nat)
    <3>1. CASE closing' = <<>>
      BY <2>1, <3>1
    <3>2. CASE closing' = Tail(closing)
      BY <1>4, <3>2
    <3> QED
      BY <1>2, <3>1, <3>2
  <2> QED
    BY <1>1, <1>3, <2>1, <2>2 DEF IInv, Types
<1>6. LiveListed'
  <2>1. \A c \in DOMAIN conns : conns[c].state # "dead" => c \in Listed \cup Range(Tail(closing)) \cup abandoned
    BY <1>3, <1>4 DEF IInv, LiveListed, Dead
  <2>2. Listed' = Listed
    BY <1>1 DEF Listed, Range
  <2>3. Range(Tail(closing)) \cup abandoned \subseteq Range(closing') \cup abandoned'
    BY <1>2
  <2> QED
    BY <1>1, <2>1, <2>2, <2>3 DEF LiveListed
<1>7. Places' /\ Leaving' /\ Shutdowns' /\ Refusals' /\ MainFaultHasCause'
  BY <1>1, <1>2 DEF IInv, Places, Leaving, Shutdowns, Refusals, MainFaultHasCause, Listed, Range, Dead
<1> QED
  BY <1>5, <1>6, <1>7 DEF IInv

LEMMA DispatchKeeps ==
    ASSUME IInv, NEW d, DispatchRuns(d)
    PROVE  IInv'
<1>1. UNCHANGED <<server, active, userVars, main, mutex, acceptor, protoRev, refusal, connections, conns>>
  BY DEF DispatchRuns
<1>2. Types' /\ LiveListed'
  BY <1>1, ListsStay DEF IInv, Types, userVars
<1> QED
  BY <1>1, <1>2 DEF IInv, Places, Leaving, Shutdowns, Refusals, MainFaultHasCause, Listed, Range, Dead, userVars
-----------------------------------------------------------------------------
(* The server's thread. *)

\* Its steps before it has a connection to add.
LEMMA ServerKeeps ==
    ASSUME IInv, ServerStarts \/ ServerLoops \/ AcceptCalls \/ AcceptReturns
    PROVE  IInv'
<1>1. UNCHANGED <<server, user, closing, abandoned, mutex, protoRev, refusal, connections, conns>>
  BY DEF ServerStarts, ServerLoops, AcceptCalls, AcceptReturns, ServerUnchanged, userVars, retryVars
<1>2. /\ main \in {"start", "loop", "accept", "blocked"} /\ server
      /\ main' \in {"loop", "accept", "blocked", "add", "done", "faulted"}
      /\ active' = active \/ (active' = FALSE /\ main' = "done")
      /\ ~ active /\ main = "loop" => main' = "done"
  <2> server \in BOOLEAN /\ active \in BOOLEAN /\ (main \in {"start", "accept", "blocked"} => server)
    BY DEF IInv, Types, Places
  <2>1. CASE ServerStarts
    BY <2>1 DEF ServerStarts
  <2>2. CASE ServerLoops
    BY <2>2 DEF ServerLoops, NoStream
  <2>3. CASE AcceptCalls
    BY <2>3 DEF AcceptCalls
  <2>4. CASE AcceptReturns
    BY <2>4 DEF AcceptReturns, NoStream
  <2> QED
    BY <2>1, <2>2, <2>3, <2>4
<1>3. /\ acceptor' \in [shutdown : BOOLEAN, listening : BOOLEAN, open : BOOLEAN]
      /\ acceptor'.shutdown = acceptor.shutdown /\ acceptor'.listening = acceptor'.open
      /\ UNCHANGED acceptor \/ main' \in {"loop", "done"}
  BY DEF IInv, Types, Shutdowns, ServerStarts, ServerLoops, AcceptCalls, AcceptReturns
<1>4. /\ main' = "accept" => acceptor.open
      /\ main' = "faulted" => acceptor.shutdown
  BY DEF IInv, Types, Shutdowns, ServerStarts, ServerLoops, AcceptCalls, AcceptReturns, NoStream
<1>5. Types' /\ LiveListed'
  <2>1. active' \in BOOLEAN
    BY <1>2 DEF IInv, Types
  <2> QED
    BY <1>1, <1>3, <2>1, ListsStay DEF IInv, Types
<1>6. user = "idle" => active
  BY <1>2 DEF IInv, Types, Places
<1>7. user \notin {"swap", "close", "join"}
  BY <1>2 DEF IInv, Places
<1>8. Places'
  BY <1>1, <1>2, <1>6, <1>7 DEF IInv, Places
<1>9. Leaving'
  BY <1>1, <1>2, <1>7 DEF IInv, Places, Leaving
<1>10. Shutdowns' /\ MainFaultHasCause'
  BY <1>1, <1>2, <1>3, <1>4 DEF IInv, Shutdowns, MainFaultHasCause
<1>11. Refusals'
  BY <1>1 DEF IInv, Refusals
<1> QED
  BY <1>5, <1>8, <1>9, <1>10, <1>11 DEF IInv

\* What a list holds when a number is put in its place i, or at its end.
LEMMA RangeOfExcept ==
    ASSUME NEW s \in Seq(Nat), NEW i \in DOMAIN s, NEW n \in Nat
    PROVE  /\ [s EXCEPT ![i] = n] \in Seq(Nat)
           /\ Range([s EXCEPT ![i] = n]) \subseteq Range(s) \cup {n}
           /\ Range(s) \cup {n} \subseteq Range([s EXCEPT ![i] = n]) \cup {s[i]}
<1> DEFINE t == [s EXCEPT ![i] = n]
<1>1. t \in Seq(Nat) /\ DOMAIN t = DOMAIN s /\ t[i] = n /\ \A j \in DOMAIN s : j # i => t[j] = s[j]
  BY ExceptSeq
<1> QED
  BY <1>1 DEF Range

LEMMA RangeOfAppend ==
    ASSUME NEW s \in Seq(Nat), NEW n \in Nat
    PROVE  Append(s, n) \in Seq(Nat) /\ Range(Append(s, n)) = Range(s) \cup {n}
<1> DEFINE t == Append(s, n)
<1>1. /\ t \in Seq(Nat) /\ DOMAIN t = DOMAIN s \cup {Len(s) + 1} /\ t[Len(s) + 1] = n
      /\ \A j \in DOMAIN s : t[j] = s[j]
  OBVIOUS
<1> QED
  BY <1>1 DEF Range

\* A new connection, which the new list has with every other that lives.
LEMMA NewOne ==
    ASSUME IInv, NEW rev \in {2, 3}, NewConnection(rev), connections' \in Seq(Nat),
           Len(conns') \in Range(connections)', Range(connections)' \subseteq Range(connections) \cup {Len(conns')},
           \A c \in Range(connections) : c \in Range(connections)' \/ Dead(c),
           UNCHANGED <<server, active, closing, abandoned, acceptor>>, protoRev' \in {2, 3}
    PROVE  /\ Types' /\ LiveListed' /\ Len(conns') = Len(conns) + 1
           /\ \A c \in DOMAIN conns : conns'[c] = conns[c]
<1> DEFINE r == [state |-> "handshake", rev |-> rev, open |-> TRUE, told |-> FALSE, writer |-> "run",
                 reader |-> "handshake"]
<1>1. r \in ConnRecord /\ r.reader # "refused" /\ conns' = Append(conns, r)
  BY DEF ConnRecord, NewConnection
<1> HIDE DEF r
<1>2. /\ conns' \in Seq(ConnRecord) /\ Len(conns') = Len(conns) + 1 /\ Len(conns) \in Nat
      /\ DOMAIN conns' = DOMAIN conns \cup {Len(conns')} /\ conns'[Len(conns')] = r
      /\ \A c \in DOMAIN conns : conns'[c] = conns[c]
  BY <1>1 DEF IInv, Types
<1>3. Types'
  BY <1>1, <1>2 DEF IInv, Types, Listed
<1>4. LiveListed'
  <2> SUFFICES ASSUME NEW c \in DOMAIN conns', conns'[c].state # "dead"
               PROVE  c \in Range(connections)' \cup Range(closing)' \cup abandoned'
    BY DEF LiveListed, Listed
  <2>1. CASE c = Len(conns')
    BY <2>1
  <2>2. CASE c \in DOMAIN conns
    <3>1. c \in Range(connections) \cup Range(closing) \cup abandoned
      BY <1>2, <2>2 DEF IInv, LiveListed, Listed
    <3> QED
      BY <1>2, <2>2, <3>1 DEF Dead, Range
  <2> QED
    BY <1>2, <2>1, <2>2
<1> QED
  BY <1>2, <1>3, <1>4

LEMMA AddConnectionKeeps ==
    ASSUME IInv, AddConnection
    PROVE  IInv'
<1>1. /\ main = "add" /\ main' = "loop" /\ NewConnection(3) /\ server
      /\ UNCHANGED <<server, active, user, closing, abandoned, mutex, acceptor, protoRev, refusal>>
  BY DEF AddConnection, ServerUnchanged, IInv, Places, userVars, retryVars
<1> PICK n : n = Len(conns')
  OBVIOUS
<1>2. n \in Nat /\ connections \in Seq(Nat)
  BY <1>1 DEF IInv, Types, NewConnection
<1>3. /\ connections' \in Seq(Nat) /\ n \in Range(connections)'
      /\ Range(connections)' \subseteq Range(connections) \cup {n}
      /\ \A c \in Range(connections) : c \in Range(connections)' \/ Dead(c)
  <2>1. CASE connections' = Append(connections, n)
    <3>1. connections' \in Seq(Nat) /\ Range(connections') = Range(connections) \cup {n}
      BY <1>2, <2>1, RangeOfAppend
    <3>2. Range(connections)' = Range(connections')
      BY DEF Range
    <3> QED
      BY <3>1, <3>2
  <2>2. CASE \E i \in DOMAIN connections :
               Dead(connections[i]) /\ connections' = [connections EXCEPT ![i] = n]
    <3> PICK i \in DOMAIN connections :
               Dead(connections[i]) /\ connections' = [connections EXCEPT ![i] = n]
      BY <2>2
    <3>1. /\ connections' \in Seq(Nat) /\ Range(connections') \subseteq Range(connections) \cup {n}
          /\ Range(connections) \cup {n} \subseteq Range(connections') \cup {connections[i]}
      BY <1>2, RangeOfExcept
    <3>2. Range(connections)' = Range(connections')
      BY DEF Range
    <3>3. connections'[i] = n /\ i \in DOMAIN connections'
      BY <1>2
    <3>4. n \in Range(connections)'
      BY <3>3 DEF Range
    <3> QED
      BY <3>1, <3>2, <3>4
  <2> QED
    BY <2>1, <2>2 DEF AddConnection
<1>4. /\ Types' /\ LiveListed' /\ Len(conns') = Len(conns) + 1
      /\ \A c \in DOMAIN conns : conns'[c] = conns[c]
  BY <1>1, <1>3, NewOne DEF IInv, Types
<1>5. user \notin {"swap", "close", "join"}
  BY <1>1 DEF IInv, Places
<1>6. Places' /\ Leaving'
  BY <1>1, <1>5 DEF IInv, Places, Leaving
<1>7. Shutdowns' /\ Refusals' /\ MainFaultHasCause'
  BY <1>1 DEF IInv, Shutdowns, Refusals, MainFaultHasCause
<1> QED
  BY <1>4, <1>6, <1>7 DEF IInv
-----------------------------------------------------------------------------
(* The client's thread. *)

LEMMA ClientKeeps ==
    ASSUME IInv, ClientLoops \/ Connect \/ ClientWakes
    PROVE  IInv'
<1>1. UNCHANGED <<server, active, user, closing, abandoned, mutex, acceptor, protoRev, refusal, connections, conns>>
  BY DEF ClientLoops, Connect, ClientWakes, ClientUnchanged, userVars, retryVars
<1>2. /\ main \in {"loop", "connect", "wait"} /\ main' \in {"loop", "connect", "install", "wait", "done"}
      /\ main' = "done" \/ ~ server
      /\ ~ server
  BY DEF IInv, Places, ClientLoops, Connect, ClientWakes
<1>3. Types' /\ LiveListed'
  BY <1>1, ListsStay DEF IInv, Types
<1>4. user \notin {"swap", "close", "join"}
  BY <1>2 DEF IInv, Places
<1>5. user = "idle" => active
  BY <1>2 DEF IInv, Types, Places
<1>6. Places' /\ Leaving' /\ Shutdowns' /\ Refusals' /\ MainFaultHasCause'
  BY <1>1, <1>2, <1>4, <1>5 DEF IInv, Places, Leaving, Shutdowns, Refusals, MainFaultHasCause
<1> QED
  BY <1>3, <1>6 DEF IInv

LEMMA DisconnectKeeps ==
    ASSUME IInv, Disconnect
    PROVE  IInv'
<1>1. /\ main = "install" /\ mutex' = "held" /\ ~ server
      /\ UNCHANGED <<server, active, user, closing, abandoned, acceptor, protoRev, refusal, connections>>
  BY DEF IInv, Places, Disconnect, ClientUnchanged, userVars, retryVars
<1>2. user \notin {"swap", "close", "join"} /\ (user = "idle" => active)
  BY <1>1 DEF IInv, Types, Places
<1>3. Places' /\ Shutdowns' /\ Refusals' /\ MainFaultHasCause'
  BY <1>1, <1>2 DEF IInv, Places, Shutdowns, Refusals, MainFaultHasCause, Disconnect
<1>4. CASE connections = <<>>
  <2>1. UNCHANGED conns /\ main' = "dispose"
    BY <1>4 DEF Disconnect
  <2>2. Types' /\ LiveListed'
    BY <1>1, <2>1, ListsStay DEF IInv, Types
  <2>3. Leaving'
    BY <1>1, <1>2, <1>4, <2>1 DEF IInv, Leaving, Listed, Range
  <2> QED
    BY <1>3, <2>2, <2>3 DEF IInv
<1>5. CASE connections # <<>>
  <2> PICK c : c = connections[1]
    OBVIOUS
  <2>1. Len(connections) = 1 /\ 1 \in DOMAIN connections
    <3>1. connections \in Seq(Nat) /\ Len(connections) <= 1
      BY <1>1 DEF IInv, Types, Leaving
    <3> QED
      BY <1>5, <3>1
  <2>2. Listed = {c} /\ c \in DOMAIN conns
    BY <2>1 DEF IInv, Types, Listed, Range
  <2>3. conns' = Disposed(c) /\ main' = "join"
    BY <1>5 DEF Disconnect
  <2>4. /\ Types' /\ LiveListed' /\ Listed' = Listed /\ Dead(c)'
    BY <1>1, <2>2, <2>3, Disposing
  <2>5. Leaving'
    BY <1>1, <1>2, <1>5, <2>1, <2>2, <2>3, <2>4 DEF IInv, Leaving, Dead
  <2> QED
    BY <1>3, <2>4, <2>5 DEF IInv
<1> QED
  BY <1>4, <1>5

LEMMA DisconnectJoinsKeeps ==
    ASSUME IInv, DisconnectJoins
    PROVE  IInv'
<1>1. /\ main = "join" /\ ~ server
      /\ UNCHANGED <<server, active, user, closing, abandoned, acceptor, protoRev, refusal, connections, conns>>
      /\ \/ main' = "faulted" /\ mutex' = "free" /\ conns[connections[1]].reader = "faulted"
         \/ main' = "dispose" /\ mutex' = mutex
  BY DEF IInv, Places, DisconnectJoins, ClientUnchanged, userVars, retryVars
<1>2. user \notin {"swap", "close", "join"} /\ (user = "idle" => active)
  BY <1>1 DEF IInv, Types, Places
<1>3. Types' /\ LiveListed'
  BY <1>1, ListsStay DEF IInv, Types
<1>4. Places' /\ Shutdowns' /\ Refusals'
  BY <1>1, <1>2 DEF IInv, Places, Shutdowns, Refusals
<1>5. Leaving'
  BY <1>1, <1>2 DEF IInv, Leaving, Listed, Range, Dead
<1>6. MainFaultHasCause'
  <2>1. connections[1] \in Listed
    BY <1>1 DEF IInv, Types, Leaving, Listed, Range
  <2>2. Listed' = Listed
    BY <1>1 DEF Listed, Range
  <2> QED
    BY <1>1, <2>1, <2>2 DEF MainFaultHasCause
<1> QED
  BY <1>3, <1>4, <1>5, <1>6 DEF IInv

LEMMA InstallKeeps ==
    ASSUME IInv, Install
    PROVE  IInv'
<1>1. /\ main = "dispose" /\ ~ server /\ NewConnection(protoRev) /\ connections' = <<Len(conns')>>
      /\ protoRev' = 3 /\ refusal' = FALSE /\ mutex' = "free"
      /\ main' = IF active THEN "wait" ELSE "loop"
      /\ UNCHANGED <<server, active, user, closing, abandoned, acceptor>>
  BY DEF IInv, Places, Install, ClientUnchanged, userVars
<1>2. user \notin {"swap", "close", "join"} /\ (user = "idle" => active)
  BY <1>1 DEF IInv, Types, Places
<1> PICK n : n = Len(conns')
  OBVIOUS
<1>3. n \in Nat
  BY <1>1 DEF IInv, Types, NewConnection
<1>4. connections' \in Seq(Nat) /\ Range(connections)' = {n} /\ Len(connections') = 1
  BY <1>1, <1>3 DEF Range
<1>5. \A c \in Range(connections) : Dead(c)
  BY <1>1 DEF IInv, Leaving, Listed
<1>6. Types' /\ LiveListed'
  BY <1>1, <1>4, <1>5, NewOne DEF IInv, Types
<1>7. Places' /\ Shutdowns' /\ Refusals' /\ MainFaultHasCause'
  BY <1>1, <1>2 DEF IInv, Places, Shutdowns, Refusals, MainFaultHasCause
<1>8. Leaving'
  BY <1>1, <1>2, <1>4 DEF Leaving
<1> QED
  BY <1>6, <1>7, <1>8 DEF IInv
-----------------------------------------------------------------------------
(* The connections' threads. *)

\* What they change is one connection, which does not come back to life.
LEMMA ConnectionKeeps ==
    ASSUME IInv, NEW c \in DOMAIN conns, NEW r \in ConnRecord, conns' = [conns EXCEPT ![c] = r],
           conns[c].state = "dead" => r.state = "dead",
           conns[c].reader = "faulted" => r.reader = "faulted",
           r.reader = "refused" => ~ server,
           ConnUnchanged, protoRev' \in {2, 3}, Refusals'
    PROVE  IInv'
<1>1. UNCHANGED <<server, active, user, closing, abandoned, main, mutex, acceptor, connections>>
  BY DEF ConnUnchanged, userVars
<1>2. /\ Types' /\ LiveListed' /\ Listed' = Listed
      /\ \A d \in DOMAIN conns : Dead(d) => Dead(d)'
      /\ \A d \in DOMAIN conns : conns[d].reader = "faulted" => conns'[d].reader = "faulted"
  BY <1>1, ConnChanges
<1>3. Listed \subseteq DOMAIN conns
  BY DEF IInv, Types
<1>4. user = "join" => Head(closing) \in DOMAIN conns
  <2>1. closing # <<>> /\ closing \in Seq(Nat) => Head(closing) \in Range(closing)
    BY DEF Range
  <2> QED
    BY <2>1 DEF IInv, Types, Leaving
<1>5. Leaving'
  <2>1. user = "join" => Dead(Head(closing))'
    BY <1>1, <1>2, <1>4 DEF IInv, Leaving, Dead
  <2>2. main \in {"join", "dispose"} => \A d \in Listed : Dead(d)'
    BY <1>2, <1>3 DEF IInv, Leaving
  <2> QED
    BY <1>1, <1>2, <2>1, <2>2 DEF IInv, Leaving, Dead
<1>6. MainFaultHasCause'
  BY <1>1, <1>2, <1>3 DEF IInv, MainFaultHasCause
<1>7. Places' /\ Shutdowns'
  BY <1>1 DEF IInv, Places, Shutdowns
<1> QED
  BY <1>2, <1>5, <1>6, <1>7 DEF IInv

\* A reader moves.
LEMMA ReaderMoves ==
    ASSUME IInv, NEW c \in DOMAIN conns,
           NEW place \in {"refused", "failing", "reading", "queueing", "ended", "faulted"},
           NEW state \in {"handshake", "active", "dead"}, Reader(c, place, state),
           conns[c].reader # "faulted", place = "refused" => ~ server,
           ConnUnchanged, protoRev' \in {2, 3}, Refusals'
    PROVE  IInv'
<1> PICK o : o = conns[c]
  OBVIOUS
<1> DEFINE p == [o EXCEPT !.reader = place]
           r == [p EXCEPT !.state = IF @ = "dead" THEN @ ELSE state]
<1>1. o \in ConnRecord
  BY DEF IInv, Types
<1>2. /\ r \in ConnRecord /\ r.reader = place /\ (o.state = "dead" => r.state = "dead")
  <2>1. p \in ConnRecord /\ p.reader = place /\ p.state = o.state
    BY <1>1 DEF ConnRecord
  <2> HIDE DEF p
  <2> QED
    BY <2>1 DEF ConnRecord
<1>3. conns' = [conns EXCEPT ![c] = r]
  BY DEF Reader, IInv, Types
<1> HIDE DEF r
<1> QED
  BY <1>2, <1>3, ConnectionKeeps

LEMMA HandshakeKeeps ==
    ASSUME IInv, NEW c \in DOMAIN conns, Handshake(c)
    PROVE  IInv'
<1>1. ConnUnchanged /\ protoRev' \in {2, 3} /\ Refusals' /\ conns[c].reader # "faulted"
  BY DEF IInv, Types, Refusals, Handshake, retryVars
<1>2. \/ Reader(c, "reading", "active")
      \/ ~ server /\ Reader(c, "refused", "handshake")
      \/ Reader(c, "ended", "dead")
  BY DEF Handshake
<1> QED
  BY <1>1, <1>2, ReaderMoves

\* Only a client is refused, and it is to reconnect with revision 2.
LEMMA RefusedKeeps ==
    ASSUME IInv, NEW c \in DOMAIN conns, Refused(c)
    PROVE  IInv'
<1>1. ConnUnchanged /\ Reader(c, "failing", "handshake") /\ conns[c].reader # "faulted"
  BY DEF Refused
<1>2. protoRev' = 2
  BY DEF IInv, Types, Refused, ClientReconnect
<1> QED
  BY <1>1, <1>2, ReaderMoves DEF Refusals

LEMMA ReaderKeeps ==
    ASSUME IInv, NEW c \in DOMAIN conns, HandshakeFails(c) \/ Receive(c) \/ QueueOutgoing(c)
    PROVE  IInv'
<1>1. ConnUnchanged /\ protoRev' \in {2, 3} /\ Refusals' /\ conns[c].reader # "faulted"
  BY DEF IInv, Types, Refusals, HandshakeFails, Receive, QueueOutgoing, retryVars
<1>2. \/ Reader(c, "ended", "dead")
      \/ Reader(c, "queueing", "active") \/ Reader(c, "faulted", "active")
      \/ Reader(c, "reading", "active")
  BY DEF HandshakeFails, Receive, QueueOutgoing
<1> QED
  BY <1>1, <1>2, ReaderMoves

LEMMA ConnectionEndKeeps ==
    ASSUME IInv, NEW c \in DOMAIN conns, ReaderEnds(c) \/ WriterEnds(c) \/ Lose(c)
    PROVE  IInv'
<1> PICK o : o = conns[c]
  OBVIOUS
<1>1. o \in ConnRecord /\ conns \in Seq(ConnRecord) /\ (o.reader = "refused" => ~ server)
  BY DEF IInv, Types
<1>2. ConnUnchanged /\ protoRev' \in {2, 3} /\ Refusals'
  BY DEF IInv, Types, Refusals, ReaderEnds, WriterEnds, Lose, retryVars
<1>3. CASE ReaderEnds(c)
  <2> DEFINE p == [o EXCEPT !.reader = "ended"]
             q == [p EXCEPT !.state = "dead"]
             r == [q EXCEPT !.told = TRUE]
  <2>1. o.reader # "faulted" /\ conns' = [conns EXCEPT ![c] = r]
    BY <1>1, <1>3 DEF ReaderEnds
  <2>2. p \in ConnRecord /\ p.reader = "ended"
    BY <1>1 DEF ConnRecord
  <2> HIDE DEF p
  <2>3. q \in ConnRecord /\ q.reader = "ended" /\ q.state = "dead"
    BY <2>2 DEF ConnRecord
  <2> HIDE DEF q
  <2>4. r \in ConnRecord /\ r.reader = "ended" /\ r.state = "dead"
    BY <2>3 DEF ConnRecord
  <2> HIDE DEF r
  <2> QED
    BY <1>2, <2>1, <2>4, ConnectionKeeps
<1>4. CASE WriterEnds(c)
  <2> DEFINE p == [o EXCEPT !.writer = "ended"]
             q == [p EXCEPT !.state = "dead"]
             r == [q EXCEPT !.open = FALSE]
  <2>1. conns' = [conns EXCEPT ![c] = r]
    BY <1>1, <1>4 DEF WriterEnds
  <2>2. p \in ConnRecord /\ p.reader = o.reader
    BY <1>1 DEF ConnRecord
  <2> HIDE DEF p
  <2>3. q \in ConnRecord /\ q.reader = o.reader /\ q.state = "dead"
    BY <2>2 DEF ConnRecord
  <2> HIDE DEF q
  <2>4. r \in ConnRecord /\ r.reader = o.reader /\ r.state = "dead"
    BY <2>3 DEF ConnRecord
  <2> HIDE DEF r
  <2> QED
    BY <1>1, <1>2, <2>1, <2>4, ConnectionKeeps
<1>5. CASE Lose(c)
  <2> DEFINE r == [o EXCEPT !.open = FALSE]
  <2>1. conns' = [conns EXCEPT ![c] = r]
    BY <1>1, <1>5 DEF Lose
  <2>2. r \in ConnRecord /\ r.reader = o.reader /\ r.state = o.state
    BY <1>1 DEF ConnRecord
  <2> HIDE DEF r
  <2> QED
    BY <1>1, <1>2, <2>1, <2>2, ConnectionKeeps
<1> QED
  BY <1>3, <1>4, <1>5
-----------------------------------------------------------------------------
LEMMA StepKeeps == IInv /\ [Next]_vars => IInv'
<1> SUFFICES ASSUME IInv, [Next]_vars PROVE IInv'
  OBVIOUS
<1>1. CASE Start
  BY <1>1, StartKeeps
<1>2. CASE Stop \/ StopSteps \/ \E set, over \in BOOLEAN : SetConnector(set, over)
  BY <1>2, UserKeeps, StopSwapsKeeps, StopDisposesKeeps, StopJoinsConnectionKeeps DEF StopSteps
<1>3. CASE \E d \in DOMAIN dispatchers : DispatchRuns(d)
  BY <1>3, DispatchKeeps
<1>4. CASE ServerThreadMain \/ AcceptReturns
  BY <1>4, ServerKeeps, AddConnectionKeeps DEF ServerThreadMain
<1>5. CASE ClientThreadMain
  BY <1>5, ClientKeeps, DisconnectKeeps, DisconnectJoinsKeeps, InstallKeeps DEF ClientThreadMain
<1>6. CASE \E c \in DOMAIN conns : Threads(c) \/ WriterEnds(c) \/ Receive(c) \/ Lose(c)
  <2> PICK c \in DOMAIN conns : Threads(c) \/ WriterEnds(c) \/ Receive(c) \/ Lose(c)
    BY <1>6
  <2> QED
    BY HandshakeKeeps, RefusedKeeps, ReaderKeeps, ConnectionEndKeeps DEF Threads
<1>7. CASE UNCHANGED vars
  <2>1. Types' /\ LiveListed'
    BY <1>7, ListsStay DEF IInv, Types, vars, userVars, retryVars
  <2> QED
    BY <1>7, <2>1 DEF IInv, Places, Leaving, Shutdowns, Refusals, MainFaultHasCause, Listed, Range, Dead,
                      vars, userVars, retryVars
<1> QED
  BY <1>1, <1>2, <1>3, <1>4, <1>5, <1>6, <1>7 DEF Next

\* The state of the dispatcher that the properties below rest on (DispatcherBase.cs): the
\* lists hold connections, and what is about to leave them is dead.
THEOREM DispatcherInvariance == Spec => []IInv
<1> QED
  BY Initially, StepKeeps, PTL DEF Spec

\* No connection that is up drops out of m_connections but into the list that Stop is about to
\* dispose of, whichever places are reused (381-392), for any number of streams and starts; and
\* the server's thread dies only of an Accept that a Shutdown found past its test
\* (TcpAcceptor.cs:88), the client's only of the exception of its old connection's reader (438).
THEOREM NothingLostHolds == Spec => []NothingLost
<1>1. IInv => NothingLost
  BY DEF IInv, NothingLost
<1> QED
  BY <1>1, DispatcherInvariance, PTL

\* The connection that follows a refusal offers revision 2, whatever woke the client's thread and
\* whoever asked for a reconnection in between (445-453, 483).
THEOREM RefusalIsHeededHolds == Spec => RefusalIsHeeded
<1>1. IInv /\ [Next]_vars => [Install /\ refusal => conns'[Len(conns')].rev = 2]_vars
  <2> SUFFICES ASSUME IInv, Install, refusal PROVE conns'[Len(conns')].rev = 2
    OBVIOUS
  <2> DEFINE r == [state |-> "handshake", rev |-> 2, open |-> TRUE, told |-> FALSE, writer |-> "run",
                   reader |-> "handshake"]
  <2>1. conns' = Append(conns, r) /\ conns \in Seq(ConnRecord)
    BY DEF IInv, Types, Refusals, Install, NewConnection
  <2>2. r.rev = 2
    OBVIOUS
  <2> HIDE DEF r
  <2>3. conns'[Len(conns')] = r
    BY <2>1
  <2> QED
    BY <2>2, <2>3
<1> QED
  BY <1>1, DispatcherInvariance, PTL DEF Spec, RefusalIsHeeded
=============================================================================
