----------------------------------- MODULE Rpc ----------------------------------
(***************************************************************************)
(* Remote procedure calls (RpcServer.cs, and the part of Storage.cs that   *)
(* makes calls and waits for results): callers on the server itself and    *)
(* on its clients, one procedure, answered by the server's callback thread *)
(* or polled for by the user, and threads that wait for results.           *)
(*                                                                         *)
(* What holds RpcServer's m_lockObject or a Storage's m_monitor is one     *)
(* step.  Both caller and server release the monitor before they send, so  *)
(* messages on their way to the server are a set.  A request or a response *)
(* is the number of its call; only the connection, and the 16-bit uid that *)
(* a caller counts up, are read from it.  The dictionary m_responseMap,    *)
(* which PostRpcResponse uses without the lock, is taken to survive it.    *)
(***************************************************************************)
EXTENDS Integers, Sequences, FiniteSets

CONSTANTS
    Callers,       \* 0 is the server, the others are its clients
    Kinds,         \* what the procedure may be: with a callback (FALSE), polled (TRUE)
    Getters, Posters,             \* the users' threads
    UidCount,      \* 65536 in the code
    MaxCalls, MaxLosses, MaxStarts, MaxCancels   \* bounds

Server == 0
Clients == Callers \ {Server}

ASSUME RpcAssumption ==
    /\ IsFiniteSet(Callers) /\ Clients = 1 .. Cardinality(Clients) /\ Kinds \subseteq BOOLEAN
    /\ UidCount \in Nat \ {0} /\ {MaxCalls, MaxLosses, MaxStarts, MaxCancels} \subseteq Nat

VARIABLES
    polled,       \* the procedure has no callback: CreatePolledRpc
    calls,        \* every call made: caller, connection, uid, answers: none, one or more (history)
    uids,         \* entry.RpcCallUid, at each caller
    conn, losses, \* NetworkConnection.Uid of each client's connection; a bound
    sent, back,   \* requests under way; responses queued for each client
    results,      \* m_rpcResults of each caller: uid and whose response it is
    blocking,     \* m_blockingRpcCalls of each caller
    getters,      \* the threads in GetRpcResult
    leaked,       \* the uids of cancelled waits (history)
    active, threads, thread,   \* Active; the callback threads, and m_thread
    starter, stopper,          \* the threads in Start and in Stop
    callQueue, pollQueue,
    responses,    \* m_responseMap: the key, and the call whose SendResponse it is
    taken,        \* the calls PollRpc returned (history)
    poller, posters,           \* the threads in PollRpc and PostRpcResponse
    faults        \* the exceptions thrown by Dictionary.Add (history)

callerVars == <<polled, calls, uids, conn, losses>>
getVars == <<getters, blocking, leaked>>
threadVars == <<active, threads, thread, starter, stopper>>
pollVars == <<responses, taken, poller, posters>>
vars == <<callerVars, sent, back, results, getVars, threadVars, callQueue, pollQueue, pollVars, faults>>

Uids == 0 .. UidCount - 1
Calls == 1 .. MaxCalls
Conns == 0 .. Cardinality(Clients) + MaxLosses

TypeOK ==
    /\ polled \in Kinds
    /\ calls \in Seq([by : Callers, conn : Conns, uid : Uids, answers : 0 .. 2])
    /\ uids \in [Callers -> Uids] /\ conn \in [Clients -> Conns] /\ losses \in 0 .. MaxLosses
    /\ sent \subseteq Calls /\ back \in [Clients -> Seq(Calls)]
    /\ results \in [Callers -> SUBSET [uid : Uids, call : Calls]]
    /\ blocking \in [Callers -> SUBSET Uids]
    /\ getters \in [Getters -> [at : {"out", "waiting"}, call : Calls \cup {0}, woken : BOOLEAN,
                                kind : {"timed", "forever", "async"}, got : Calls \cup {0}]]
    /\ leaked \in SUBSET (Callers \X Uids)
    /\ active \in BOOLEAN
    /\ threads \in Seq([at : {"run", "wait", "calling", "ended", "faulted"}, woken : BOOLEAN,
                        call : Calls \cup {0}])
    /\ thread \in 0 .. Len(threads) /\ Len(threads) <= MaxStarts
    /\ starter \in BOOLEAN /\ stopper \in {"idle", "notify", "join"}
    /\ callQueue \in Seq(Calls) /\ pollQueue \in Seq(Calls)
    /\ responses \subseteq [conn : Conns, uid : Uids, call : Calls] /\ taken \subseteq Calls
    /\ poller \in [at : {"out", "waiting"}, woken : BOOLEAN]
    /\ posters \in [Posters -> [at : {"out", "found", "sent"}, call : Calls \cup {0}, to : Calls \cup {0}]]
    /\ faults \subseteq [who : {"main", "poll", "post", "reader"}, call : Calls]

Out == [at |-> "out", call |-> 0, woken |-> FALSE, kind |-> "timed", got |-> 0]

Init ==
    /\ polled \in Kinds
    /\ calls = <<>> /\ uids = [c \in Callers |-> 0]
    /\ conn = [c \in Clients |-> c - 1] /\ losses = 0
    /\ sent = {} /\ back = [c \in Clients |-> <<>>]
    /\ results = [c \in Callers |-> {}] /\ blocking = [c \in Callers |-> {}]
    /\ getters = [g \in Getters |-> Out] /\ leaked = {}
    /\ active = FALSE /\ threads = <<>> /\ thread = 0 /\ starter = FALSE /\ stopper = "idle"
    /\ callQueue = <<>> /\ pollQueue = <<>> /\ responses = {} /\ taken = {}
    /\ poller = [at |-> "out", woken |-> FALSE]
    /\ posters = [p \in Posters |-> [at |-> "out", call |-> 0, to |-> 0]] /\ faults = {}
-----------------------------------------------------------------------------
(* Calls and their way to the server. *)

NextUid(uid) == (uid + 1) % UidCount

\* The server's own calls have the connection 0xffff, for which PollRpc writes
\* the bits of connection 0.
CallRpc(c) ==
    /\ Len(calls) < MaxCalls
    /\ uids' = [uids EXCEPT ![c] = NextUid(@)]
    /\ calls' = Append(calls, [by |-> c, conn |-> IF c = Server THEN 0 ELSE conn[c],
                               uid |-> uids'[c], answers |-> 0])
    /\ sent' = sent \cup {Len(calls')}
    /\ UNCHANGED <<polled, conn, losses, back, results, getVars, threadVars, callQueue, pollQueue, pollVars, faults>>

\* ProcessRpc, notifying the other condition
ProcessNotifiesOther(k) ==
    /\ k \in sent
    /\ sent' = sent \ {k}
    /\ IF polled THEN pollQueue' = Append(pollQueue, k) /\ UNCHANGED callQueue
                 ELSE callQueue' = Append(callQueue, k) /\ UNCHANGED pollQueue
    /\ UNCHANGED <<callerVars, back, results, getVars, threadVars, pollVars, faults>>

\* ProcessRpc, called by Storage.CallRpc or by the connection's reader
ProcessRpc(k) ==
    /\ k \in sent
    /\ sent' = sent \ {k}
    /\ IF polled
       THEN /\ pollQueue' = Append(pollQueue, k)
            /\ poller' = [poller EXCEPT !.woken = poller.at = "waiting"]
            /\ UNCHANGED <<callQueue, threads>>
       ELSE /\ callQueue' = Append(callQueue, k)
            /\ threads' = [t \in DOMAIN threads |->
                             [threads[t] EXCEPT !.woken = @ \/ threads[t].at = "wait"]]
            /\ UNCHANGED <<pollQueue, poller>>
    /\ UNCHANGED <<callerVars, back, results, getVars, active, thread, starter, stopper,
                   responses, taken, posters, faults>>

\* A stream breaks, what is under way is lost, and the client connects again.
\* connWeak keeps a response from the new connection.
Reconnect(c) ==
    /\ losses < MaxLosses
    /\ losses' = losses + 1
    /\ conn' = [conn EXCEPT ![c] = Cardinality(Clients) + losses]
    /\ sent' = {k \in sent : calls[k].by # c}
    /\ back' = [back EXCEPT ![c] = <<>>]
    /\ UNCHANGED <<polled, calls, uids, results, getVars, threadVars, callQueue, pollQueue, pollVars, faults>>

\* m_rpcResults.Add and PulseAll
AddResult(c, k) ==
    /\ results' = [results EXCEPT ![c] = @ \cup {[uid |-> calls[k].uid, call |-> k]}]
    /\ getters' = [g \in Getters |->
                     IF getters[g].at = "waiting" /\ calls[getters[g].call].by = c
                     THEN [getters[g] EXCEPT !.woken = TRUE] ELSE getters[g]]

HasResult(c, uid) == \E r \in results[c] : r.uid = uid

\* The SendResponse of call "to" is given the response to call k.  It throws where
\* the result is added at once and there is one already.
Throws(k, to) == calls[to].by = Server /\ HasResult(Server, calls[k].uid)

SendResponse(k, to) ==
    /\ calls' = [calls EXCEPT ![k].answers = IF @ = 0 THEN 1 ELSE 2]
    /\ LET c == calls[to].by
       IN IF c = Server
          THEN /\ UNCHANGED back
               /\ IF Throws(k, to) THEN UNCHANGED <<results, getters>> ELSE AddResult(c, k)
          ELSE /\ UNCHANGED <<results, getters>>
               /\ back' = IF conn[c] = calls[to].conn THEN [back EXCEPT ![c] = Append(@, k)] ELSE back
    /\ UNCHANGED <<polled, uids, conn, losses, sent, blocking, leaked>>

FaultIf(throws, who, k) == faults' = IF throws THEN faults \cup {[who |-> who, call |-> k]} ELSE faults

\* ProcessIncoming(RpcResponse) at the client, whose reader ends when Add throws
ReceiveResponse(c) ==
    /\ back[c] # <<>> /\ ~ \E f \in faults : f.who = "reader" /\ calls[f.call].conn = conn[c]
    /\ LET k == Head(back[c])
       IN /\ FaultIf(HasResult(c, calls[k].uid), "reader", k)
          /\ IF HasResult(c, calls[k].uid) THEN UNCHANGED <<results, getters>> ELSE AddResult(c, k)
    /\ back' = [back EXCEPT ![c] = Tail(@)]
    /\ UNCHANGED <<callerVars, sent, blocking, leaked, threadVars, callQueue, pollQueue, pollVars>>
-----------------------------------------------------------------------------
(* The callback thread, Start and Stop. *)

\* CreateRpc, under m_monitor, calls Start: Active is set, then the thread made
Start ==
    /\ ~ polled /\ ~ starter /\ ~ active /\ Len(threads) < MaxStarts
    /\ active' = TRUE /\ starter' = TRUE
    /\ UNCHANGED <<callerVars, sent, back, results, getVars, threads, thread, stopper, callQueue,
                   pollQueue, pollVars, faults>>

StartThread ==
    /\ starter
    /\ starter' = FALSE
    /\ threads' = Append(threads, [at |-> "run", woken |-> FALSE, call |-> 0])
    /\ thread' = Len(threads')
    /\ UNCHANGED <<callerVars, sent, back, results, getVars, active, stopper, callQueue, pollQueue,
                   pollVars, faults>>

StopUnchanged ==
    UNCHANGED <<callerVars, sent, back, results, getVars, thread, starter, callQueue, pollQueue,
                pollVars, faults>>

Stop ==
    /\ stopper = "idle" /\ ~ polled
    /\ active' = FALSE
    /\ stopper' = IF thread = 0 THEN "idle" ELSE "notify"
    /\ StopUnchanged /\ UNCHANGED threads

StopNotifies ==
    /\ stopper = "notify"
    /\ threads' = [t \in DOMAIN threads |-> [threads[t] EXCEPT !.woken = @ \/ threads[t].at = "wait"]]
    /\ stopper' = "join"
    /\ StopUnchanged /\ UNCHANGED active

\* the exception of a thread that faulted is thrown here
StopJoins ==
    /\ stopper = "join" /\ threads[thread].at \in {"ended", "faulted"}
    /\ stopper' = "idle"
    /\ StopUnchanged /\ UNCHANGED <<active, threads>>

ThreadIs(t, place, k) == threads' = [threads EXCEPT ![t] = [at |-> place, woken |-> FALSE, call |-> k]]

\* ThreadMain's two loops, up to a wait or a callback
MainRuns(t) ==
    /\ threads[t].at = "run"
    /\ CASE ~ active -> ThreadIs(t, "ended", 0) /\ UNCHANGED callQueue
         [] active /\ callQueue = <<>> -> ThreadIs(t, "wait", 0) /\ UNCHANGED callQueue
         [] OTHER -> ThreadIs(t, "calling", Head(callQueue)) /\ callQueue' = Tail(callQueue)
    /\ UNCHANGED <<callerVars, sent, back, results, getVars, active, thread, starter, stopper,
                   pollQueue, pollVars, faults>>

MainWakes(t) ==
    /\ threads[t].at = "wait" /\ threads[t].woken
    /\ ThreadIs(t, IF active THEN "run" ELSE "ended", 0)
    /\ UNCHANGED <<callerVars, sent, back, results, getVars, active, thread, starter, stopper,
                   callQueue, pollQueue, pollVars, faults>>

\* item.Func returns and the response is sent, or it throws and ends the thread
CallbackReturns(t) ==
    /\ threads[t].at = "calling"
    /\ LET k == threads[t].call
       IN /\ SendResponse(k, k)
          /\ FaultIf(Throws(k, k), "main", k)
          /\ ThreadIs(t, IF Throws(k, k) THEN "faulted" ELSE "run", 0)
    /\ UNCHANGED <<active, thread, starter, stopper, callQueue, pollQueue, pollVars>>

CallbackThrows(t) ==
    /\ threads[t].at = "calling"
    /\ ThreadIs(t, "faulted", 0)
    /\ UNCHANGED <<callerVars, sent, back, results, getVars, active, thread, starter, stopper,
                   callQueue, pollQueue, pollVars, faults>>
-----------------------------------------------------------------------------
(* The polled procedure. *)

\* the key that PollRpc makes of the connection and the uid
KeyOf(k) == [conn |-> calls[k].conn, uid |-> calls[k].uid]
Entered(key) == \E r \in responses : r.conn = key.conn /\ r.uid = key.uid

Keyed(k) == [conn |-> KeyOf(k).conn, uid |-> KeyOf(k).uid, call |-> k]
WithoutKey(key) == {r \in responses : r.conn # key.conn \/ r.uid # key.uid}

\* PollRpc, with an assignment for Add
PollOverwrites ==
    /\ polled
    /\ poller.at = "out" \/ poller.woken
    /\ IF pollQueue = <<>>
       THEN /\ poller' = [at |-> "waiting", woken |-> FALSE]
            /\ UNCHANGED <<pollQueue, responses, taken>>
       ELSE LET k == Head(pollQueue)
            IN /\ pollQueue' = Tail(pollQueue)
               /\ poller' = [at |-> "out", woken |-> FALSE]
               /\ responses' = WithoutKey(KeyOf(k)) \cup {Keyed(k)}
               /\ taken' = taken \cup {k}
    /\ UNCHANGED <<callerVars, sent, back, results, getVars, threadVars, callQueue, posters, faults>>

\* PollRpc takes a call, or is left waiting; the call is gone when Add throws
PollRpc ==
    /\ polled
    /\ poller.at = "out" \/ poller.woken
    /\ IF pollQueue = <<>>
       THEN /\ poller' = [at |-> "waiting", woken |-> FALSE]
            /\ UNCHANGED <<pollQueue, responses, taken, faults>>
       ELSE LET k == Head(pollQueue)
                throws == Entered(KeyOf(k))
            IN /\ pollQueue' = Tail(pollQueue)
               /\ poller' = [at |-> "out", woken |-> FALSE]
               /\ FaultIf(throws, "poll", k)
               /\ responses' = IF throws THEN responses ELSE responses \cup {Keyed(k)}
               /\ taken' = IF throws THEN taken ELSE taken \cup {k}
    /\ UNCHANGED <<callerVars, sent, back, results, getVars, threadVars, callQueue, posters>>

PollTimesOut ==
    /\ poller.at = "waiting"
    /\ poller' = [at |-> "out", woken |-> FALSE]
    /\ UNCHANGED <<callerVars, sent, back, results, getVars, threadVars, callQueue, pollQueue,
                   responses, taken, posters, faults>>

Idle == [at |-> "out", call |-> 0, to |-> 0]

\* PostRpcResponse: TryGetValue, func, Remove, with no lock
PostRpcResponse(p, k) ==
    /\ posters[p].at = "out" /\ k \in taken
    /\ \E r \in responses :
         /\ r.conn = KeyOf(k).conn /\ r.uid = KeyOf(k).uid
         /\ posters' = [posters EXCEPT ![p] = [at |-> "found", call |-> k, to |-> r.call]]
    /\ UNCHANGED <<callerVars, sent, back, results, getVars, threadVars, callQueue, pollQueue,
                   responses, taken, poller, faults>>

PostSends(p) ==
    /\ posters[p].at = "found"
    /\ LET k == posters[p].call
           to == posters[p].to
       IN /\ SendResponse(k, to)
          /\ FaultIf(Throws(k, to), "post", k)
          /\ posters' = [posters EXCEPT ![p] = IF Throws(k, to) THEN Idle ELSE [@ EXCEPT !.at = "sent"]]
    /\ UNCHANGED <<threadVars, callQueue, pollQueue, responses, taken, poller>>

PostRemoves(p) ==
    /\ posters[p].at = "sent"
    /\ responses' = WithoutKey(KeyOf(posters[p].call))
    /\ posters' = [posters EXCEPT ![p] = Idle]
    /\ UNCHANGED <<callerVars, sent, back, results, getVars, threadVars, callQueue, pollQueue,
                   taken, poller, faults>>
-----------------------------------------------------------------------------
(* GetRpcResult and GetRpcResultAsync. *)

Caller(g) == calls[getters[g].call].by
UidOf(g) == calls[getters[g].call].uid

GetUnchanged ==
    UNCHANGED <<callerVars, sent, back, results, threadVars, callQueue, pollQueue, pollVars, faults>>

GotFrom(c, uid) == (CHOOSE r \in results[c] : r.uid = uid).call

\* Nothing is returned for a uid that is being waited for.
GetRpcResult(g, k, kind) ==
    LET c == calls[k].by
        uid == calls[k].uid
    IN /\ getters[g].at = "out"
       /\ getters' = [getters EXCEPT ![g] =
             CASE uid \in blocking[c] -> Out
               [] uid \notin blocking[c] /\ HasResult(c, uid) ->
                    [Out EXCEPT !.call = k, !.got = GotFrom(c, uid)]
               [] OTHER -> [Out EXCEPT !.at = "waiting", !.call = k, !.kind = kind]]
       /\ blocking' = IF HasResult(c, uid) THEN blocking ELSE [blocking EXCEPT ![c] = @ \cup {uid}]
       /\ UNCHANGED leaked /\ GetUnchanged

\* GetEnds, without m_blockingRpcCalls.Remove
GetEndsBlocked(g, got) ==
    /\ getters' = [getters EXCEPT ![g] =
                     IF got = 0 THEN Out ELSE [Out EXCEPT !.call = getters[g].call, !.got = got]]
    /\ UNCHANGED blocking

GetEnds(g, got) ==
    /\ getters' = [getters EXCEPT ![g] =
                     IF got = 0 THEN Out ELSE [Out EXCEPT !.call = getters[g].call, !.got = got]]
    /\ blocking' = [blocking EXCEPT ![Caller(g)] = @ \ {UidOf(g)}]

\* the monitor was pulsed
GetterWakes(g) ==
    /\ getters[g].at = "waiting" /\ getters[g].woken
    /\ IF HasResult(Caller(g), UidOf(g))
       THEN GetEnds(g, GotFrom(Caller(g), UidOf(g)))
       ELSE getters' = [getters EXCEPT ![g].woken = FALSE] /\ UNCHANGED blocking
    /\ UNCHANGED leaked /\ GetUnchanged

GetterTimesOut(g) ==
    /\ getters[g].at = "waiting" /\ getters[g].kind = "timed"
    /\ GetEnds(g, 0)
    /\ UNCHANGED leaked /\ GetUnchanged

\* A token cancelled before the pulse has WaitAsync throw, and the catch leaves
\* m_blockingRpcCalls as it is.
GetterCancelled(g) ==
    /\ getters[g].at = "waiting" /\ getters[g].kind = "async"
    /\ \/ getters[g].woken /\ GetEnds(g, 0) /\ UNCHANGED leaked
       \/ /\ ~ getters[g].woken /\ Cardinality(leaked) < MaxCancels
          /\ getters' = [getters EXCEPT ![g] = Out]
          /\ leaked' = leaked \cup {<<Caller(g), UidOf(g)>>}
          /\ UNCHANGED blocking
    /\ GetUnchanged
-----------------------------------------------------------------------------
StopSteps == StopNotifies \/ StopJoins
Main(t) == MainRuns(t) \/ MainWakes(t) \/ CallbackReturns(t)

Next ==
    \/ \E c \in Callers : CallRpc(c)
    \/ \E k \in DOMAIN calls : ProcessRpc(k)
    \/ \E c \in Clients : Reconnect(c) \/ ReceiveResponse(c)
    \/ Start \/ StartThread \/ Stop \/ StopSteps
    \/ \E t \in DOMAIN threads : Main(t) \/ CallbackThrows(t)
    \/ PollRpc \/ PollTimesOut
    \/ \E p \in Posters : PostSends(p) \/ PostRemoves(p) \/ \E k \in taken : PostRpcResponse(p, k)
    \/ \E g \in Getters : \/ \E k \in DOMAIN calls, kind \in {"timed", "forever", "async"} :
                               GetRpcResult(g, k, kind)
                          \/ GetterWakes(g) \/ GetterTimesOut(g) \/ GetterCancelled(g)

Spec == Init /\ [][Next]_vars

\* Messages arrive, threads that are awake run and callbacks return.
Fairness ==
    /\ \A k \in Calls : WF_vars(k \in DOMAIN calls /\ ProcessRpc(k))
    /\ \A c \in Clients : WF_vars(ReceiveResponse(c))
    /\ WF_vars(StartThread) /\ WF_vars(StopSteps)
    /\ \A t \in 1 .. MaxStarts : WF_vars(t \in DOMAIN threads /\ Main(t))
    /\ WF_vars(poller.woken /\ PollRpc)
    /\ \A g \in Getters : WF_vars(GetterWakes(g))

FairSpec == Spec /\ Fairness
-----------------------------------------------------------------------------
\* Another call of the same caller has k's uid: 65536 calls, as nothing removes an
\* old result.
Repeated(k) == \E j \in DOMAIN calls : j # k /\ calls[j].by = calls[k].by /\ calls[j].uid = calls[k].uid

\* A thread that waits for a call's result gets the answer to that call, whatever
\* other callers, lost connections, and late or cancelled waits there are, until
\* the uids come round, its own or those of the call it gets the answer to, or an
\* answer is given twice (Storage.cs:1077-1079, 1180-1226; RpcServer.cs:185-196).
ResultIsOwn ==
    \A g \in Getters : getters[g].got # 0 =>
        \/ getters[g].got = getters[g].call
        \/ Repeated(getters[g].call) \/ Repeated(getters[g].got)
        \/ calls[getters[g].got].answers > 1

\* Connection 0 and the server itself make the same keys (RpcServer.cs:185-189).
Alias(k) == \E j \in DOMAIN calls :
    j # k /\ calls[j].by # calls[k].by /\ KeyOf(j) = KeyOf(k) /\ Server \in {calls[j].by, calls[k].by}

\* No thread dies of adding a result or a response twice (Storage.cs:443, 1092;
\* RpcServer.cs:196), but for repeated uids, double answers, and calls of connection
\* 0 that the server's own are taken for.
FaultHasCause ==
    \A f \in faults : Repeated(f.call) \/ Alias(f.call) \/ calls[f.call].answers > 1

\* A uid in m_blockingRpcCalls has a thread waiting for it, and one only: a wait
\* however ended lets the next one in, save a wait that was cancelled (1119, 1150).
BlockingIsWaited ==
    \A c \in Callers : \A uid \in Uids :
        LET waiting == {g \in Getters : getters[g].at = "waiting" /\ Caller(g) = c /\ UidOf(g) = uid}
        IN /\ Cardinality(waiting) <= 1
           /\ waiting # {} => uid \in blocking[c]
           /\ uid \in blocking[c] => waiting # {} \/ <<c, uid>> \in leaked

\* A thread that waits returns once there is a result for it: the pulse is not lost
\* between its test and its wait (1123-1131, 1183-1209).
ResultEndsWait ==
    \A g \in Getters :
        getters[g].at = "waiting" /\ HasResult(Caller(g), UidOf(g)) ~> getters[g].at = "out"

\* A call given to a running callback thread is answered, unless a callback throws:
\* then Active stays TRUE and no Start makes another thread (RpcServer.cs:53-63).
CallIsAnswered ==
    \A k \in Calls : (\E i \in DOMAIN callQueue : callQueue[i] = k) /\ active
        ~> (k \in DOMAIN calls /\ calls[k].answers > 0) \/ ~ active
             \/ \E t \in DOMAIN threads : threads[t].at = "faulted"

\* Stop returns, unless a procedure is created meanwhile: Start then sets Active
\* again, which is all that the thread tests when it is woken (65-78, 236-237).
StopReturns == stopper # "idle" ~> stopper = "idle" \/ active

\* A poll that waits is woken by a call (80-98, 149-183).
PollReturns == poller.at = "waiting" /\ pollQueue # <<>> ~> poller.at = "out"

\* "nonexistent call (or duplicate response)" (RpcServer.cs:210): a second response
\* to a call is not sent.
AnsweredOnce == \A k \in DOMAIN calls : calls[k].answers <= 1
=============================================================================
