-------------------------------- MODULE DsClient -------------------------------
(***************************************************************************)
(* The native library's driver station client (DsClient.cpp): a thread     *)
(* that asks the driver station on this machine for the robot's address    *)
(* and has the dispatcher connect to it, and the user's Start and Stop.    *)
(*                                                                         *)
(* Start and Stop hold m_mutex, the thread only while it takes the port:   *)
(* m_stream is assigned by the thread and used by Stop with nothing        *)
(* between them.  wpi::SafeThreadOwner is not in the repository; Detaches  *)
(* says whether its Stop leaves the thread to end by itself or waits for   *)
(* it.  How a message is parsed, and the messages without a robot address, *)
(* are left out: a message is an address, 0 for no robot.                  *)
(***************************************************************************)
EXTENDS Integers, Sequences

CONSTANTS
    Addresses, Ports,       \* the robots' addresses, the ports given to Start
    Detaches,               \* SafeThreadOwner's Stop does not wait for the thread
    MaxThreads, MaxNews     \* bounds on the threads started and the station's changes

VARIABLES
    threads,    \* every thread there was: where it is, m_active, its locals and stream
    current,    \* the thread m_owner has, or 0
    stopper,    \* where the user's Stop is
    port,       \* m_port
    asked,      \* the port given to the last Start (history)
    override,   \* the dispatcher's connector override: address and port, or None
    station,    \* the driver station: off, or the address it tells
    news        \* how often the station changed

vars == <<threads, current, stopper, port, asked, override, station, news>>

None == [ip |-> 0, port |-> 0]
Off == [on |-> FALSE, ip |-> 0]
On(ip) == [on |-> TRUE, ip |-> ip]

Places == {"sleep", "connect", "check", "read", "set", "drop", "clear", "done", "ended"}

TypeOK ==
    /\ threads \in Seq([at : Places, active : BOOLEAN, oldip : Addresses \cup {0},
                        port : Ports \cup {0}, stream : {"null", "open", "closed"}])
    /\ Len(threads) <= MaxThreads /\ current \in 0 .. Len(threads)
    /\ stopper \in {"idle", "find", "close", "owner"}
    /\ port \in Ports \cup {0} /\ asked \in Ports \cup {0}
    /\ override \in [ip : Addresses \cup {0}, port : Ports \cup {0}]
    /\ station \in [on : BOOLEAN, ip : Addresses \cup {0}]
    /\ news \in 0 .. MaxNews

Init ==
    /\ threads = <<>> /\ current = 0 /\ stopper = "idle"
    /\ port = 0 /\ asked = 0 /\ override = None /\ station = Off /\ news = 0
-----------------------------------------------------------------------------
(* The user. *)

Start(p) ==
    /\ stopper = "idle"
    /\ asked' = p /\ port' = p
    /\ IF current # 0 THEN UNCHANGED <<threads, current>>
       ELSE /\ Len(threads) < MaxThreads
            /\ threads' = Append(threads, [at |-> "sleep", active |-> TRUE, oldip |-> 0,
                                           port |-> 0, stream |-> "null"])
            /\ current' = Len(threads) + 1
    /\ UNCHANGED <<stopper, override, station, news>>

Stop ==
    /\ stopper = "idle" /\ current # 0
    /\ threads' = [threads EXCEPT ![current].active = FALSE]
    /\ stopper' = "find"
    /\ UNCHANGED <<current, port, asked, override, station, news>>

\* if (thr->m_stream) ...
StopFinds ==
    /\ stopper = "find"
    /\ stopper' = IF threads[current].stream = "null" THEN "owner" ELSE "close"
    /\ UNCHANGED <<threads, current, port, asked, override, station, news>>

\* ... thr->m_stream->close(), which does no good when the thread has let it go
StopCloses ==
    /\ stopper = "close"
    /\ threads' = [threads EXCEPT ![current].stream = IF @ = "open" THEN "closed" ELSE @]
    /\ stopper' = "owner"
    /\ UNCHANGED <<current, port, asked, override, station, news>>

\* m_owner.Stop()
StopOwner ==
    /\ stopper = "owner"
    /\ Detaches \/ threads[current].at = "ended"
    /\ current' = 0 /\ stopper' = "idle"
    /\ UNCHANGED <<threads, port, asked, override, station, news>>
-----------------------------------------------------------------------------
(* Thread::Main. *)

At(t, place) == threads[t].at = place
Goto(t, place) == threads' = [threads EXCEPT ![t].at = place]
UserUnchanged == UNCHANGED <<current, stopper, port, asked, station, news>>

\* the wait, and the port taken
Wake(t) ==
    /\ At(t, "sleep")
    /\ threads' = [threads EXCEPT ![t].port = port,
                                  ![t].at = IF threads[t].active THEN "connect" ELSE "done"]
    /\ UserUnchanged /\ UNCHANGED override

Connect(t) ==
    /\ At(t, "connect")
    /\ threads' = [threads EXCEPT ![t].at = "check",
                                  ![t].stream = IF station.on THEN "open" ELSE "null"]
    /\ UserUnchanged /\ UNCHANGED override

\* the tests after connecting
Check(t) ==
    /\ At(t, "check")
    /\ Goto(t, IF ~ threads[t].active THEN "done"
               ELSE IF threads[t].stream = "null" THEN "sleep" ELSE "read")
    /\ UserUnchanged /\ UNCHANGED override

ClearServerOverride == override' = None

\* a message, with the test of m_active that follows each character
Read(t) ==
    /\ At(t, "read") /\ threads[t].stream = "open"
    /\ IF ~ threads[t].active THEN Goto(t, "done") /\ UNCHANGED override
       ELSE IF station.ip = 0
       THEN ClearServerOverride /\ threads' = [threads EXCEPT ![t].oldip = 0]
       ELSE /\ station.ip # threads[t].oldip
            /\ threads' = [threads EXCEPT ![t].oldip = station.ip, ![t].at = "set"]
            /\ UNCHANGED override
    /\ UserUnchanged

SetServerOverride(t) ==
    /\ At(t, "set")
    /\ override' = [ip |-> threads[t].oldip, port |-> threads[t].port]
    /\ Goto(t, "read")
    /\ UserUnchanged

\* the read fails: the station is gone or the stream was closed
ReadFails(t) ==
    /\ At(t, "read") /\ (threads[t].stream = "closed" \/ ~ station.on)
    /\ Goto(t, "drop")
    /\ UserUnchanged /\ UNCHANGED override

\* m_stream = nullptr
Drop(t) ==
    /\ At(t, "drop")
    /\ threads' = [threads EXCEPT ![t].at = "clear", ![t].stream = "null"]
    /\ UserUnchanged /\ UNCHANGED override

\* Disconnected, keeping oldip
DisconnectedKeepsIp(t) ==
    /\ At(t, "clear")
    /\ ClearServerOverride
    /\ Goto(t, IF threads[t].active THEN "sleep" ELSE "done")
    /\ UserUnchanged

Disconnected(t) ==
    /\ At(t, "clear")
    /\ ClearServerOverride
    /\ threads' = [threads EXCEPT ![t].oldip = 0,
                                  ![t].at = IF threads[t].active THEN "sleep" ELSE "done"]
    /\ UserUnchanged

Done(t) ==
    /\ At(t, "done")
    /\ ClearServerOverride
    /\ Goto(t, "ended")
    /\ UserUnchanged
-----------------------------------------------------------------------------
StationChanges(to) ==
    /\ news < MaxNews /\ to # station
    /\ station' = to /\ news' = news + 1
    /\ threads' = IF to.on THEN threads
                  ELSE [t \in DOMAIN threads |->
                          IF threads[t].stream = "open" THEN [threads[t] EXCEPT !.stream = "closed"]
                          ELSE threads[t]]
    /\ UNCHANGED <<current, stopper, port, asked, override>>

Main(t) ==
    \/ Wake(t) \/ Connect(t) \/ Check(t) \/ SetServerOverride(t)
    \/ ReadFails(t) \/ Drop(t) \/ Disconnected(t) \/ Done(t)

Next ==
    \/ \E p \in Ports : Start(p)
    \/ Stop \/ StopFinds \/ StopCloses \/ StopOwner
    \/ \E t \in DOMAIN threads : Main(t) \/ Read(t)
    \/ \E ip \in Addresses \cup {0} : StationChanges(On(ip))
    \/ StationChanges(Off)

Spec == Init /\ [][Next]_vars

\* Threads run, and a station that has a new address tells it.  It need not
\* repeat itself: a read may otherwise block until the stream is closed.
Fairness ==
    /\ WF_vars(StopFinds) /\ WF_vars(StopCloses) /\ WF_vars(StopOwner)
    /\ \A t \in 1 .. MaxThreads :
         /\ WF_vars(t \in DOMAIN threads /\ Main(t))
         /\ WF_vars(t \in DOMAIN threads /\ station.ip # threads[t].oldip /\ Read(t))

FairSpec == Spec /\ Fairness
-----------------------------------------------------------------------------
Is(t) == t \in DOMAIN threads

\* A thread told to stop ends, wherever Stop found it: it either sees that it is
\* inactive or has its stream closed (DsClient.cpp:44-54 against 73-75).
StopEndsThread ==
    \A t \in 1 .. MaxThreads : Is(t) /\ ~ threads[t].active ~> Is(t) /\ At(t, "ended")

Target == IF current # 0 /\ stopper = "idle" /\ station.on THEN station.ip ELSE 0

\* The override becomes what the station tells while the client runs, and is gone
\* for good when the station is off or the client stopped: oldip, which keeps the
\* thread from setting it again, never hides a change (126-135, 146-152).
OverrideFollowsStation ==
    \A ip \in Addresses \cup {0} : <>[](Target = ip) => <>[](override.ip = ip)

\* "Close the stream so the read (if any) terminates" (DsClient.cpp:46): the
\* stream that Stop found is still there when it closes it.
StopClosesALiveStream == stopper = "close" => threads[current].stream # "null"

\* "server port to use in combination with IP from DS" (ntcore_cpp.h:1283): the
\* override has the port of the last Start.
OverrideHasAskedPort ==
    [][ override' # override /\ override' # None => override'.port = asked ]_vars
=============================================================================
