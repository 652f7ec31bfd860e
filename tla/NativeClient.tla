------------------------------- MODULE NativeClient -------------------------------
(***************************************************************************)
(* The native library's client: its dispatcher (Dispatcher.cpp) and the    *)
(* driver station client (DsClient.cpp), whose thread sets and clears the  *)
(* dispatcher's connector override while the dispatcher's threads run.     *)
(*                                                                         *)
(* The dispatcher knows of the override only that it is set: what address  *)
(* it is, and which server answers there, is left to DsClient and to the   *)
(* peer of NativeDispatcher.                                               *)
(***************************************************************************)
EXTENDS NativeDispatcher

CONSTANTS
    Addresses, Ports, MaxThreads, MaxNews    \* of DsClient

VARIABLES threads, current, stopper, port, asked, address, station, news    \* of DsClient

stationVars == <<threads, current, stopper, port, asked, address, station, news>>

Station == INSTANCE DsClient WITH Detaches <- FALSE, override <- address

ClientInit == Init /\ Station!Init

\* SetConnectorOverride and ClearConnectorOverride, called by the station client's thread
SetOverride == SetConnector(FALSE, address' # Station!None)

\* the station client steps, and calls the dispatcher when it sets or clears the override
StationStep ==
    /\ Station!Next
    /\ IF address' = address THEN UNCHANGED vars ELSE SetOverride

\* the dispatcher steps; it has no connector but what the station gives it
DispatcherStep ==
    /\ \/ \E role \in Roles : Start(role)
       \/ StartThreads \/ Stop \/ StopSteps
       \/ DispatchWakes \/ ServerThreadMain \/ ClientThreadMain
       \/ \E c \in DOMAIN conns : ConnectionThread(c) \/ Lose(c)
       \/ \E rev \in {0, 2, 3} : PeerChanges(rev)
    /\ UNCHANGED stationVars

ClientNext == StationStep \/ DispatcherStep

ClientSpec == ClientInit /\ [][ClientNext]_<<vars, stationVars>> /\ Fairness /\ Station!Fairness
-----------------------------------------------------------------------------
\* The dispatcher's override is set exactly while the station client has one, and it
\* becomes what the station tells (DsClient).
OverrideFollowsStation == Station!OverrideFollowsStation

Tells == active /\ Station!Target # 0 /\ ~ IsServer /\ peer # 0 /\ Len(conns) < MaxStreams

\* A running client whose driver station tells it an address, and which is given no
\* other, ends up connected to the server that is there.
StationConnects == <>[]Tells => <>[]Connected
=============================================================================
