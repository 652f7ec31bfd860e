--------------------------- MODULE NetworkConnection ---------------------------
(***************************************************************************)
(* The life of one connection (NetworkConnection.cs): its read thread, its *)
(* write thread, whoever stops it, and the dispatch thread that posts to   *)
(* it.  m_outgoing is the blocking queue the write thread takes batches    *)
(* from; an empty batch only wakes it.  What the messages say is not       *)
(* modelled here, nor the pending list PostOutgoing empties (OutgoingQueue).*)
(*                                                                         *)
(* SetState runs under m_stateMutex, but Stop, ReadThreadMain's last       *)
(* notification and nothing else touch m_state without it.  So SetState is *)
(* two steps, the test for Dead and the assignment with its notification,  *)
(* and Stop may write m_state between them.  A write of Stop between the   *)
(* notification and the assignment has the effect of one before both       *)
(* (state Active) or after both (state Dead).                              *)
(***************************************************************************)
EXTENDS Integers, Sequences

CONSTANT MaxPosts   \* bound on the batches the dispatch thread posts

ASSUME MaxPostsAssumption == MaxPosts \in Nat

VARIABLES
    state,      \* m_state
    active,     \* Active
    open,       \* m_stream has not been disposed
    peer,       \* the other end has not closed the TCP connection
    outgoing,   \* m_outgoing
    setting,    \* the thread holding m_stateMutex past the test for Dead, or "Free"
    pc,         \* where each thread is
    plan,       \* the steps the handshake has left
    posts,      \* the batches posted so far (bounded)
    changes,    \* the notifications SetState gave (history)
    notified    \* all the notifications NotifyConnection was given (history)

vars == <<state, active, open, peer, outgoing, setting, pc, plan, posts, changes, notified>>

Threads == {"Reader", "Writer", "Stopper"}

States == {"Created", "Init", "Handshake", "Synchronized", "Active", "Dead"}

Labels == {"Off", "Start", "Handshake", "Synchronize", "Activate", "Announce",
           "Loop", "Read", "Process", "Exit", "Die", "Deactivate", "Wake",
           "Take", "Send", "Dispose", "JoinWriter", "JoinReader", "Drain",
           "Over", "Faulted"}

\* The blocking and the state changing steps of the two handshake functions.
\* Storage makes the connection Synchronized as it takes the initial assignments.
ClientHandshake == <<"Send", "Read", "Synchronize", "Send">>
ServerHandshake == <<"Read", "Synchronize", "Send", "Read">>

TypeOK ==
    /\ state \in States
    /\ active \in BOOLEAN /\ open \in BOOLEAN /\ peer \in BOOLEAN
    /\ outgoing \in Seq({"Empty", "Batch"})
    /\ setting \in {"Free", "Reader", "Writer"}
    /\ pc \in [Threads -> Labels]
    /\ plan \in Seq({"Send", "Read", "Synchronize"})
    /\ posts \in 0 .. MaxPosts
    /\ changes \in Seq({"up", "down"})
    /\ notified \in Seq({"up", "down"}) /\ Len(notified) <= 4

Init ==
    /\ state = "Created"
    /\ active = FALSE /\ open = TRUE /\ peer = TRUE
    /\ outgoing = <<>>
    /\ setting = "Free"
    /\ pc = [t \in Threads |-> "Off"]
    /\ plan \in {ClientHandshake, ServerHandshake}
    /\ posts = 0
    /\ changes = <<>> /\ notified = <<>>

At(t, label) == pc[t] = label

Goto(t, label) == pc' = [pc EXCEPT ![t] = label]

Established == plan = <<>>
-----------------------------------------------------------------------------
(* Start, and SetState. *)

Start ==
    /\ At("Reader", "Off") /\ ~ active
    /\ active' = TRUE
    /\ state' = "Init"
    /\ outgoing' = <<>>
    /\ pc' = [pc EXCEPT !["Reader"] = "Start", !["Writer"] = "Loop"]
    /\ UNCHANGED <<open, peer, setting, plan, posts, changes, notified>>

\* the calls of SetState: the state asked for, and where the thread goes after
Asked == [Start |-> "Handshake", Synchronize |-> "Synchronized", Activate |-> "Active",
          Die |-> "Dead"]
AfterSetState == [Start |-> "Handshake", Synchronize |-> "Handshake", Activate |-> "Announce",
                  Die |-> "Deactivate"]

CallsSetState(t) == pc[t] \in DOMAIN Asked

\* MayChange, without the test for Dead
MayAlwaysChange == TRUE

MayChange == state # "Dead"

EnterSetState(t) ==
    /\ CallsSetState(t) /\ setting = "Free"
    /\ IF MayChange
       THEN setting' = t /\ UNCHANGED pc
       ELSE Goto(t, AfterSetState[pc[t]]) /\ UNCHANGED setting
    /\ UNCHANGED <<state, active, open, peer, outgoing, plan, posts, changes, notified>>

\* what SetState(to) tells the listeners
Change(to) ==
    IF state # "Active" /\ to = "Active" THEN <<"up">>
    ELSE IF state # "Dead" /\ to = "Dead" THEN <<"down">>
    ELSE <<>>

AssignState(t) ==
    /\ setting = t
    /\ setting' = "Free"
    /\ state' = Asked[pc[t]]
    /\ changes' = changes \o Change(Asked[pc[t]])
    /\ notified' = notified \o Change(Asked[pc[t]])
    /\ Goto(t, AfterSetState[pc[t]])
    /\ UNCHANGED <<active, open, peer, outgoing, plan, posts>>

SetState(t) == EnterSetState(t) \/ AssignState(t)
-----------------------------------------------------------------------------
(* ReadThreadMain, from its first SetState. *)

\* a read returns a message, or nothing because the stream is at its end
Readable == open /\ peer

Handshake(step) ==
    /\ At("Reader", "Handshake") /\ plan # <<>> /\ Head(plan) = step
    /\ plan' = Tail(plan)

HandshakeSend ==
    /\ Handshake("Send")
    /\ outgoing' = Append(outgoing, "Batch")
    /\ UNCHANGED <<state, active, open, peer, setting, pc, posts, changes, notified>>

HandshakeRead ==
    /\ Handshake("Read") /\ Readable
    /\ UNCHANGED <<state, active, open, peer, outgoing, setting, pc, posts, changes, notified>>

HandshakeSynchronize ==
    /\ Handshake("Synchronize")
    /\ Goto("Reader", "Synchronize")
    /\ UNCHANGED <<state, active, open, peer, outgoing, setting, posts, changes, notified>>

\* the peer has gone, or said something else; to a later protocol the server
\* answers ProtoUnsup
HandshakeFails ==
    /\ At("Reader", "Handshake") /\ plan # <<>> /\ Head(plan) = "Read"
    /\ outgoing' \in {outgoing} \cup
            (IF Readable /\ plan = ServerHandshake THEN {Append(outgoing, "Batch")} ELSE {})
    /\ Goto("Reader", "Die")
    /\ UNCHANGED <<state, active, open, peer, setting, plan, posts, changes, notified>>

HandshakeDone ==
    /\ At("Reader", "Handshake") /\ Established
    /\ Goto("Reader", "Activate")
    /\ UNCHANGED <<state, active, open, peer, outgoing, setting, plan, posts, changes, notified>>

\* the second notification of a connection, outside SetState
Announce ==
    /\ At("Reader", "Announce")
    /\ notified' = Append(notified, "up")
    /\ Goto("Reader", "Loop")
    /\ UNCHANGED <<state, active, open, peer, outgoing, setting, plan, posts, changes>>

ReaderLoop ==
    /\ At("Reader", "Loop")
    /\ Goto("Reader", IF active THEN "Read" ELSE "Exit")
    /\ UNCHANGED <<state, active, open, peer, outgoing, setting, plan, posts, changes, notified>>

ReadMessage ==
    /\ At("Reader", "Read") /\ Readable
    /\ Goto("Reader", "Process")
    /\ UNCHANGED <<state, active, open, peer, outgoing, setting, plan, posts, changes, notified>>

\* the end of the stream, or a bad message
ReadNull ==
    /\ At("Reader", "Read")
    /\ open' = FALSE
    /\ Goto("Reader", "Exit")
    /\ UNCHANGED <<state, active, peer, outgoing, setting, plan, posts, changes, notified>>

\* a stream disposed under the read can throw what Receive does not catch, here
\* as in the handshake
ReadThrows ==
    /\ At("Reader", "Read") \/ (At("Reader", "Handshake") /\ plan # <<>> /\ Head(plan) = "Read")
    /\ ~ open
    /\ Goto("Reader", "Faulted")
    /\ UNCHANGED <<state, active, open, peer, outgoing, setting, plan, posts, changes, notified>>

\* m_processIncoming, which nothing here guards against an exception
Process ==
    /\ At("Reader", "Process")
    /\ Goto("Reader", "Loop") \/ Goto("Reader", "Faulted")
    /\ UNCHANGED <<state, active, open, peer, outgoing, setting, plan, posts, changes, notified>>

Exit ==
    /\ At("Reader", "Exit")
    /\ notified' = IF state # "Dead" THEN Append(notified, "down") ELSE notified
    /\ Goto("Reader", "Die")
    /\ UNCHANGED <<state, active, open, peer, outgoing, setting, plan, posts, changes>>

\* "Active = false", after SetState(Dead); a read thread whose handshake failed
\* returns at once, the others wake the write thread
AfterDeactivate(t) ==
    IF t = "Writer" THEN "Dispose" ELSE IF Established THEN "Wake" ELSE "Over"

Deactivate(t) ==
    /\ At(t, "Deactivate")
    /\ active' = FALSE
    /\ Goto(t, AfterDeactivate(t))
    /\ UNCHANGED <<state, open, peer, outgoing, setting, plan, posts, changes, notified>>

\* Wake, without the empty batch
WakeNobody ==
    /\ At("Reader", "Wake")
    /\ Goto("Reader", "Over")
    /\ UNCHANGED <<state, active, open, peer, outgoing, setting, plan, posts, changes, notified>>

Wake ==
    /\ At("Reader", "Wake")
    /\ outgoing' = Append(outgoing, "Empty")
    /\ Goto("Reader", "Over")
    /\ UNCHANGED <<state, active, open, peer, setting, plan, posts, changes, notified>>
-----------------------------------------------------------------------------
(* WriteThreadMain. *)

WriterLoop ==
    /\ At("Writer", "Loop")
    /\ Goto("Writer", IF active THEN "Take" ELSE "Die")
    /\ UNCHANGED <<state, active, open, peer, outgoing, setting, plan, posts, changes, notified>>

\* a batch of blanked messages encodes to nothing and is not sent either
Take ==
    /\ At("Writer", "Take") /\ outgoing # <<>>
    /\ outgoing' = Tail(outgoing)
    /\ \/ Goto("Writer", "Loop")
       \/ Head(outgoing) = "Batch" /\ Goto("Writer", "Send")
    /\ UNCHANGED <<state, active, open, peer, setting, plan, posts, changes, notified>>

SendDone ==
    /\ At("Writer", "Send") /\ open
    /\ Goto("Writer", "Loop")
    /\ UNCHANGED <<state, active, open, peer, outgoing, setting, plan, posts, changes, notified>>

\* Send returns 0; or the stream is disposed under it, which throws what it
\* does not catch
SendFails ==
    /\ At("Writer", "Send") /\ ~ Readable
    /\ \/ Goto("Writer", "Die")
       \/ ~ open /\ Goto("Writer", "Faulted")
    /\ UNCHANGED <<state, active, open, peer, outgoing, setting, plan, posts, changes, notified>>

Dispose ==
    /\ At("Writer", "Dispose")
    /\ open' = FALSE
    /\ Goto("Writer", "Over")
    /\ UNCHANGED <<state, active, peer, outgoing, setting, plan, posts, changes, notified>>
-----------------------------------------------------------------------------
(* Stop, called once, by the client's thread or by the dispatcher's Stop. *)

StopBegins ==
    /\ At("Stopper", "Off") /\ ~ At("Reader", "Off")
    /\ state' = "Dead"
    /\ Goto("Stopper", "Deactivate")
    /\ UNCHANGED <<active, open, peer, outgoing, setting, plan, posts, changes, notified>>

StopDeactivates ==
    /\ At("Stopper", "Deactivate")
    /\ active' = FALSE
    /\ Goto("Stopper", "Dispose")
    /\ UNCHANGED <<state, open, peer, outgoing, setting, plan, posts, changes, notified>>

StopDisposes ==
    /\ At("Stopper", "Dispose")
    /\ open' = FALSE
    /\ Goto("Stopper", "Wake")
    /\ UNCHANGED <<state, active, peer, outgoing, setting, plan, posts, changes, notified>>

\* StopWakes, without the empty batch
StopWakesNobody ==
    /\ At("Stopper", "Wake")
    /\ Goto("Stopper", "JoinWriter")
    /\ UNCHANGED <<state, active, open, peer, outgoing, setting, plan, posts, changes, notified>>

StopWakes ==
    /\ At("Stopper", "Wake")
    /\ outgoing' = Append(outgoing, "Empty")
    /\ Goto("Stopper", "JoinWriter")
    /\ UNCHANGED <<state, active, open, peer, setting, plan, posts, changes, notified>>

\* a join rethrows what ended the thread
Join(thread, at, next) ==
    /\ At("Stopper", at)
    /\ \/ At(thread, "Over") /\ Goto("Stopper", next)
       \/ At(thread, "Faulted") /\ Goto("Stopper", "Faulted")
    /\ UNCHANGED <<state, active, open, peer, outgoing, setting, plan, posts, changes, notified>>

\* StopJoins, waiting for the write thread only
StopJoinsWriter == Join("Writer", "JoinWriter", "Drain")

StopJoins ==
    \/ Join("Writer", "JoinWriter", "JoinReader")
    \/ Join("Reader", "JoinReader", "Drain")

StopDrains ==
    /\ At("Stopper", "Drain")
    /\ outgoing' = <<>>
    /\ Goto("Stopper", "Over")
    /\ UNCHANGED <<state, active, open, peer, setting, plan, posts, changes, notified>>
-----------------------------------------------------------------------------
(* The dispatch thread, the peer, and the system. *)

\* DispatchThreadMain, having found the state Active with something pending
Post ==
    /\ state = "Active" /\ setting = "Free" /\ posts < MaxPosts
    /\ outgoing' = Append(outgoing, "Batch")
    /\ posts' = posts + 1
    /\ UNCHANGED <<state, active, open, peer, setting, pc, plan, changes, notified>>

PeerCloses ==
    /\ peer
    /\ peer' = FALSE
    /\ UNCHANGED <<state, active, open, outgoing, setting, pc, plan, posts, changes, notified>>

ReadThread ==
    \/ SetState("Reader")
    \/ HandshakeSend \/ HandshakeRead \/ HandshakeSynchronize \/ HandshakeFails \/ HandshakeDone
    \/ Announce \/ ReaderLoop \/ ReadMessage \/ ReadNull \/ ReadThrows \/ Process
    \/ Exit \/ Deactivate("Reader") \/ Wake

WriteThread ==
    \/ SetState("Writer")
    \/ WriterLoop \/ Take \/ SendDone \/ SendFails \/ Deactivate("Writer") \/ Dispose

Stop ==
    \/ StopBegins \/ StopDeactivates \/ StopDisposes \/ StopWakes \/ StopJoins \/ StopDrains

Next == Start \/ ReadThread \/ WriteThread \/ Stop \/ Post \/ PeerCloses

Spec == Init /\ [][Next]_vars

\* The scheduler runs a thread that can run, and m_stateMutex is handed to a
\* thread that waits for it.  Nothing is assumed of a peer that neither sends,
\* nor reads what is sent, nor closes; nor does anyone have to call Stop.
Fairness ==
    /\ \A t \in {"Reader", "Writer"} : SF_vars(EnterSetState(t)) /\ WF_vars(AssignState(t))
    /\ WF_vars(HandshakeSend \/ HandshakeSynchronize \/ HandshakeDone \/ Announce
               \/ ReaderLoop \/ Process \/ Exit \/ Deactivate("Reader") \/ Wake)
    /\ WF_vars(~ Readable /\ (HandshakeFails \/ ReadNull))
    /\ WF_vars(WriterLoop \/ Take \/ SendFails \/ Deactivate("Writer") \/ Dispose)
    /\ WF_vars(StopDeactivates \/ StopDisposes \/ StopWakes \/ StopJoins \/ StopDrains)

FairSpec == Spec /\ Fairness
-----------------------------------------------------------------------------
(* Properties. *)

Ended(t) == pc[t] \in {"Over", "Faulted"}

\* What SetState itself tells the listeners, from both threads and with a Stop at
\* any moment: connected at most once, disconnected at most once, never connected
\* after disconnected ("One-shot notify state changes", NetworkConnection.cs:174).
SetStateOneShot ==
    changes \in {<<>>, <<"up">>, <<"down">>, <<"up", "down">>}

\* A connection that one of its own threads found dead stays dead: the dispatch
\* thread may replace it, and QueueOutgoing skips it for good.
DeadUnlessStopped ==
    [][state = "Dead" /\ At("Stopper", "Off") => state' = "Dead"]_vars

\* A Stop that returns leaves the connection dead, its stream closed and nothing
\* queued, even when a thread wrote another state over the one it assigned.
StopIsClean ==
    At("Stopper", "Over") =>
        /\ state = "Dead" /\ ~ active /\ ~ open
        /\ Ended("Reader") /\ Ended("Writer")
        /\ outgoing = <<>>

\* A Stop ends, wherever the two threads were when it began: it returns or
\* throws what ended one of them.
StopEnds == At("Stopper", "Deactivate") ~> Ended("Stopper")

\* Once established, a connection whose peer has gone ends both of its threads,
\* and the state is Dead, which is what the dispatch thread reconnects on; unless
\* a message it was processing, or a disposed stream, ended one with an exception.
LossEndsBoth ==
    Established /\ ~ peer ~>
        \/ At("Reader", "Over") /\ At("Writer", "Over") /\ state = "Dead"
        \/ At("Reader", "Faulted") \/ At("Writer", "Faulted")

\* "Don't update state any more once we've died" (NetworkConnection.cs:172).
DeadIsForever == [][state = "Dead" => state' = "Dead"]_vars

\* "One-shot notify state changes" (NetworkConnection.cs:174): the listeners are
\* told of each change once.
OneShotNotify == \A i \in 1 .. (Len(notified) - 1) : notified[i] # notified[i + 1]
=============================================================================
