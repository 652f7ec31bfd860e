--------------------------- MODULE Connection_proofs ---------------------------
(***************************************************************************)
(* The two halves of a connection.  Its threads (NetworkConnection): what  *)
(* its listeners are told, that it stays dead, and what a Stop that        *)
(* returns leaves behind.  The invariant says where each thread can be     *)
(* when the others are where they are.  Its queue (FlushQueue): that       *)
(* merging the pending messages leaves the peer where all of them would.   *)
(***************************************************************************)
EXTENDS NetworkConnection, FlushQueue, SequenceTheorems, WellFoundedInduction, TLAPS

InHandshake == {"Start", "Handshake", "Synchronize", "Activate"}
InLoop == {"Loop", "Read", "Process", "Exit"}
Ending == {"Deactivate", "Wake", "Over"}

ThreadLabels ==
    /\ pc["Reader"] \in {"Off", "Announce", "Die", "Faulted"} \cup InHandshake \cup InLoop \cup Ending
    /\ pc["Writer"] \in {"Off", "Loop", "Take", "Send", "Die", "Deactivate", "Dispose", "Over", "Faulted"}
    /\ pc["Stopper"] \in {"Off", "Deactivate", "Dispose", "Wake", "JoinWriter", "JoinReader",
                          "Drain", "Over", "Faulted"}

\* before Start there is nothing
NotStarted ==
    At("Reader", "Off") =>
        /\ state = "Created" /\ setting = "Free" /\ changes = <<>> /\ notified = <<>>
        /\ At("Writer", "Off") /\ At("Stopper", "Off")

\* who holds m_stateMutex is in SetState, and found the state not Dead
Holding ==
    setting # "Free" =>
        /\ pc[setting] \in {"Start", "Synchronize", "Activate", "Die"}
        /\ At("Stopper", "Off") => state # "Dead"

\* after "disconnected" the state is Dead and nobody is past the test for it
DisconnectedIsDead ==
    changes \in {<<"down">>, <<"up", "down">>} => state = "Dead" /\ setting = "Free"

ConnectedOnce ==
    pc["Reader"] \in {"Off"} \cup InHandshake => changes \in {<<>>, <<"down">>}

\* what the read thread adds to what SetState tells the listeners
ReaderTold ==
    IF pc["Reader"] \in {"Off", "Announce"} \cup InHandshake THEN 0
    ELSE IF pc["Reader"] \in InLoop THEN 1 ELSE 2

Extra == Len(notified) <= Len(changes) + ReaderTold

ReaderLeavesDead == pc["Reader"] \in Ending => state = "Dead"

Stopping ==
    /\ pc["Stopper"] \in {"Dispose", "Wake", "JoinWriter", "JoinReader", "Drain", "Over"} => ~ active
    /\ pc["Stopper"] \in {"Wake", "JoinWriter", "JoinReader", "Drain", "Over"} => ~ open
    /\ pc["Stopper"] \in {"JoinReader", "Drain", "Over"} => At("Writer", "Over")
    /\ pc["Stopper"] \in {"Drain", "Over"} => At("Reader", "Over")
    /\ At("Stopper", "Over") => outgoing = <<>>

IInv ==
    /\ TypeOK
    /\ ThreadLabels
    /\ NotStarted
    /\ Holding
    /\ SetStateOneShot
    /\ DisconnectedIsDead
    /\ ConnectedOnce
    /\ Extra
    /\ ReaderLeavesDead
    /\ Stopping
-----------------------------------------------------------------------------
(* One lemma for the steps of SetState, and one for each other actor.      *)

\* IInv holds of a connection nobody has started.
LEMMA Initially == Init => IInv
<1> SUFFICES ASSUME Init PROVE IInv
  OBVIOUS
<1>1. plan \in Seq({"Send", "Read", "Synchronize"})
  <2> DEFINE Steps == {"Send", "Read", "Synchronize"}
  <2>1. ClientHandshake \in [1 .. 4 -> Steps] /\ ServerHandshake \in [1 .. 4 -> Steps]
    BY DEF ClientHandshake, ServerHandshake
  <2> HIDE DEF Steps
  <2>2. \A n \in Nat : [1 .. n -> Steps] \subseteq Seq(Steps)
    BY SeqDef
  <2>3. [1 .. 4 -> Steps] \subseteq Seq(Steps)
    BY <2>2
  <2>4. ClientHandshake \in Seq(Steps) /\ ServerHandshake \in Seq(Steps)
    BY <2>1, <2>3
  <2> QED BY <2>4 DEF Init, Steps
<1>2. TypeOK
  <2>1. notified \in Seq({"up", "down"}) /\ Len(notified) <= 4
    BY DEF Init
  <2>2. changes \in Seq({"up", "down"}) /\ outgoing \in Seq({"Empty", "Batch"})
    BY DEF Init
  <2>3. pc \in [Threads -> Labels]
    BY DEF Init, Threads, Labels
  <2>4. state \in States /\ setting \in {"Free", "Reader", "Writer"} /\ posts \in 0 .. MaxPosts
    BY MaxPostsAssumption DEF Init, States
  <2>5. active \in BOOLEAN /\ open \in BOOLEAN /\ peer \in BOOLEAN
    BY DEF Init
  <2> QED BY <1>1, <2>1, <2>2, <2>3, <2>4, <2>5 DEF TypeOK
<1>3. ThreadLabels /\ NotStarted /\ Holding /\ SetStateOneShot /\ DisconnectedIsDead /\ ConnectedOnce
  BY DEF Init, ThreadLabels, NotStarted, Holding, SetStateOneShot, DisconnectedIsDead,
         ConnectedOnce, At, Threads
<1>4. Extra /\ ReaderLeavesDead /\ Stopping
  BY DEF Init, Extra, ReaderTold, ReaderLeavesDead, Stopping, At, Threads, Ending
<1> QED BY <1>2, <1>3, <1>4 DEF IInv

\* Start keeps IInv: it is the first thing that happens.
LEMMA StartStep == IInv /\ Start => IInv'
<1> SUFFICES ASSUME IInv, Start PROVE IInv'
  OBVIOUS
<1> USE DEF At, Goto, Threads, Labels, InHandshake, InLoop, Ending
<1>1. TypeOK'
  BY DEF IInv, TypeOK, Start, States
<1>2. /\ ThreadLabels' /\ NotStarted' /\ Holding' /\ SetStateOneShot' /\ DisconnectedIsDead'
      /\ ConnectedOnce' /\ ReaderLeavesDead' /\ Stopping'
  BY DEF IInv, TypeOK, Start, ThreadLabels, NotStarted, Holding, SetStateOneShot,
         DisconnectedIsDead, ConnectedOnce, ReaderLeavesDead, Stopping
<1>3. Extra'
  BY DEF IInv, TypeOK, Start, NotStarted, Extra, ReaderTold
<1> QED BY <1>1, <1>2, <1>3 DEF IInv

\* Passing, or failing, SetState's test for Dead keeps IInv.
LEMMA EnterStep == ASSUME IInv, NEW t \in {"Reader", "Writer"}, EnterSetState(t) PROVE IInv'
<1> USE DEF At, Goto, Threads, Labels, InHandshake, InLoop, Ending, CallsSetState, Asked, AfterSetState, MayChange
<1>1. TypeOK'
  BY DEF IInv, TypeOK, EnterSetState, ThreadLabels
<1>2. ThreadLabels' /\ NotStarted' /\ ConnectedOnce' /\ SetStateOneShot'
  BY DEF IInv, TypeOK, EnterSetState, ThreadLabels, NotStarted, ConnectedOnce, SetStateOneShot
<1>3. Holding' /\ DisconnectedIsDead' /\ ReaderLeavesDead'
  BY DEF IInv, TypeOK, EnterSetState, ThreadLabels, Holding, DisconnectedIsDead, ReaderLeavesDead
<1>4. Extra'
  BY DEF IInv, TypeOK, EnterSetState, ThreadLabels, Extra, ReaderTold
<1>5. Stopping'
  BY DEF IInv, TypeOK, EnterSetState, Stopping
<1> QED BY <1>1, <1>2, <1>3, <1>4, <1>5 DEF IInv

\* The words a connection's listeners can be told, and what joining them gives.
Words == {<<>>, <<"up">>, <<"down">>, <<"up", "down">>}

\* Each of them is a sequence of at most two notifications.
LEMMA WordsType == /\ \A w \in Words : w \in Seq({"up", "down"}) /\ Len(w) \in 0 .. 2
<1> DEFINE Told == {"up", "down"}
<1>1. "up" \in Told /\ "down" \in Told
  OBVIOUS
<1> HIDE DEF Told
<1>2. <<>> \in Seq(Told) /\ Len(<<>>) = 0
  BY EmptySeq
<1>3. <<"up">> \in Seq(Told) /\ <<"down">> \in Seq(Told)
  BY <1>1
<1>4. Len(<<"up">>) = 1 /\ Len(<<"down">>) = 1
  OBVIOUS
<1>5. <<"up", "down">> \in Seq(Told)
  BY <1>1
<1>6. Len(<<"up", "down">>) = 2
  OBVIOUS
<1> QED BY <1>2, <1>3, <1>4, <1>5, <1>6 DEF Words, Told

\* They are four different words.
LEMMA WordsDiffer ==
  /\ <<>> # <<"up">> /\ <<>> # <<"down">> /\ <<>> # <<"up", "down">>
  /\ <<"up">> # <<"down">> /\ <<"up">> # <<"up", "down">> /\ <<"down">> # <<"up", "down">>
<1>1. Len(<<>>) = 0 /\ Len(<<"up">>) = 1 /\ Len(<<"down">>) = 1 /\ Len(<<"up", "down">>) = 2
  OBVIOUS
<1>2. <<"up">>[1] = "up" /\ <<"down">>[1] = "down"
  OBVIOUS
<1> QED BY <1>1, <1>2

\* What joining them gives: nothing joined to a word is the word, and a
\* disconnection after a connection is the longest word.
LEMMA WordsJoin ==
  /\ \A w \in Words : w \o <<>> = w /\ <<>> \o w = w
  /\ <<"up">> \o <<"down">> = <<"up", "down">>
<1>1. \A w \in Words : w \o <<>> = w /\ <<>> \o w = w
  BY WordsType, ConcatEmptySeq
<1>2. <<"up">> \o <<"down">> = <<"up", "down">>
  <2> DEFINE u == <<"up">>
             d == <<"down">>
             w == <<"up", "down">>
  <2>1. u \in Seq({"up", "down"}) /\ d \in Seq({"up", "down"}) /\ w \in Seq({"up", "down"})
    BY WordsType DEF Words
  <2>2. Len(u) = 1 /\ Len(d) = 1 /\ Len(w) = 2 /\ u[1] = "up" /\ d[1] = "down"
    OBVIOUS
  <2>3. w[1] = "up" /\ w[2] = "down"
    OBVIOUS
  <2> HIDE DEF u, d, w
  <2>4. /\ u \o d \in Seq({"up", "down"}) /\ Len(u \o d) = 2
        /\ (u \o d)[1] = "up" /\ (u \o d)[2] = "down"
    BY <2>1, <2>2, ConcatProperties
  <2>5. \A i \in 1 .. 2 : (u \o d)[i] = w[i]
    <3>1. \A i \in 1 .. 2 : i = 1 \/ i = 2
      OBVIOUS
    <3> QED BY <2>3, <2>4, <3>1
  <2>6. u \o d = w
    BY <2>1, <2>2, <2>4, <2>5, SeqEqual
  <2> QED BY <2>6 DEF u, d, w
<1> QED BY <1>1, <1>2

\* What one notification of SetState does to the lists of notifications.
LEMMA ChangeType ==
  ASSUME NEW to \in States
  PROVE  /\ Change(to) \in {<<>>, <<"up">>, <<"down">>}
         /\ Change(to) = <<"up">> => to = "Active"
         /\ Change(to) = <<"down">> <=> to = "Dead" /\ state # "Dead"
  BY DEF Change, States

\* Setting the state past the test for Dead keeps IInv: nothing was said to be
\* disconnected before, and only the read thread, once, says it is connected.
LEMMA AssignStep == ASSUME IInv, NEW t \in {"Reader", "Writer"}, AssignState(t) PROVE IInv'
<1> DEFINE to == Asked[pc[t]]
           change == Change(to)
<1>1. pc[t] \in {"Start", "Synchronize", "Activate", "Die"}
  BY DEF IInv, Holding, AssignState
<1>2. to \in {"Handshake", "Synchronized", "Active", "Dead"}
  BY <1>1 DEF Asked
<1>3. /\ change \in {<<>>, <<"up">>, <<"down">>}
      /\ change = <<"up">> => to = "Active"
      /\ change = <<"down">> <=> to = "Dead" /\ state # "Dead"
  BY <1>2, ChangeType DEF States
<1>4. changes \in {<<>>, <<"up">>}
  BY DEF IInv, SetStateOneShot, DisconnectedIsDead, AssignState
<1>5. change = <<"up">> => t = "Reader" /\ At("Reader", "Activate") /\ changes = <<>>
  <2>1. t = "Writer" => pc[t] = "Die"
    BY <1>1 DEF IInv, ThreadLabels
  <2>2. to = "Active" => pc[t] = "Activate"
    BY <1>1 DEF Asked
  <2>3. pc["Reader"] = "Activate" => changes \in {<<>>, <<"down">>}
    BY DEF IInv, ConnectedOnce, InHandshake
  <2> QED BY <1>3, <1>4, <2>1, <2>2, <2>3 DEF At
<1>6. /\ state' = to /\ setting' = "Free" /\ changes' = changes \o change
      /\ notified' = notified \o change
      /\ pc' = [pc EXCEPT ![t] = AfterSetState[pc[t]]]
      /\ UNCHANGED <<active, open, peer, outgoing, plan, posts>>
  BY DEF AssignState, Goto
<1> HIDE DEF change, to
<1>7. /\ changes' \in {<<>>, <<"up">>, <<"down">>, <<"up", "down">>}
      /\ changes' \in {<<"down">>, <<"up", "down">>} => change = <<"down">>
      /\ changes' \in {<<"up">>, <<"up", "down">>} => change = <<"up">> \/ changes = <<"up">>
      /\ Len(changes') = Len(changes) + Len(change)
  <2>1. change \in Words /\ changes \in Words
    BY <1>3, <1>4 DEF Words
  <2>2. changes' = changes \o change
    BY <1>6
  <2>3. Len(changes \o change) = Len(changes) + Len(change)
    BY <2>1, WordsType, ConcatProperties
  <2>4. CASE change = <<>>
    BY <1>4, <2>1, <2>2, <2>3, <2>4, WordsJoin, WordsDiffer
  <2>5. CASE change # <<>> /\ changes = <<>>
    BY <1>3, <2>1, <2>2, <2>3, <2>5, WordsJoin, WordsDiffer
  <2>6. CASE change = <<"down">> /\ changes = <<"up">>
    BY <2>2, <2>3, <2>6, WordsJoin, WordsDiffer
  <2> QED BY <1>3, <1>4, <1>5, <2>4, <2>5, <2>6, WordsDiffer
<1>8. notified' \in Seq({"up", "down"}) /\ Len(notified') = Len(notified) + Len(change)
  <2>1. change \in Seq({"up", "down"}) /\ notified \in Seq({"up", "down"})
    BY <1>3, WordsType DEF IInv, TypeOK, Words
  <2> QED BY <1>6, <2>1, ConcatProperties
<1>9. ThreadLabels' /\ pc' \in [Threads -> Labels]
  BY <1>1, <1>6 DEF IInv, TypeOK, ThreadLabels, AfterSetState, Threads, Labels, InHandshake, InLoop, Ending
<1>10. Holding' /\ NotStarted' /\ SetStateOneShot'
  BY <1>1, <1>6, <1>7, <1>9 DEF IInv, TypeOK, Holding, NotStarted, SetStateOneShot, ThreadLabels, At, Threads, AfterSetState
<1>11. DisconnectedIsDead'
  BY <1>3, <1>6, <1>7 DEF DisconnectedIsDead
<1>12. ConnectedOnce'
  <2> SUFFICES ASSUME pc'["Reader"] \in {"Off"} \cup InHandshake
               PROVE  changes' \in {<<>>, <<"down">>}
    BY DEF ConnectedOnce
  <2>1. pc["Reader"] \in ({"Off"} \cup InHandshake) \ {"Activate"} \/ t = "Writer"
    BY <1>1, <1>6 DEF IInv, TypeOK, AfterSetState, Threads, InHandshake
  <2>2. pc["Reader"] \in {"Off"} \cup InHandshake
    BY <1>1, <1>6, <2>1 DEF IInv, TypeOK, Threads, InHandshake
  <2>3. changes # <<"up">> /\ change # <<"up">>
    <3>1. changes \in {<<>>, <<"down">>}
      BY <2>2 DEF IInv, ConnectedOnce
    <3>2. change # <<"up">>
      BY <1>5, <2>1 DEF At, InHandshake
    <3> QED BY <3>1, <3>2, WordsDiffer
  <2> QED BY <1>7, <2>3
<1>13. Extra'
  <2>1. Len(notified) \in Nat /\ Len(changes) \in Nat /\ Len(change) \in Nat
    <3>1. notified \in Seq({"up", "down"})
      BY DEF IInv, TypeOK
    <3>2. change \in Words /\ changes \in Words
      BY <1>3, <1>4 DEF Words
    <3> QED BY <3>1, <3>2, LenProperties, WordsType
  <2>2. ReaderTold \in 0 .. 2 /\ ReaderTold' \in 0 .. 2
    BY DEF ReaderTold
  <2>3. ReaderTold <= ReaderTold'
    BY <1>1, <1>6 DEF IInv, TypeOK, ReaderTold, ThreadLabels, AfterSetState, Threads, InHandshake, InLoop, Ending
  <2>4. Len(notified) <= Len(changes) + ReaderTold
    BY DEF IInv, Extra
  <2> QED BY <1>7, <1>8, <2>1, <2>2, <2>3, <2>4 DEF Extra
<1>14. ReaderLeavesDead'
  <2>1. pc[t] = "Die" => to = "Dead"
    BY DEF to, Asked
  <2>2. t = "Writer" => pc[t] = "Die"
    BY <1>1 DEF IInv, ThreadLabels
  <2> QED BY <1>1, <1>6, <2>1, <2>2 DEF IInv, TypeOK, ReaderLeavesDead, AfterSetState, Threads, Ending
<1>15. Stopping'
  BY <1>1, <1>6 DEF IInv, TypeOK, Stopping, At, Threads
<1>16. TypeOK'
  <2>1. Len(notified') <= 4
    <3>1. Len(changes') \in 0 .. 2
      BY <1>7, WordsType DEF Words
    <3>2. Len(notified') \in Nat
      BY <1>8, LenProperties
    <3>3. ReaderTold' \in 0 .. 2
      BY DEF ReaderTold
    <3>4. Len(notified') <= Len(changes') + ReaderTold'
      BY <1>13 DEF Extra
    <3>5. \A a \in Nat, b, c \in 0 .. 2 : a <= b + c => a <= 4
      OBVIOUS
    <3> QED BY <3>1, <3>2, <3>3, <3>4, <3>5
  <2>2. changes' \in Seq({"up", "down"})
    BY <1>7, WordsType DEF Words
  <2> QED BY <1>2, <1>6, <1>8, <1>9, <2>1, <2>2 DEF IInv, TypeOK, States
<1> QED BY <1>7, <1>9, <1>10, <1>11, <1>12, <1>13, <1>14, <1>15, <1>16 DEF IInv, SetStateOneShot

\* What the listeners are told stays within bounds when SetState tells nothing
\* and the read thread's own notification is counted by where it goes.
LEMMA ToldStep ==
  ASSUME IInv, changes' = changes, notified' \in Seq({"up", "down"}),
         Len(notified') + ReaderTold <= Len(notified) + ReaderTold'
  PROVE  Extra' /\ Len(notified') <= 4
<1>1. ReaderTold \in 0 .. 2 /\ ReaderTold' \in 0 .. 2
  BY DEF ReaderTold
<1>2. Len(changes) \in 0 .. 2
  BY WordsType DEF IInv, SetStateOneShot, Words
<1>3. Len(notified) \in Nat /\ Len(notified') \in Nat
  <2>1. notified \in Seq({"up", "down"})
    BY DEF IInv, TypeOK
  <2> QED BY <2>1, LenProperties
<1>4. Len(notified) <= Len(changes) + ReaderTold
  BY DEF IInv, Extra
<1>5. \A a, b \in Nat, c, d, e \in 0 .. 2 :
        b <= c + d /\ a + d <= b + e => a <= c + e /\ a <= 4
  OBVIOUS
<1>6. Len(notified') <= Len(changes) + ReaderTold' /\ Len(notified') <= 4
  BY <1>1, <1>2, <1>3, <1>4, <1>5
<1> QED BY <1>6 DEF Extra

\* An appended batch, or a first one taken away, leaves a queue of batches.
LEMMA QueueType ==
  ASSUME NEW q \in Seq({"Empty", "Batch"})
  PROVE  /\ Append(q, "Empty") \in Seq({"Empty", "Batch"})
         /\ Append(q, "Batch") \in Seq({"Empty", "Batch"})
         /\ q # <<>> => Tail(q) \in Seq({"Empty", "Batch"})
  OBVIOUS

\* One more notification is one more notification.
LEMMA TellType ==
  ASSUME NEW told \in Seq({"up", "down"}), NEW word \in {"up", "down"}
  PROVE  Append(told, word) \in Seq({"up", "down"}) /\ Len(Append(told, word)) = Len(told) + 1
  OBVIOUS

\* The steps of the read thread outside SetState keep IInv.
LEMMA ReaderStep ==
  ASSUME IInv,
         \/ HandshakeSend \/ HandshakeRead \/ HandshakeSynchronize \/ HandshakeFails
         \/ HandshakeDone \/ Announce \/ ReaderLoop \/ ReadMessage \/ ReadNull
         \/ ReadThrows \/ Process \/ Exit \/ Deactivate("Reader") \/ Wake
  PROVE  IInv'
<1> USE DEF At, Goto, Threads, Labels, InHandshake, InLoop, Ending
<1>1. UNCHANGED <<state, setting, changes, posts, peer>>
  BY DEF HandshakeSend, HandshakeRead, HandshakeSynchronize, HandshakeFails, HandshakeDone,
         Handshake, Announce, ReaderLoop, ReadMessage, ReadNull, ReadThrows, Process, Exit,
         Deactivate, Wake
<1>2. /\ pc["Reader"] \in {"Handshake", "Announce", "Loop", "Read", "Process", "Exit", "Deactivate", "Wake"}
      /\ setting # "Reader"
  BY DEF IInv, Holding, HandshakeSend, HandshakeRead, HandshakeSynchronize, HandshakeFails, HandshakeDone,
         Handshake, Announce, ReaderLoop, ReadMessage, ReadNull, ReadThrows, Process, Exit,
         Deactivate, Wake
<1>3. /\ pc' \in [Threads -> Labels]
      /\ pc'["Writer"] = pc["Writer"] /\ pc'["Stopper"] = pc["Stopper"]
      /\ \/ pc["Reader"] = "Handshake" /\ pc'["Reader"] \in {"Handshake", "Synchronize", "Activate", "Die", "Faulted"}
         \/ pc["Reader"] = "Announce" /\ pc'["Reader"] = "Loop"
         \/ pc["Reader"] = "Loop" /\ pc'["Reader"] \in {"Read", "Exit"}
         \/ pc["Reader"] = "Read" /\ pc'["Reader"] \in {"Process", "Exit", "Faulted"}
         \/ pc["Reader"] = "Process" /\ pc'["Reader"] \in {"Loop", "Faulted"}
         \/ pc["Reader"] = "Exit" /\ pc'["Reader"] = "Die"
         \/ pc["Reader"] = "Deactivate" /\ pc'["Reader"] \in {"Wake", "Over"}
         \/ pc["Reader"] = "Wake" /\ pc'["Reader"] = "Over"
  BY <1>2 DEF IInv, TypeOK, HandshakeSend, HandshakeRead, HandshakeSynchronize, HandshakeFails, HandshakeDone,
         Handshake, Announce, ReaderLoop, ReadMessage, ReadNull, ReadThrows, Process, Exit,
         Deactivate, AfterDeactivate, Wake
<1>4. /\ active' \in BOOLEAN /\ (~ active => ~ active')
      /\ open' \in BOOLEAN /\ (~ open => ~ open')
  <2>1. CASE UNCHANGED <<active, open>>
    BY <2>1 DEF IInv, TypeOK
  <2>2. CASE ReadNull
    BY <2>2 DEF IInv, TypeOK, ReadNull
  <2>3. CASE Deactivate("Reader")
    BY <2>3 DEF IInv, TypeOK, Deactivate
  <2> QED BY <2>1, <2>2, <2>3 DEF HandshakeSend, HandshakeRead, HandshakeSynchronize, HandshakeFails,
         HandshakeDone, Handshake, Announce, ReaderLoop, ReadMessage, ReadThrows, Process, Exit, Wake
<1>5. outgoing' \in {outgoing, Append(outgoing, "Batch"), Append(outgoing, "Empty")}
  BY DEF HandshakeSend, HandshakeRead, HandshakeSynchronize, HandshakeFails, HandshakeDone,
         Handshake, Announce, ReaderLoop, ReadMessage, ReadNull, ReadThrows, Process, Exit,
         Deactivate, Wake
<1>6. plan' \in Seq({"Send", "Read", "Synchronize"})
  <2>1. plan' = plan \/ (plan # <<>> /\ plan' = Tail(plan))
    BY DEF HandshakeSend, HandshakeRead, HandshakeSynchronize, HandshakeFails, HandshakeDone,
         Handshake, Announce, ReaderLoop, ReadMessage, ReadNull, ReadThrows, Process, Exit,
         Deactivate, Wake
  <2>2. plan \in Seq({"Send", "Read", "Synchronize"})
    BY DEF IInv, TypeOK
  <2> QED BY <2>1, <2>2
<1>7. \/ notified' = notified
      \/ pc["Reader"] \in {"Announce", "Exit"} /\ \E word \in {"up", "down"} : notified' = Append(notified, word)
  BY DEF HandshakeSend, HandshakeRead, HandshakeSynchronize, HandshakeFails, HandshakeDone,
         Handshake, Announce, ReaderLoop, ReadMessage, ReadNull, ReadThrows, Process, Exit,
         Deactivate, Wake
<1>8. notified' \in Seq({"up", "down"}) /\ Len(notified') <= 4 /\ Extra'
  <2>1. notified \in Seq({"up", "down"})
    BY DEF IInv, TypeOK
  <2>2. Len(notified) \in Nat
    BY <2>1, LenProperties
  <2>3. CASE notified' = notified
    <3>1. ReaderTold <= ReaderTold' /\ ReaderTold \in Nat /\ ReaderTold' \in Nat
      BY <1>3 DEF ReaderTold
    <3>2. Len(notified') + ReaderTold <= Len(notified) + ReaderTold'
      BY <2>2, <2>3, <3>1
    <3> QED BY <1>1, <2>1, <2>3, <3>2, ToldStep
  <2>4. CASE pc["Reader"] \in {"Announce", "Exit"} /\ \E word \in {"up", "down"} : notified' = Append(notified, word)
    <3>1. ReaderTold' = ReaderTold + 1 /\ ReaderTold \in Nat
      BY <1>3, <2>4 DEF ReaderTold
    <3>2. notified' \in Seq({"up", "down"}) /\ Len(notified') = Len(notified) + 1
      BY <2>1, <2>4, TellType
    <3>3. Len(notified') + ReaderTold <= Len(notified) + ReaderTold'
      BY <2>2, <3>1, <3>2
    <3> QED BY <1>1, <3>2, <3>3, ToldStep
  <2> QED BY <1>7, <2>3, <2>4
<1>9. TypeOK'
  <2>1. outgoing' \in Seq({"Empty", "Batch"})
    BY <1>5, QueueType DEF IInv, TypeOK
  <2> QED BY <1>1, <1>3, <1>4, <1>6, <1>8, <2>1 DEF IInv, TypeOK
<1>10. ThreadLabels' /\ NotStarted' /\ SetStateOneShot' /\ ConnectedOnce'
  BY <1>1, <1>3 DEF IInv, ThreadLabels, NotStarted, SetStateOneShot, ConnectedOnce
<1>11. Holding' /\ DisconnectedIsDead'
  BY <1>1, <1>2, <1>3 DEF IInv, TypeOK, Holding, DisconnectedIsDead
<1>12. ReaderLeavesDead'
  BY <1>1, <1>3 DEF IInv, ReaderLeavesDead
<1>13. Stopping'
  BY <1>2, <1>3, <1>4 DEF IInv, Stopping
<1> QED BY <1>8, <1>9, <1>10, <1>11, <1>12, <1>13 DEF IInv

\* The steps of the write thread outside SetState keep IInv.
LEMMA WriterStep ==
  ASSUME IInv,
         WriterLoop \/ Take \/ SendDone \/ SendFails \/ Deactivate("Writer") \/ Dispose
  PROVE  IInv'
<1> USE DEF At, Goto, Threads, Labels
<1>1. UNCHANGED <<state, setting, changes, notified, posts, peer, plan>>
  BY DEF WriterLoop, Take, SendDone, SendFails, Deactivate, AfterDeactivate, Dispose
<1>2. /\ pc["Writer"] \in {"Loop", "Take", "Send", "Deactivate", "Dispose"}
      /\ setting # "Writer"
  BY DEF IInv, Holding, WriterLoop, Take, SendDone, SendFails, Deactivate, AfterDeactivate, Dispose
<1>3. /\ pc' \in [Threads -> Labels]
      /\ pc'["Reader"] = pc["Reader"] /\ pc'["Stopper"] = pc["Stopper"]
      /\ pc'["Writer"] \in {"Loop", "Take", "Send", "Die", "Dispose", "Over", "Faulted"}
  BY <1>2 DEF IInv, TypeOK, WriterLoop, Take, SendDone, SendFails, Deactivate, AfterDeactivate, Dispose
<1>4. /\ active' \in BOOLEAN /\ (~ active => ~ active')
      /\ open' \in BOOLEAN /\ (~ open => ~ open')
  <2>1. CASE UNCHANGED <<active, open>>
    BY <2>1 DEF IInv, TypeOK
  <2>2. CASE Deactivate("Writer")
    BY <2>2 DEF IInv, TypeOK, Deactivate
  <2>3. CASE Dispose
    BY <2>3 DEF IInv, TypeOK, Dispose
  <2> QED BY <2>1, <2>2, <2>3 DEF WriterLoop, Take, SendDone, SendFails
<1>5. outgoing' \in Seq({"Empty", "Batch"})
  <2>1. outgoing' = outgoing \/ (outgoing # <<>> /\ outgoing' = Tail(outgoing))
    BY DEF WriterLoop, Take, SendDone, SendFails, Deactivate, AfterDeactivate, Dispose
  <2> QED BY <2>1, QueueType DEF IInv, TypeOK
<1>6. Extra' /\ Len(notified') <= 4
  <2>1. ReaderTold' = ReaderTold
    BY <1>3 DEF ReaderTold
  <2> QED BY <1>1, <2>1 DEF IInv, TypeOK, Extra
<1>7. TypeOK'
  BY <1>1, <1>3, <1>4, <1>5 DEF IInv, TypeOK
<1>8. /\ ThreadLabels' /\ NotStarted' /\ SetStateOneShot' /\ ConnectedOnce'
      /\ Holding' /\ DisconnectedIsDead' /\ ReaderLeavesDead'
  BY <1>1, <1>2, <1>3 DEF IInv, TypeOK, ThreadLabels, NotStarted, SetStateOneShot, ConnectedOnce,
     Holding, DisconnectedIsDead, ReaderLeavesDead
<1>9. Stopping'
  BY <1>2, <1>3, <1>4 DEF IInv, Stopping
<1> QED BY <1>6, <1>7, <1>8, <1>9 DEF IInv

\* The steps of a Stop keep IInv.
LEMMA StopStep == IInv /\ Stop => IInv'
<1> SUFFICES ASSUME IInv, Stop PROVE IInv'
  OBVIOUS
<1> USE DEF At, Goto, Threads, Labels
<1>1. UNCHANGED <<setting, changes, notified, posts, peer, plan>> /\ state' \in {state, "Dead"}
  BY DEF Stop, StopBegins, StopDeactivates, StopDisposes, StopWakes, StopJoins, Join, StopDrains
<1>2. /\ pc' \in [Threads -> Labels]
      /\ pc'["Reader"] = pc["Reader"] /\ pc'["Writer"] = pc["Writer"]
      /\ pc["Reader"] # "Off" /\ pc'["Stopper"] # "Off"
      /\ pc'["Stopper"] \in {"Deactivate", "Dispose", "Wake", "JoinWriter", "JoinReader", "Drain", "Over", "Faulted"}
  BY DEF IInv, TypeOK, NotStarted, Stop, StopBegins, StopDeactivates, StopDisposes, StopWakes, StopJoins, Join, StopDrains
<1>3. /\ active' \in BOOLEAN /\ (~ active => ~ active')
      /\ open' \in BOOLEAN /\ (~ open => ~ open')
  <2>1. CASE UNCHANGED <<active, open>>
    BY <2>1 DEF IInv, TypeOK
  <2>2. CASE StopDeactivates
    BY <2>2 DEF IInv, TypeOK, StopDeactivates
  <2>3. CASE StopDisposes
    BY <2>3 DEF IInv, TypeOK, StopDisposes
  <2> QED BY <2>1, <2>2, <2>3 DEF Stop, StopBegins, StopWakes, StopJoins, Join, StopDrains
<1>4. outgoing' \in Seq({"Empty", "Batch"})
  <2>1. outgoing' \in {outgoing, Append(outgoing, "Empty"), <<>>}
    BY DEF Stop, StopBegins, StopDeactivates, StopDisposes, StopWakes, StopJoins, Join, StopDrains
  <2>2. <<>> \in Seq({"Empty", "Batch"})
    BY EmptySeq
  <2> QED BY <2>1, <2>2, QueueType DEF IInv, TypeOK
<1>5. Extra' /\ Len(notified') <= 4
  <2>1. ReaderTold' = ReaderTold
    BY <1>2 DEF ReaderTold
  <2> QED BY <1>1, <2>1 DEF IInv, TypeOK, Extra
<1>6. TypeOK'
  BY <1>1, <1>2, <1>3, <1>4 DEF IInv, TypeOK, States
<1>7. /\ ThreadLabels' /\ NotStarted' /\ SetStateOneShot' /\ ConnectedOnce'
      /\ DisconnectedIsDead' /\ ReaderLeavesDead'
  BY <1>1, <1>2 DEF IInv, TypeOK, ThreadLabels, NotStarted, SetStateOneShot, ConnectedOnce,
     DisconnectedIsDead, ReaderLeavesDead
<1>8. Holding'
  BY <1>1, <1>2 DEF IInv, TypeOK, Holding
<1>9. Stopping'
  <2>1. CASE StopBegins
    BY <2>1 DEF IInv, TypeOK, Stopping, StopBegins
  <2>2. CASE StopDeactivates
    BY <2>2 DEF IInv, TypeOK, Stopping, StopDeactivates
  <2>3. CASE StopDisposes
    BY <2>3 DEF IInv, TypeOK, Stopping, StopDisposes
  <2>4. CASE StopWakes
    BY <2>4 DEF IInv, TypeOK, Stopping, StopWakes
  <2>5. CASE StopJoins
    BY <2>5 DEF IInv, TypeOK, Stopping, StopJoins, Join
  <2>6. CASE StopDrains
    BY <2>6 DEF IInv, TypeOK, Stopping, StopDrains
  <2> QED BY <2>1, <2>2, <2>3, <2>4, <2>5, <2>6 DEF Stop
<1> QED BY <1>5, <1>6, <1>7, <1>8, <1>9 DEF IInv

\* A post, and the loss of the peer, keep IInv: nothing is posted to a connection
\* that a Stop has left, because its state is Dead.
LEMMA EnvironmentStep == ASSUME IInv, Post \/ PeerCloses PROVE IInv'
<1> USE DEF At, Threads, Labels
<1>1. UNCHANGED <<state, active, open, setting, pc, plan, changes, notified>>
  BY DEF Post, PeerCloses
<1>2. TypeOK'
  <2>1. CASE Post
    BY <2>1, QueueType, MaxPostsAssumption DEF IInv, TypeOK, Post
  <2>2. CASE PeerCloses
    BY <2>2 DEF IInv, TypeOK, PeerCloses
  <2> QED BY <2>1, <2>2
<1>3. /\ ThreadLabels' /\ NotStarted' /\ SetStateOneShot' /\ ConnectedOnce'
      /\ DisconnectedIsDead' /\ ReaderLeavesDead' /\ Holding' /\ Extra'
  BY <1>1 DEF IInv, ThreadLabels, NotStarted, SetStateOneShot, ConnectedOnce,
     DisconnectedIsDead, ReaderLeavesDead, Holding, Extra, ReaderTold
<1>4. Stopping'
  <2>1. CASE Post
    BY <2>1 DEF IInv, Stopping, ReaderLeavesDead, Ending, Post
  <2>2. CASE PeerCloses
    BY <2>2 DEF IInv, Stopping, PeerCloses
  <2> QED BY <2>1, <2>2
<1> QED BY <1>2, <1>3, <1>4 DEF IInv

\* Every step keeps IInv.
LEMMA Inductive == IInv /\ [Next]_vars => IInv'
<1> SUFFICES ASSUME IInv, [Next]_vars PROVE IInv'
  OBVIOUS
<1>1. CASE Start
  BY <1>1, StartStep
<1>2. CASE ReadThread
  BY <1>2, EnterStep, AssignStep, ReaderStep DEF ReadThread, SetState
<1>3. CASE WriteThread
  BY <1>3, EnterStep, AssignStep, WriterStep DEF WriteThread, SetState
<1>4. CASE Stop
  BY <1>4, StopStep
<1>5. CASE Post \/ PeerCloses
  BY <1>5, EnvironmentStep
<1>6. CASE UNCHANGED vars
  BY <1>6 DEF vars, IInv, TypeOK, ThreadLabels, NotStarted, SetStateOneShot, ConnectedOnce, At,
     DisconnectedIsDead, ReaderLeavesDead, Holding, Extra, ReaderTold, Stopping
<1> QED BY <1>1, <1>2, <1>3, <1>4, <1>5, <1>6 DEF Next

\* IInv holds in every reachable state.
THEOREM Invariance == Spec => []IInv
<1>1. Init => IInv
  BY Initially
<1>2. IInv /\ [Next]_vars => IInv'
  BY Inductive
<1> QED BY <1>1, <1>2, PTL DEF Spec

\* Every variable has its type, and a connection's listeners are told of it at
\* most four times.
THEOREM TypeCorrect == Spec => []TypeOK
<1>1. IInv => TypeOK
  BY DEF IInv
<1> QED BY <1>1, Invariance, PTL

\* SetState announces one connection and one disconnection at most, in this order.
THEOREM OneShot == Spec => []SetStateOneShot
<1>1. IInv => SetStateOneShot
  BY DEF IInv
<1> QED BY <1>1, Invariance, PTL

\* A Stop that returns leaves a dead connection, closed, with nothing queued.
THEOREM CleanStop == Spec => []StopIsClean
<1>1. IInv => StopIsClean
  BY DEF IInv, StopIsClean, Stopping, ReaderLeavesDead, Ending, Ended, At
<1> QED BY <1>1, Invariance, PTL

\* Nothing but a Stop's own write of m_state can be undone: a connection found
\* dead by its threads stays dead.
THEOREM StaysDead == Spec => DeadUnlessStopped
<1>1. IInv /\ [Next]_vars => [state = "Dead" /\ At("Stopper", "Off") => state' = "Dead"]_vars
  <2> SUFFICES ASSUME IInv, Next, state = "Dead", At("Stopper", "Off")
               PROVE  state' = "Dead"
    OBVIOUS
  <2>1. CASE Start
    BY <2>1 DEF IInv, NotStarted, Start
  <2>2. CASE \E t \in {"Reader", "Writer"} : AssignState(t)
    BY <2>2 DEF IInv, Holding, AssignState
  <2>3. CASE UNCHANGED state
    BY <2>3
  <2>4. CASE Stop
    BY <2>4 DEF Stop, StopBegins, StopDeactivates, StopDisposes, StopWakes, StopJoins, Join, StopDrains
  <2> QED BY <2>1, <2>2, <2>3, <2>4 DEF Next, ReadThread, WriteThread, SetState, EnterSetState,
         HandshakeSend, HandshakeRead, HandshakeSynchronize, HandshakeFails, HandshakeDone,
         Announce, ReaderLoop, ReadMessage, ReadNull, ReadThrows, Process, Exit,
         Deactivate, Wake, WriterLoop, Take, SendDone, SendFails, Dispose, Post, PeerCloses
<1> QED BY <1>1, Invariance, PTL DEF Spec, DeadUnlessStopped
-----------------------------------------------------------------------------
-----------------------------------------------------------------------------
(* Induction and folds *)

\* Induction, stated of a set: the least number outside it has no place to be.
LEMMA AllNumbers ==
  ASSUME NEW S, 0 \in S, \A n \in Nat : n \in S => n + 1 \in S
  PROVE  Nat \subseteq S
<1> DEFINE rest == Nat \ S
<1> SUFFICES ASSUME rest # {} PROVE FALSE
  OBVIOUS
<1>1. rest \subseteq Nat
  OBVIOUS
<1> HIDE DEF rest
<1>2. \E x \in rest : \A y \in rest : ~ (<<y, x>> \in OpToRel(<, Nat))
  BY <1>1, NatLessThanWellFounded, WFMin
<1>3. PICK x \in rest : \A y \in rest : ~ (y < x)
  BY <1>1, <1>2 DEF OpToRel
<1>4. x \in Nat /\ x \notin S
  BY DEF rest
<1>5. x # 0 /\ x - 1 \in Nat /\ x - 1 < x
  BY <1>4
<1>6. x - 1 \notin S
  BY <1>4, <1>5
<1> QED BY <1>3, <1>5, <1>6 DEF rest

\* The same up to a number, which is all a list needs.
LEMMA AllUpTo ==
  ASSUME NEW n \in Nat, NEW S, 0 \in S, \A i \in 0 .. n - 1 : i \in S => i + 1 \in S
  PROVE  \A i \in 0 .. n : i \in S
<1> DEFINE good == {i \in Nat : i <= n => i \in S}
<1>1. 0 \in good /\ \A i \in Nat : i \in good => i + 1 \in good
  OBVIOUS
<1> HIDE DEF good
<1>2. Nat \subseteq good
  BY <1>1, AllNumbers
<1> QED BY <1>2 DEF good

\* What a peer is after each message that it reads.
Reads(start, s, run) == run[0] = start /\ \A i \in 1 .. Len(s) : run[i] = Read(run[i - 1], s[i])

\* The greatest of some numbers.
LEMMA MaxIs ==
  ASSUME NEW S \in SUBSET Int, NEW m \in S, \A y \in S : m >= y
  PROVE  Max(S) = m
<1> DEFINE top == Max(S)
<1>1. top \in S /\ \A y \in S : top >= y
  BY DEF Max
<1> HIDE DEF top
<1>2. top \in Int /\ m \in Int /\ top >= m /\ m >= top
  BY <1>1
<1>3. top = m
  BY <1>2
<1> QED BY <1>3 DEF top

\* FoldLeft, which takes the last message off at each turn, is what is reached
\* by reading the messages from the first to the last.
LEMMA FoldIsRun ==
  ASSUME NEW T, NEW s \in Seq(T), NEW start
  PROVE  \E run : Reads(start, s, run) /\ FoldLeft(Read, start, s) = run[Len(s)]
<1> DEFINE n == Len(s)
           step(f, S) == IF S = {} THEN start ELSE Read(f[S \ {Max(S)}], s[Max(S)])
           Solves(f, k) == f = [S \in SUBSET (1 .. k) |-> step(f, S)]
           good == {k \in Nat : \E f : Solves(f, k)}
<1>1. n \in Nat
  OBVIOUS
<1>3. 0 \in good
  <2> DEFINE f == [S \in SUBSET (1 .. 0) |-> start]
  <2>1. 1 .. 0 = {}
    OBVIOUS
  <2>2. Solves(f, 0)
    BY <2>1
  <2> QED BY <2>2
<1>4. ASSUME NEW k \in Nat, k \in good
      PROVE  k + 1 \in good
  <2>1. PICK f : Solves(f, k)
    BY <1>4
  <2> DEFINE g == [S \in SUBSET (1 .. k + 1) |->
                     IF k + 1 \in S THEN Read(f[S \ {k + 1}], s[k + 1]) ELSE f[S]]
  <2>2. ASSUME NEW S \in SUBSET (1 .. k + 1)
        PROVE  g[S] = step(g, S)
    <3>1. CASE k + 1 \in S
      <4>1. Max(S) = k + 1
        BY <3>1, MaxIs
      <4>2. S \ {k + 1} \in SUBSET (1 .. k) /\ S \ {k + 1} \in SUBSET (1 .. k + 1)
        OBVIOUS
      <4>3. g[S \ {k + 1}] = f[S \ {k + 1}]
        BY <4>2
      <4>4. g[S] = Read(f[S \ {k + 1}], s[k + 1])
        BY <3>1
      <4> HIDE DEF g
      <4> QED BY <3>1, <4>1, <4>3, <4>4
    <3>2. CASE k + 1 \notin S
      <4>1. S \in SUBSET (1 .. k)
        BY <3>2
      <4>2. S \ {Max(S)} \in SUBSET (1 .. k + 1) /\ k + 1 \notin S \ {Max(S)}
        BY <3>2
      <4>3. g[S] = f[S] /\ g[S \ {Max(S)}] = f[S \ {Max(S)}]
        BY <3>2, <4>2
      <4>4. f[S] = step(f, S)
        BY <2>1, <4>1
      <4> HIDE DEF g
      <4> QED BY <4>3, <4>4
    <3> QED BY <3>1, <3>2
  <2>3. Solves(g, k + 1)
    <3>1. g = [S \in SUBSET (1 .. k + 1) |-> g[S]]
      OBVIOUS
    <3> HIDE DEF g, step
    <3> QED BY <2>2, <3>1
  <2> HIDE DEF g, Solves
  <2> QED BY <2>3
<1> DEFINE iter == CHOOSE f : f = [S \in SUBSET (DOMAIN s) |-> step(f, S)]
<1>2. DOMAIN s = 1 .. n
  OBVIOUS
<1>5. FoldLeft(Read, start, s) = iter[DOMAIN s]
  BY DEF FoldLeft, MapThenFoldSet
<1> HIDE DEF n
<1>6. Solves(iter, n)
  <2> HIDE DEF Solves
  <2>1. Nat \subseteq good
    <3> HIDE DEF good
    <3> QED BY <1>3, <1>4, AllNumbers
  <2>2. \E f : Solves(f, n)
    BY <1>1, <2>1
  <2>3. \E f : f = [S \in SUBSET (DOMAIN s) |-> step(f, S)]
    BY <1>2, <2>2 DEF Solves
  <2>4. iter = [S \in SUBSET (DOMAIN s) |-> step(iter, S)]
    <3> HIDE DEF step
    <3> QED BY <2>3
  <2> HIDE DEF iter
  <2> QED BY <1>2, <2>4 DEF Solves
<1> HIDE DEF iter
<1> DEFINE run == [i \in 0 .. n |-> iter[1 .. i]]
<1>7. iter[1 .. 0] = start
  <2>1. 1 .. 0 = {}
    OBVIOUS
  <2> QED BY <1>6, <2>1
<1>8. ASSUME NEW i \in 1 .. n
      PROVE  iter[1 .. i] = Read(iter[1 .. i - 1], s[i])
  <2> i \in Nat /\ 1 <= i /\ i <= n
    BY <1>1
  <2>1. Max(1 .. i) = i
    <3>1. 1 .. i \in SUBSET Int /\ i \in 1 .. i /\ \A y \in 1 .. i : i >= y
      OBVIOUS
    <3> HIDE DEF n
    <3> QED BY <3>1, MaxIs
  <2>2. i \in 1 .. i /\ 1 .. i \in SUBSET (1 .. n)
    BY <1>1
  <2>3. (1 .. i) \ {i} = 1 .. i - 1
    OBVIOUS
  <2>4. iter[1 .. i] = Read(iter[(1 .. i) \ {i}], s[i])
    BY <1>6, <2>1, <2>2
  <2> QED BY <2>3, <2>4
<1>9. Reads(start, s, run)
  BY <1>1, <1>7, <1>8 DEF Reads, n
<1>10. run[n] = iter[1 .. n]
  BY <1>1
<1> HIDE DEF run
<1> QED BY <1>2, <1>5, <1>9, <1>10 DEF n

Result(start, s) == FoldLeft(Read, start, s)

\* What is left of a table is what it is after the last message.
LEMMA ResultIsRun ==
  ASSUME NEW T, NEW s \in Seq(T), NEW start
  PROVE  \E run : Reads(start, s, run) /\ Result(start, s) = run[Len(s)]
  BY FoldIsRun DEF Result

\* Two peers that begin alike and read two lists of one length stay related, if
\* every message keeps them so.
LEMMA TwoRuns ==
  ASSUME NEW T, NEW s \in Seq(T), NEW t \in Seq(T), Len(s) = Len(t), NEW start, NEW rel,
         <<0, start, start>> \in rel,
         \A i \in 1 .. Len(s) : \A a, b :
            <<i - 1, a, b>> \in rel => <<i, Read(a, s[i]), Read(b, t[i])>> \in rel
  PROVE  <<Len(s), Result(start, s), Result(start, t)>> \in rel
<1>1. PICK one : Reads(start, s, one) /\ Result(start, s) = one[Len(s)]
  BY ResultIsRun
<1>2. PICK two : Reads(start, t, two) /\ Result(start, t) = two[Len(t)]
  BY ResultIsRun
<1> DEFINE good == {i \in 0 .. Len(s) : <<i, one[i], two[i]>> \in rel}
<1>3. 0 \in good
  BY <1>1, <1>2 DEF Reads
<1>4. ASSUME NEW i \in 0 .. Len(s) - 1, i \in good PROVE i + 1 \in good
  <2>1. <<i, one[i], two[i]>> \in rel
    BY <1>4
  <2>2. i + 1 \in 1 .. Len(s) /\ i + 1 \in 0 .. Len(s) /\ (i + 1) - 1 = i /\ Len(s) = Len(t)
    OBVIOUS
  <2>3. <<i + 1, Read(one[i], s[i + 1]), Read(two[i], t[i + 1])>> \in rel
    BY <2>1, <2>2
  <2>4. one[i + 1] = Read(one[i], s[i + 1]) /\ two[i + 1] = Read(two[i], t[i + 1])
    BY <1>1, <1>2, <2>2 DEF Reads
  <2> QED BY <2>2, <2>3, <2>4
<1>5. Len(s) \in Nat
  OBVIOUS
<1> HIDE DEF good
<1>6. \A i \in 0 .. Len(s) : i \in good
  BY <1>3, <1>4, <1>5, AllUpTo
<1>7. Len(s) \in good
  BY <1>5, <1>6
<1> QED BY <1>1, <1>2, <1>7 DEF good

\* Nothing to read changes nothing.
LEMMA ResultEmpty ==
  ASSUME NEW start
  PROVE  Result(start, <<>>) = start
<1>1. <<>> \in Seq({}) /\ Len(<<>>) = 0
  OBVIOUS
<1>2. PICK run : Reads(start, <<>>, run) /\ Result(start, <<>>) = run[0]
  BY <1>1, ResultIsRun
<1> QED BY <1>2 DEF Reads

\* The last message is read last.
LEMMA ResultAppend ==
  ASSUME NEW T, NEW s \in Seq(T), NEW m \in T, NEW start
  PROVE  Result(start, Append(s, m)) = Read(Result(start, s), m)
<1> DEFINE t == Append(s, m)
<1>1. t \in Seq(T) /\ Len(t) = Len(s) + 1 /\ Len(s) \in Nat /\ t[Len(s) + 1] = m
      /\ \A i \in 1 .. Len(s) : t[i] = s[i]
  OBVIOUS
<1>2. PICK one : Reads(start, s, one) /\ Result(start, s) = one[Len(s)]
  BY ResultIsRun
<1> HIDE DEF t
<1>3. PICK two : Reads(start, t, two) /\ Result(start, t) = two[Len(t)]
  BY <1>1, ResultIsRun
<1> DEFINE good == {i \in 0 .. Len(s) : one[i] = two[i]}
<1>4. 0 \in good
  BY <1>2, <1>3 DEF Reads
<1>5. ASSUME NEW i \in 0 .. Len(s) - 1, i \in good PROVE i + 1 \in good
  <2>1. i + 1 \in 1 .. Len(s) /\ i + 1 \in 1 .. Len(t) /\ (i + 1) - 1 = i
    BY <1>1
  <2>2. one[i + 1] = Read(one[i], s[i + 1]) /\ two[i + 1] = Read(two[i], t[i + 1])
    BY <1>2, <1>3, <2>1 DEF Reads
  <2> QED BY <1>1, <1>5, <2>1, <2>2
<1> HIDE DEF good
<1>6. \A i \in 0 .. Len(s) : i \in good
  BY <1>1, <1>4, <1>5, AllUpTo
<1>7. one[Len(s)] = two[Len(s)]
  BY <1>1, <1>6 DEF good
<1>8. two[Len(s) + 1] = Read(two[Len(s)], m)
  <2>1. Len(s) + 1 \in 1 .. Len(t) /\ (Len(s) + 1) - 1 = Len(s)
    BY <1>1
  <2> QED BY <1>1, <1>3, <2>1 DEF Reads
<1> QED BY <1>1, <1>2, <1>3, <1>7, <1>8 DEF t
-----------------------------------------------------------------------------
(* What a peer makes of the messages of one list. *)

Peers == [Ids -> [val : Values \cup {Nil}, flags : BOOLEAN \cup {Nil}]]

\* the messages a server queues, and what is left of them
Item == {m \in Message : m.id \in Ids /\ m.type # "HelloDone"}

Effectless == {"Unknown", "ExecuteRpc"}

\* A peer's table stays one.
LEMMA ReadType ==
  ASSUME NEW start \in Peers, NEW m \in Item
  PROVE  Read(start, m) \in Peers
<1>1. m \in Message /\ m.id \in Ids /\ m.val \in Values \cup {Nil} /\ m.flags \in BOOLEAN
  BY DEF Item, Message
<1> QED BY <1>1 DEF Peers, Read, Absent

\* What a message does to an entry depends on nothing else of the table.
LEMMA ReadOwn ==
  ASSUME NEW a \in Peers, NEW b \in Peers, NEW m \in Item, NEW x \in Ids, a[x] = b[x]
  PROVE  Read(a, m)[x] = Read(b, m)[x]
<1>1. m.id \in Ids
  BY DEF Item
<1> QED BY <1>1 DEF Peers, Read, Here

\* A message of another entry, an RPC and a blank do nothing to an entry.
LEMMA ReadOther ==
  ASSUME NEW a \in Peers, NEW m \in Item, NEW x \in Ids, m.type # "ClearEntries",
         m.id # x \/ m.type \in Effectless
  PROVE  Read(a, m)[x] = a[x]
<1>1. m.id \in Ids
  BY DEF Item
<1> QED BY <1>1 DEF Peers, Read, Here, Effectless

\* What is read keeps the table one.
LEMMA ResultType ==
  ASSUME NEW start \in Peers, NEW s \in Seq(Item)
  PROVE  Result(start, s) \in Peers
<1> DEFINE rel == (0 .. Len(s)) \X Peers \X Peers
<1>1. <<0, start, start>> \in rel
  OBVIOUS
<1>2. \A i \in 1 .. Len(s) : \A a, b :
         <<i - 1, a, b>> \in rel => <<i, Read(a, s[i]), Read(b, s[i])>> \in rel
  BY ReadType
<1>3. <<Len(s), Result(start, s), Result(start, s)>> \in rel
  <2> HIDE DEF rel
  <2> QED BY <1>1, <1>2, TwoRuns
<1> QED BY <1>3

\* Messages that have no effect on an entry, put in place of others that have
\* none, leave it as it was.
LEMMA BlankedResult ==
  ASSUME NEW start \in Peers, NEW s \in Seq(Item), NEW t \in Seq(Item), Len(s) = Len(t),
         NEW x \in Ids,
         \A i \in 1 .. Len(s) :
            \/ s[i] = t[i]
            \/ /\ s[i].type # "ClearEntries" /\ (s[i].id # x \/ s[i].type \in Effectless)
               /\ t[i].type # "ClearEntries" /\ (t[i].id # x \/ t[i].type \in Effectless)
  PROVE  Result(start, s)[x] = Result(start, t)[x]
<1> DEFINE rel == {z \in (0 .. Len(s)) \X Peers \X Peers : z[2][x] = z[3][x]}
<1>1. <<0, start, start>> \in rel
  OBVIOUS
<1>2. ASSUME NEW i \in 1 .. Len(s), NEW a, NEW b, <<i - 1, a, b>> \in rel
      PROVE  <<i, Read(a, s[i]), Read(b, t[i])>> \in rel
  <2>1. a \in Peers /\ b \in Peers /\ a[x] = b[x]
    BY <1>2
  <2>2. s[i] \in Item /\ t[i] \in Item
    OBVIOUS
  <2>3. Read(a, s[i])[x] = Read(b, t[i])[x]
    <3>1. CASE s[i] = t[i]
      BY <2>1, <2>2, <3>1, ReadOwn
    <3>2. CASE s[i] # t[i]
      <4>1. Read(a, s[i])[x] = a[x]
        BY <2>1, <2>2, <3>2, ReadOther
      <4>2. Read(b, t[i])[x] = b[x]
        BY <2>1, <2>2, <3>2, ReadOther
      <4> QED BY <2>1, <4>1, <4>2
    <3> QED BY <3>1, <3>2
  <2>4. Read(a, s[i]) \in Peers /\ Read(b, t[i]) \in Peers
    BY <2>1, <2>2, ReadType
  <2> QED BY <2>3, <2>4
<1>3. <<Len(s), Result(start, s), Result(start, t)>> \in rel
  <2> HIDE DEF rel
  <2> QED BY <1>1, <1>2, TwoRuns
<1> QED BY <1>3

\* An entry no message is about is left as it was, or cleared if not persistent.
LEMMA QuietResult ==
  ASSUME NEW start \in Peers, NEW s \in Seq(Item), NEW x \in Ids,
         \A i \in 1 .. Len(s) :
            s[i].type = "ClearEntries" \/ s[i].id # x \/ s[i].type \in Effectless
  PROVE  /\ Result(start, s)[x] \in {start[x], Absent}
         /\ start[x].flags = TRUE => Result(start, s)[x] = start[x]
<1> DEFINE rel == {z \in (0 .. Len(s)) \X Peers \X Peers :
                      /\ z[2] = z[3] /\ z[2][x] \in {start[x], Absent}
                      /\ start[x].flags = TRUE => z[2][x] = start[x]}
<1>1. <<0, start, start>> \in rel
  OBVIOUS
<1>2. ASSUME NEW i \in 1 .. Len(s), NEW a, NEW b, <<i - 1, a, b>> \in rel
      PROVE  <<i, Read(a, s[i]), Read(b, s[i])>> \in rel
  <2>1. /\ a \in Peers /\ a = b /\ a[x] \in {start[x], Absent}
        /\ start[x].flags = TRUE => a[x] = start[x]
    BY <1>2
  <2>2. s[i] \in Item
    OBVIOUS
  <2>3. Read(a, s[i]) \in Peers
    BY <2>1, <2>2, ReadType
  <2>4. \/ Read(a, s[i])[x] = a[x]
        \/ a[x].flags # TRUE /\ Read(a, s[i])[x] = Absent
    <3>1. CASE s[i].type = "ClearEntries"
      BY <2>1, <3>1 DEF Read, Peers
    <3>2. CASE s[i].type # "ClearEntries"
      BY <2>1, <2>2, <3>2, ReadOther
    <3> QED BY <3>1, <3>2
  <2> DEFINE c == Read(a, s[i])
  <2>5. c \in Peers /\ Read(b, s[i]) = c
    BY <2>1, <2>3
  <2>6. c[x] \in {start[x], Absent} /\ (start[x].flags = TRUE => c[x] = start[x])
    <3> HIDE DEF c
    <3> QED BY <2>1, <2>4 DEF c
  <2> HIDE DEF c
  <2> QED BY <2>5, <2>6 DEF c
<1>3. <<Len(s), Result(start, s), Result(start, s)>> \in rel
  <2> HIDE DEF rel
  <2> QED BY <1>1, <1>2, TwoRuns
<1> QED BY <1>3

\* Blanks and RPCs do nothing to any entry.
LEMMA EffectlessResult ==
  ASSUME NEW start \in Peers, NEW s \in Seq(Item),
         \A i \in 1 .. Len(s) : s[i].type \in Effectless
  PROVE  Result(start, s) = start
<1>1. ASSUME NEW m \in Item, m.type \in Effectless, NEW a PROVE Read(a, m) = a
  BY <1>1 DEF Effectless, Read
<1> DEFINE rel == {z \in (0 .. Len(s)) \X Peers \X Peers : z[2] = start /\ z[3] = start}
<1>2. <<0, start, start>> \in rel
  OBVIOUS
<1>3. ASSUME NEW i \in 1 .. Len(s), NEW a, NEW b, <<i - 1, a, b>> \in rel
      PROVE  <<i, Read(a, s[i]), Read(b, s[i])>> \in rel
  <2>1. a = start /\ b = start
    BY <1>3
  <2>2. s[i] \in Item
    OBVIOUS
  <2>3. Read(start, s[i]) = start
    BY <1>1, <2>2
  <2> QED BY <2>1, <2>3
<1>4. <<Len(s), Result(start, s), Result(start, s)>> \in rel
  <2> HIDE DEF rel
  <2> QED BY <1>2, <1>3, TwoRuns
<1> QED BY <1>4

\* t is s with m in position pos
Replaces(s, t, pos, m) ==
    /\ Len(t) = Len(s) /\ t[pos] = m
    /\ \A i \in 1 .. Len(s) : i # pos => t[i] = s[i]

\* after pos come no clear and no flags of the entry of m
LastFlags(s, pos, m) ==
    \A i \in pos + 1 .. Len(s) :
        s[i].type # "ClearEntries" /\ (s[i].type = "FlagsUpdate" => s[i].id # m.id)

LastAssigned(s, pos, m) ==
    \A i \in pos + 1 .. Len(s) : s[i].type = "EntryAssign" => s[i].id # m.id

\* T is R but for the flags of an entry
ButFlags(R, T, id) ==
    /\ \A x \in Ids \ {id} : T[x] = R[x]
    /\ T[id].val = R[id].val
    /\ Here(T, id) <=> Here(R, id)

\* A FlagsUpdate in the place of another of the same entry, with no clear, no
\* delete and no other flags of the entry after it, changes nothing but the
\* entry's flags; and with no assignment of it after it, those are the new ones.
LEMMA FlagsReplacedResult ==
  ASSUME NEW start \in Peers, NEW s \in Seq(Item), NEW t \in Seq(Item), NEW pos \in 1 .. Len(s),
         NEW m \in Item, m.type = "FlagsUpdate", s[pos].type = "FlagsUpdate", s[pos].id = m.id,
         LastFlags(s, pos, m), Replaces(s, t, pos, m)
  PROVE  /\ ButFlags(Result(start, s), Result(start, t), m.id)
         /\ LastAssigned(s, pos, m) /\ Here(Result(start, t), m.id) => Result(start, t)[m.id].flags = m.flags
<1> DEFINE n == Len(s)
           unassigned == \A i \in pos + 1 .. n : s[i].type = "EntryAssign" => s[i].id # m.id
           Near(i, a, b) ==
              /\ i < pos => a = b
              /\ \A x \in Ids \ {m.id} : a[x] = b[x]
              /\ a[m.id].val = b[m.id].val
              /\ Here(b, m.id) <=> Here(a, m.id)
              /\ i >= pos /\ unassigned /\ Here(b, m.id) => b[m.id].flags = m.flags
           rel == {z \in (0 .. n) \X Peers \X Peers : Near(z[1], z[2], z[3])}
<1>0. /\ t \in Seq(Item) /\ Len(t) = n /\ n \in Nat
      /\ t[pos] = m /\ \A i \in 1 .. n : i # pos => t[i] = s[i]
      /\ \A i \in pos + 1 .. n :
            s[i].type # "ClearEntries" /\ (s[i].type = "FlagsUpdate" => s[i].id # m.id)
  BY DEF Replaces, LastFlags
<1>m. m.id \in Ids /\ m.flags \in BOOLEAN /\ m.flags # Nil
  BY NilIsNoFlag DEF Item, Message
<1>1. <<0, start, start>> \in rel
  <2>1. Near(0, start, start)
    OBVIOUS
  <2> HIDE DEF Near
  <2> QED BY <1>0, <2>1
<1>2. ASSUME NEW i \in 1 .. n, NEW a, NEW b, <<i - 1, a, b>> \in rel
      PROVE  <<i, Read(a, s[i]), Read(b, t[i])>> \in rel
  <2>1. a \in Peers /\ b \in Peers /\ Near(i - 1, a, b)
    <3> HIDE DEF Near
    <3> QED BY <1>2
  <2>2. s[i] \in Item /\ t[i] \in Item
    BY <1>0
  <2>3. Near(i, Read(a, s[i]), Read(b, t[i]))
    <3>1. CASE i < pos
      <4>1. a = b /\ t[i] = s[i]
        BY <1>0, <2>1, <3>1
      <4> QED BY <3>1, <4>1
    <3>2. CASE i = pos
      <4>1. a = b /\ t[i] = m /\ s[i].type = "FlagsUpdate" /\ s[i].id = m.id
        BY <2>1, <3>2, <1>0
      <4>2. s[i].flags \in BOOLEAN /\ s[i].flags # Nil
        BY <2>2, NilIsNoFlag DEF Item, Message
      <4>3. Read(a, s[i]) = IF Here(a, m.id) THEN [a EXCEPT ![m.id].flags = s[i].flags] ELSE a
        BY <4>1 DEF Read
      <4>4. Read(b, t[i]) = IF Here(a, m.id) THEN [a EXCEPT ![m.id].flags = m.flags] ELSE a
        <5>1. Read(a, m) = IF Here(a, m.id) THEN [a EXCEPT ![m.id].flags = m.flags] ELSE a
          BY DEF Read
        <5> QED BY <4>1, <5>1, Zenon
      <4>5. CASE Here(a, m.id)
        <5> DEFINE c == [a EXCEPT ![m.id].flags = s[i].flags]
                   d == [a EXCEPT ![m.id].flags = m.flags]
        <5>1. /\ \A x \in Ids \ {m.id} : c[x] = a[x] /\ d[x] = a[x]
              /\ c[m.id].val = a[m.id].val /\ d[m.id].val = a[m.id].val
              /\ c[m.id].flags = s[i].flags /\ d[m.id].flags = m.flags
          BY <2>1, <1>m DEF Peers
        <5>2. Read(a, s[i]) = c /\ Read(b, t[i]) = d
          BY <4>3, <4>4, <4>5
        <5> HIDE DEF c, d, unassigned
        <5> QED BY <3>2, <4>2, <5>1, <5>2, <1>m DEF Here
      <4>6. CASE ~ Here(a, m.id)
        <5>1. Read(a, s[i]) = a /\ Read(b, t[i]) = a
          BY <4>3, <4>4, <4>6
        <5> HIDE DEF unassigned
        <5> QED BY <3>2, <4>6, <5>1
      <4> QED BY <4>5, <4>6
    <3>3. CASE i > pos
      <4>1. t[i] = s[i] /\ s[i].type # "ClearEntries" /\ i \in pos + 1 .. n
            /\ (s[i].type = "FlagsUpdate" => s[i].id # m.id)
        BY <1>0, <3>3
      <4>2. \A x \in Ids \ {m.id} : Read(a, s[i])[x] = Read(b, s[i])[x]
        BY <2>1, <2>2, ReadOwn
      <4>3. CASE s[i].id # m.id \/ s[i].type \in Effectless
        <5>1. Read(a, s[i])[m.id] = a[m.id] /\ Read(b, s[i])[m.id] = b[m.id]
          BY <1>m, <2>1, <2>2, <4>1, <4>3, ReadOther
        <5> QED BY <2>1, <3>3, <4>1, <4>2, <5>1 DEF Here
      <4>4. CASE s[i].id = m.id /\ s[i].type \notin Effectless
        <5>1. s[i].type \in {"EntryAssign", "EntryUpdate", "EntryDelete"}
          BY <2>2, <4>1, <4>4 DEF Item, Message, MsgTypes, Effectless
        <5>2. CASE s[i].type = "EntryAssign"
          <6>1. ~ unassigned
            BY <4>1, <4>4, <5>2
          <6>2. Read(a, s[i])[m.id] = Read(b, s[i])[m.id]
            BY <2>1, <1>m, <4>4, <5>2 DEF Read, Peers
          <6> HIDE DEF unassigned
          <6> QED BY <3>3, <4>1, <4>2, <6>1, <6>2 DEF Here
        <5>3. CASE s[i].type = "EntryUpdate"
          <6>1. Read(a, s[i])[m.id] = IF Here(a, m.id) THEN [a[m.id] EXCEPT !.val = s[i].val]
                                      ELSE a[m.id]
            BY <2>1, <1>m, <4>4, <5>3 DEF Read, Peers
          <6>2. Read(b, s[i])[m.id] = IF Here(b, m.id) THEN [b[m.id] EXCEPT !.val = s[i].val]
                                      ELSE b[m.id]
            BY <2>1, <1>m, <4>4, <5>3 DEF Read, Peers
          <6> HIDE DEF unassigned
          <6>3. a[m.id] \in [val : Values \cup {Nil}, flags : BOOLEAN \cup {Nil}]
                /\ b[m.id] \in [val : Values \cup {Nil}, flags : BOOLEAN \cup {Nil}]
            BY <2>1, <1>m DEF Peers
          <6> QED BY <2>1, <3>3, <4>1, <4>2, <6>1, <6>2, <6>3 DEF Here
        <5>4. CASE s[i].type = "EntryDelete"
          <6>1. Read(a, s[i])[m.id] = Absent /\ Read(b, s[i])[m.id] = Absent
            BY <2>1, <1>m, <4>4, <5>4 DEF Read, Peers
          <6> HIDE DEF unassigned
          <6> QED BY <3>3, <4>1, <4>2, <6>1 DEF Here, Absent
        <5> QED BY <5>1, <5>2, <5>3, <5>4
      <4> QED BY <4>3, <4>4
    <3> QED BY <3>1, <3>2, <3>3
  <2>4. Read(a, s[i]) \in Peers /\ Read(b, t[i]) \in Peers
    BY <2>1, <2>2, ReadType
  <2> HIDE DEF Near
  <2> QED BY <2>3, <2>4
<1>3. <<n, Result(start, s), Result(start, t)>> \in rel
  <2> HIDE DEF rel
  <2> QED BY <1>0, <1>1, <1>2, TwoRuns
<1>4. Near(n, Result(start, s), Result(start, t))
  <2> DEFINE z == <<n, Result(start, s), Result(start, t)>>
  <2>1. z[1] = n /\ z[2] = Result(start, s) /\ z[3] = Result(start, t)
    OBVIOUS
  <2>2. Near(z[1], z[2], z[3])
    <3> HIDE DEF Near, z
    <3> QED BY <1>3 DEF z
  <2> HIDE DEF Near, z
  <2> QED BY <2>1, <2>2
<1>5. n >= pos
  BY <1>0
<1> QED BY <1>4, <1>5 DEF ButFlags, LastAssigned
-----------------------------------------------------------------------------
(* The queue, call by call. *)

Places == [Ids -> [first : Nat, second : Nat]]

NoPlace == [first |-> 0, second |-> 0]

\* every place remembered is one of the list
InList(q) ==
    /\ q \in [list : Seq(Item), count : Nat, update : Places, fault : BOOLEAN]
    /\ \A id \in Ids : q.update[id].first <= Len(q.list) /\ q.update[id].second <= Len(q.list)

Gone(q, id) == {q.update[id].first, q.update[id].second} \ {0}

\* What a call leaves of the queue, without its count.
AppendsValue(q, r, m) ==
    /\ q.update[m.id].first = 0
    /\ r.list = Append(q.list, m)
    /\ r.update = [q.update EXCEPT ![m.id].first = Len(q.list) + 1]

MergesValue(q, r, m) ==
    /\ q.update[m.id].first # 0
    /\ r.update = q.update
    /\ \/ r.list = q.list
       \/ /\ q.update[m.id].first + 1 \in 1 .. Len(q.list)
          /\ \E v \in Item : /\ v.type \in {"EntryAssign", "EntryUpdate"}
                           /\ r.list = [q.list EXCEPT ![q.update[m.id].first + 1] = v]

Deletes(q, r, m) ==
    /\ r.list = Append([i \in 1 .. Len(q.list) |->
                           IF i \in Gone(q, m.id) THEN Blank ELSE q.list[i]], m)
    /\ r.update = [q.update EXCEPT ![m.id] = NoPlace]

ReplacesFlags(q, r, m) ==
    /\ q.update[m.id].second # 0
    /\ r.list = [q.list EXCEPT ![q.update[m.id].second] = m]
    /\ r.update = q.update

AppendsFlags(q, r, m) ==
    /\ q.update[m.id].second = 0
    /\ r.list = Append(q.list, m)
    /\ \/ r.update = [q.update EXCEPT ![m.id].second = Len(q.list) + 1]
       \/ r.update = q.update /\ r.fault

Clears(q, r, m) ==
    /\ r.list = Append([i \in 1 .. Len(q.list) |->
                           IF q.list[i].type \in EntryTypes THEN Blank ELSE q.list[i]], m)
    /\ r.update = [id \in Ids |-> NoPlace]

AppendsOther(q, r, m) ==
    /\ r.list = Append(q.list, m)
    /\ r.update = q.update

\* A blanked place reads as a message of the list, of no type.
LEMMA BlankIsItem == Blank \in Item /\ Blank.type = "Unknown"
  BY HalfRangeAssumption, MessagesAssumption
  DEF Blank, Item, Message, MsgTypes, AnyId, Ids, SeqNums

\* One message put in the place of another.
LEMMA ListExcept ==
  ASSUME NEW T, NEW s \in Seq(T), NEW i \in 1 .. Len(s), NEW v \in T
  PROVE  LET t == [s EXCEPT ![i] = v] IN
         t \in Seq(T) /\ Len(t) = Len(s) /\ t[i] = v
         /\ \A j \in 1 .. Len(s) : j # i => t[j] = s[j]
  OBVIOUS

\* A place for what is added to the list.
LEMMA PlacesExcept ==
  ASSUME NEW u \in Places, NEW n \in Nat, NEW id \in Ids,
         \A y \in Ids : u[y].first <= n /\ u[y].second <= n,
         NEW v, \/ v = [u EXCEPT ![id].first = n + 1] \/ v = [u EXCEPT ![id].second = n + 1]
                \/ v = [u EXCEPT ![id] = NoPlace] \/ v = u
  PROVE  v \in Places /\ \A y \in Ids : v[y].first <= n + 1 /\ v[y].second <= n + 1
<1> DEFINE R == [first : Nat, second : Nat]
<1>1. u[id] \in R
  BY DEF Places
<1>2. /\ [u[id] EXCEPT !.first = n + 1] \in R
      /\ [u[id] EXCEPT !.second = n + 1] \in R
      /\ NoPlace \in R
  BY <1>1 DEF NoPlace
<1>3. ASSUME NEW z \in R, v = [u EXCEPT ![id] = z] PROVE v \in Places
  BY <1>3 DEF Places
<1>4. v \in Places
  <2> HIDE DEF R
  <2> QED BY <1>2, <1>3
<1>5. ASSUME NEW y \in Ids PROVE v[y].first <= n + 1 /\ v[y].second <= n + 1
  <2>1. u[y] \in R /\ u[y].first <= n /\ u[y].second <= n
    BY DEF Places
  <2>2. \/ v[y] = u[y] \/ v[y] = [u[y] EXCEPT !.first = n + 1]
        \/ v[y] = [u[y] EXCEPT !.second = n + 1] \/ v[y] = NoPlace
    BY DEF Places
  <2> QED BY <2>1, <2>2 DEF NoPlace
<1> QED BY <1>4, <1>5

\* A queue, its fields put together.
QueueOf(l, c, u, f) == [list |-> l, count |-> c, update |-> u, fault |-> f]

\* The fields put together are taken apart again.
LEMMA QueueFields ==
  \A l, c, u, f : /\ QueueOf(l, c, u, f).list = l
                  /\ QueueOf(l, c, u, f).count = c
                  /\ QueueOf(l, c, u, f).update = u
                  /\ QueueOf(l, c, u, f).fault = f
  BY Zenon DEF QueueOf

\* m_pendingOutgoing.Add: the message at the end, nothing else.
LEMMA QueueAdd ==
  ASSUME NEW l, NEW c, NEW u, NEW f, NEW m
  PROVE  Add(QueueOf(l, c, u, f), m) = QueueOf(Append(l, m), c, u, FALSE)
<1> DEFINE q == QueueOf(l, c, u, f)
           k == Append(l, m)
<1>1. q.list = l
  BY Zenon DEF QueueOf
<1>2. [q EXCEPT !.list = k] = QueueOf(k, c, u, f)
  <2> HIDE DEF k
  <2> QED BY DEF QueueOf
<1>3. \A g : [QueueOf(k, c, u, f) EXCEPT !.fault = g] = QueueOf(k, c, u, g)
  <2> HIDE DEF k
  <2> QED BY DEF QueueOf
<1>4. Add(q, m) = [[q EXCEPT !.list = Append(q.list, m)] EXCEPT !.fault = FALSE]
  BY Zenon DEF Add
<1> HIDE DEF q
<1>5. Add(q, m) = [[q EXCEPT !.list = k] EXCEPT !.fault = FALSE]
  BY <1>1, <1>4, Zenon
<1> HIDE DEF k
<1>6. Add(q, m) = QueueOf(k, c, u, FALSE)
  BY <1>2, <1>3, <1>5, Zenon
<1> QED BY <1>6 DEF q, k

\* What makes a queue whose places are places of its list.
LEMMA InListBy ==
  ASSUME NEW l \in Seq(Item), NEW c \in Nat, NEW u \in Places, NEW f \in BOOLEAN,
         NEW r, r = [list |-> l, count |-> c, update |-> u, fault |-> f],
         NEW k, Len(l) = k, \A y \in Ids : u[y].first <= k /\ u[y].second <= k
  PROVE  InList(r)
  BY DEF InList

\* no place is remembered of an id the table has no slot for
Slots(q) == \A y \in Ids : y >= q.count => q.update[y] = NoPlace

\* A place remembered in a slot that there is, or is made.
LEMMA SlotsBy ==
  ASSUME NEW q, InList(q), Slots(q), NEW id \in Ids, NEW r, r.count \in Nat, r.count >= q.count,
         \/ r.update = q.update \/ r.update = [q.update EXCEPT ![id] = NoPlace]
         \/ /\ id < r.count
            /\ \E k \in Nat : \/ r.update = [q.update EXCEPT ![id].first = k]
                             \/ r.update = [q.update EXCEPT ![id].second = k]
  PROVE  Slots(r)
<1>1. q.update \in Places /\ q.count \in Nat
  BY DEF InList
<1>2. ASSUME NEW y \in Ids, y >= r.count PROVE r.update[y] = NoPlace
  <2>1. y >= q.count /\ y \in Nat
    BY <1>1, <1>2 DEF Ids
  <2>2. q.update[y] = NoPlace
    BY <2>1 DEF Slots
  <2>3. r.update[y] = q.update[y] \/ r.update[y] = NoPlace
    <3>1. CASE y = id
      <4>1. ~ (id < r.count)
        BY <1>2, <2>1, <3>1
      <4> QED BY <1>1, <3>1, <4>1 DEF Places
    <3>2. CASE y # id
      BY <1>1, <3>2 DEF Places
    <3> QED BY <3>1, <3>2
  <2> QED BY <2>2, <2>3
<1> QED BY <1>2 DEF Slots

\* Of the seven things QueueOutgoing does, each is done for its own messages.
LEMMA QueueShape ==
  ASSUME NEW q, InList(q), NEW m \in Item
  PROVE  LET r == QueueOutgoing(q, m) IN
         /\ InList(r)
         /\ Slots(q) => Slots(r)
         /\ m.type \in {"EntryAssign", "EntryUpdate"} =>
               AppendsValue(q, r, m) \/ MergesValue(q, r, m)
         /\ m.type = "EntryDelete" => Deletes(q, r, m)
         /\ m.type = "FlagsUpdate" => ReplacesFlags(q, r, m) \/ AppendsFlags(q, r, m)
         /\ m.type = "ClearEntries" => Clears(q, r, m)
         /\ m.type \in Effectless => AppendsOther(q, r, m)
<1> DEFINE r == QueueOutgoing(q, m)
           n == Len(q.list)
           id == m.id
           Good(x) == /\ x \in [list : Seq(Item), count : Nat, update : Places, fault : BOOLEAN]
                      /\ \A y \in Ids : x.update[y].first <= Len(x.list)
                                        /\ x.update[y].second <= Len(x.list)
<1>1. /\ q \in [list : Seq(Item), count : Nat, update : Places, fault : BOOLEAN]
      /\ q.list \in Seq(Item) /\ n \in Nat /\ q.count \in Nat /\ q.update \in Places
      /\ \A y \in Ids : /\ q.update[y] \in [first : Nat, second : Nat]
                        /\ q.update[y].first \in Nat /\ q.update[y].second \in Nat
                        /\ q.update[y].first <= n /\ q.update[y].second <= n
  BY DEF InList, Places
<1>2. id \in Ids /\ id \in Nat /\ id # Unassigned /\ m.type \in MsgTypes /\ m.type # "HelloDone"
      /\ id + 1 \in Nat
  BY MessagesAssumption DEF Item, Message, Ids
<1>3. Append(q.list, m) \in Seq(Item) /\ Len(Append(q.list, m)) = n + 1
  BY <1>1
<1>4. CASE m.type \in {"EntryAssign", "EntryUpdate"}
  <2>1. r = AddValue(q, m)
    BY <1>2, <1>4 DEF QueueOutgoing
  <2>2. CASE q.update[id].first = 0
    <3>1. /\ r.list = Append(q.list, m)
          /\ r.update = [q.update EXCEPT ![id].first = n + 1]
          /\ r.count = IF id + 1 > q.count THEN id + 1 ELSE q.count
          /\ r.fault = FALSE
          /\ r = [list |-> r.list, count |-> r.count, update |-> r.update, fault |-> r.fault]
      BY <1>1, <1>2, <2>1, <2>2 DEF AddValue, Add, Resized
    <3> HIDE DEF r
    <3>2. r.update \in Places /\ \A y \in Ids : r.update[y].first <= n + 1 /\ r.update[y].second <= n + 1
      <4> HIDE DEF n
      <4> QED BY <1>1, <1>2, <3>1, PlacesExcept
    <3>4. r.count \in Nat /\ r.list \in Seq(Item) /\ Len(r.list) = n + 1 /\ r.fault \in BOOLEAN
      BY <1>1, <1>2, <1>3, <3>1
    <3>5. InList(r)
      <4> HIDE DEF n
      <4> QED BY <3>1, <3>2, <3>4, InListBy
    <3>6. Slots(q) => Slots(r)
      <4>1. r.count >= q.count /\ id < r.count /\ n + 1 \in Nat
        BY <1>1, <1>2, <3>1
      <4> HIDE DEF n
      <4> QED BY <1>2, <3>1, <3>4, <4>1, SlotsBy
    <3> QED BY <1>4, <2>2, <3>1, <3>5, <3>6 DEF AppendsValue, Effectless, r
  <2>3. CASE q.update[id].first # 0
    <3>1. CASE q.update[id].first + 1 \in 1 .. n
      <4> DEFINE v == Merged(q, id, m)
      <4>1. v \in Item /\ v.type \in {"EntryAssign", "EntryUpdate"}
        <5>1. q.list[q.update[id].first] \in Item
          BY <1>1, <1>2, <2>3
        <5> QED BY <1>2, <1>4, <5>1, HalfRangeAssumption, MessagesAssumption
                DEF Merged, PreviousIndex, EntryAssign, Item, Message, MsgTypes, AnyId, Ids, SeqNums
      <4> HIDE DEF v
      <4>2. r = Replace(q, q.update[id].first + 1, v)
        BY <2>1, <2>3, <3>1 DEF AddValue, MergeIndex, v
      <4>3. /\ r.list = [q.list EXCEPT ![q.update[id].first + 1] = v]
            /\ r.update = q.update /\ r.count = q.count /\ r.fault = FALSE
            /\ r = [list |-> r.list, count |-> r.count, update |-> r.update, fault |-> r.fault]
        BY <1>1, <4>2 DEF Replace
      <4> HIDE DEF r
      <4>4. r.list \in Seq(Item) /\ Len(r.list) = n
        BY <1>1, <3>1, <4>1, <4>3, ListExcept
      <4>5. InList(r)
        BY <1>1, <4>3, <4>4 DEF InList
      <4>6. Slots(q) => Slots(r)
        BY <4>3 DEF Slots
      <4> QED BY <1>4, <2>3, <3>1, <4>1, <4>3, <4>5, <4>6 DEF MergesValue, Effectless, r
    <3>2. CASE q.update[id].first + 1 \notin 1 .. n
      <4>1. r = Fault(q)
        BY <2>1, <2>3, <3>2 DEF AddValue, MergeIndex
      <4>2. /\ r.list = q.list /\ r.update = q.update /\ r.count = q.count /\ r.fault = TRUE
            /\ r = [list |-> r.list, count |-> r.count, update |-> r.update, fault |-> r.fault]
        BY <1>1, <4>1 DEF Fault
      <4> HIDE DEF r
      <4>3. InList(r)
        BY <1>1, <4>2 DEF InList
      <4>4. Slots(q) => Slots(r)
        BY <4>2 DEF Slots
      <4> QED BY <1>4, <2>3, <4>2, <4>3, <4>4 DEF MergesValue, Effectless, r
    <3> QED BY <3>1, <3>2
  <2> QED BY <2>2, <2>3
<1>5. CASE m.type = "EntryDelete"
  <2> DEFINE l == [i \in 1 .. n |-> IF i \in Gone(q, id) THEN Blank ELSE q.list[i]]
  <2>1. l \in Seq(Item) /\ Len(l) = n
    BY <1>1, BlankIsItem
  <2>2. r = AddDelete(q, m)
    BY <1>2, <1>5 DEF QueueOutgoing
  <2>a. l = [i \in DOMAIN q.list |-> IF i \in Gone(q, id) THEN Blank ELSE q.list[i]]
    BY <1>1
  <2> HIDE DEF l
  <2> DEFINE u == [q.update EXCEPT ![id] = NoPlace]
  <2>b. q = QueueOf(q.list, q.count, q.update, q.fault)
    BY <1>1 DEF QueueOf
  <2>c. BlankPending(q, id) = [[q EXCEPT !.list = l] EXCEPT !.update = [@ EXCEPT ![id] = NoPlace]]
    BY <2>a DEF BlankPending, Gone, NoPlace
  <2>d. BlankPending(q, id) = QueueOf(l, q.count, u, q.fault)
    <3>1. [q EXCEPT !.list = l] = QueueOf(l, q.count, q.update, q.fault)
      BY <2>b DEF QueueOf
    <3>2. QueueOf(l, q.count, q.update, q.fault).update = q.update
      BY QueueFields
    <3>3. [QueueOf(l, q.count, q.update, q.fault) EXCEPT !.update = u] = QueueOf(l, q.count, u, q.fault)
      <4> HIDE DEF u
      <4> QED BY DEF QueueOf
    <3> QED BY <2>c, <3>1, <3>2, <3>3
  <2>e. r = QueueOf(Append(l, m), q.count, u, FALSE)
    <3>1. r = Add(QueueOf(l, q.count, u, q.fault), m)
      BY <2>2, <2>d DEF AddDelete
    <3> HIDE DEF r, u
    <3> QED BY <3>1, QueueAdd, Zenon
  <2> HIDE DEF r
  <2>3. /\ r.list = Append(l, m)
        /\ r.update = [q.update EXCEPT ![id] = NoPlace]
        /\ r.count = q.count /\ r.fault = FALSE
        /\ r = [list |-> r.list, count |-> r.count, update |-> r.update, fault |-> r.fault]
    <3>1. r.list = Append(l, m) /\ r.count = q.count /\ r.update = u /\ r.fault = FALSE
      <4> HIDE DEF u
      <4>1. \A f : /\ QueueOf(Append(l, m), q.count, u, f).list = Append(l, m)
                   /\ QueueOf(Append(l, m), q.count, u, f).count = q.count
                   /\ QueueOf(Append(l, m), q.count, u, f).update = u
                   /\ QueueOf(Append(l, m), q.count, u, f).fault = f
        <5> DEFINE k == Append(l, m)
        <5> HIDE DEF k
        <5> QED BY DEF QueueOf, k
      <4>2. r.list = Append(l, m)
        BY <2>e, <4>1, Zenon
      <4>3. r.count = q.count
        BY <2>e, <4>1, Zenon
      <4>4. r.update = u
        BY <2>e, <4>1, Zenon
      <4>5. r.fault = FALSE
        BY <2>e, <4>1, Zenon
      <4> QED BY <4>2, <4>3, <4>4, <4>5, Zenon
    <3>2. r = [list |-> Append(l, m), count |-> q.count, update |-> u, fault |-> FALSE]
      BY <2>e DEF QueueOf
    <3> QED BY <3>1, <3>2, Zenon
  <2>4. r.list \in Seq(Item) /\ Len(r.list) = n + 1
    BY <2>1, <2>3
  <2>5. r.update \in Places /\ \A y \in Ids : r.update[y].first <= n + 1 /\ r.update[y].second <= n + 1
    <3> HIDE DEF n
    <3> QED BY <1>1, <1>2, <2>3, PlacesExcept
  <2>6. r.count \in Nat /\ r.fault \in BOOLEAN
    BY <1>1, <2>3
  <2>7. InList(r)
    <3> HIDE DEF n
    <3> QED BY <1>1, <2>3, <2>4, <2>5, <2>6, InListBy
  <2>8. Slots(q) => Slots(r)
    <3>1. r.count >= q.count
      BY <1>1, <2>3
    <3> QED BY <1>2, <2>3, <2>6, <3>1, SlotsBy
  <2> QED BY <1>5, <2>3, <2>7, <2>8 DEF Deletes, Effectless, r, l
<1>6. CASE m.type = "FlagsUpdate"
  <2>1. r = AddFlags(q, m)
    BY <1>2, <1>6 DEF QueueOutgoing
  <2>2. CASE q.update[id].second # 0
    <3>1. r = Replace(q, q.update[id].second, m)
      BY <2>1, <2>2 DEF AddFlags
    <3>2. /\ r.list = [q.list EXCEPT ![q.update[id].second] = m]
          /\ r.update = q.update /\ r.count = q.count /\ r.fault = FALSE
          /\ r = [list |-> r.list, count |-> r.count, update |-> r.update, fault |-> r.fault]
      BY <1>1, <3>1 DEF Replace
    <3> HIDE DEF r
    <3>3. r.list \in Seq(Item) /\ Len(r.list) = n
      <4>1. q.update[id].second \in 1 .. n
        BY <1>1, <1>2, <2>2
      <4> QED BY <1>1, <3>2, <4>1, ListExcept
    <3>4. InList(r)
      BY <1>1, <3>2, <3>3 DEF InList
    <3>5. Slots(q) => Slots(r)
      BY <3>2 DEF Slots
    <3> QED BY <1>6, <2>2, <3>2, <3>4, <3>5 DEF ReplacesFlags, Effectless, r
  <2>3. CASE q.update[id].second = 0
    <3>a. /\ r.list = Append(q.list, m)
          /\ r.count \in {q.count, id + 1}
          /\ \/ r.fault = FALSE /\ r.update = [q.update EXCEPT ![id].second = n + 1]
             \/ r.fault = TRUE /\ r.update = q.update
          /\ r = [list |-> r.list, count |-> r.count, update |-> r.update, fault |-> r.fault]
      BY <1>1, <1>2, <2>1, <2>3 DEF AddFlags, Add, Resized, Fault
    <3>b. r.count >= q.count /\ (r.update = q.update \/ id < r.count)
      <4>1. CASE id > q.count
        <5>1. r.count = id + 1
          BY <1>1, <1>2, <2>1, <2>3, <4>1 DEF AddFlags, Add, Resized, Fault
        <5> HIDE DEF r
        <5> QED BY <1>1, <1>2, <4>1, <5>1
      <4>2. CASE id < q.count
        <5>1. r.count = q.count
          BY <1>1, <1>2, <2>1, <2>3, <4>2 DEF AddFlags, Add, Resized, Fault
        <5> HIDE DEF r
        <5> QED BY <1>1, <1>2, <4>2, <5>1
      <4>3. CASE id = q.count
        <5>1. r.count = q.count /\ r.update = q.update
          BY <1>1, <1>2, <2>1, <2>3, <4>3 DEF AddFlags, Add, Resized, Fault
        <5> HIDE DEF r
        <5> QED BY <1>1, <1>2, <4>3, <5>1
      <4> QED BY <1>1, <1>2, <4>1, <4>2, <4>3
    <3>1. /\ r.list = Append(q.list, m)
          /\ r.count \in {q.count, id + 1} /\ r.count >= q.count
          /\ \/ r.fault = FALSE /\ r.update = [q.update EXCEPT ![id].second = n + 1]
             \/ r.fault = TRUE /\ r.update = q.update
          /\ r.update = q.update \/ id < r.count
          /\ r = [list |-> r.list, count |-> r.count, update |-> r.update, fault |-> r.fault]
      <4> HIDE DEF r
      <4> QED BY <3>a, <3>b
    <3> HIDE DEF r
    <3>2. r.update \in Places /\ \A y \in Ids : r.update[y].first <= n + 1 /\ r.update[y].second <= n + 1
      <4> HIDE DEF n
      <4> QED BY <1>1, <1>2, <3>1, PlacesExcept
    <3>4. r.count \in Nat /\ r.list \in Seq(Item) /\ Len(r.list) = n + 1 /\ r.fault \in BOOLEAN
      BY <1>1, <1>2, <1>3, <3>1
    <3>5. InList(r)
      <4> HIDE DEF n
      <4> QED BY <3>1, <3>2, <3>4, InListBy
    <3>6. Slots(q) => Slots(r)
      <4>1. n + 1 \in Nat
        BY <1>1
      <4> HIDE DEF n
      <4> QED BY <1>2, <3>1, <3>4, <4>1, SlotsBy
    <3> QED BY <1>6, <2>3, <3>1, <3>5, <3>6 DEF AppendsFlags, Effectless, r
  <2> QED BY <2>2, <2>3
<1>7. CASE m.type = "ClearEntries"
  <2> DEFINE l == [i \in 1 .. n |-> IF q.list[i].type \in EntryTypes THEN Blank ELSE q.list[i]]
  <2>1. l \in Seq(Item) /\ Len(l) = n
    BY <1>1, BlankIsItem
  <2>2. r = AddClear(q, m)
    BY <1>7 DEF QueueOutgoing
  <2>a. l = [i \in DOMAIN q.list |-> IF q.list[i].type \in EntryTypes THEN Blank ELSE q.list[i]]
    BY <1>1
  <2> HIDE DEF l
  <2> DEFINE u == [y \in Ids |-> NoPlace]
  <2>b. [EmptyQueue EXCEPT !.list = l] = QueueOf(l, 0, u, FALSE)
    <3>1. EmptyQueue = QueueOf(<<>>, 0, u, FALSE)
      BY DEF EmptyQueue, NoPlace, QueueOf
    <3> HIDE DEF u
    <3>2. \A f : [QueueOf(<<>>, 0, u, f) EXCEPT !.list = l] = QueueOf(l, 0, u, f)
      BY DEF QueueOf
    <3> QED BY <3>1, <3>2, Zenon
  <2>3. /\ r.list = Append(l, m)
        /\ r.update = [y \in Ids |-> NoPlace]
        /\ r.count = 0 /\ r.fault = FALSE
        /\ r = [list |-> r.list, count |-> r.count, update |-> r.update, fault |-> r.fault]
    <3>1. r = Add([EmptyQueue EXCEPT !.list = l], m)
      BY <2>2, <2>a DEF AddClear
    <3>2. r = QueueOf(Append(l, m), 0, u, FALSE)
      <4> HIDE DEF r, u
      <4>1. r = Add(QueueOf(l, 0, u, FALSE), m)
        BY <2>b, <3>1
      <4> QED BY <4>1, QueueAdd, Zenon
    <3> HIDE DEF r
    <3>3. r.list = Append(l, m) /\ r.count = 0 /\ r.update = u /\ r.fault = FALSE
      <4> HIDE DEF u
      <4>1. \A f : /\ QueueOf(Append(l, m), 0, u, f).list = Append(l, m)
                   /\ QueueOf(Append(l, m), 0, u, f).count = 0
                   /\ QueueOf(Append(l, m), 0, u, f).update = u
                   /\ QueueOf(Append(l, m), 0, u, f).fault = f
        <5> DEFINE k == Append(l, m)
        <5> HIDE DEF k
        <5> QED BY DEF QueueOf, k
      <4>2. r.list = Append(l, m)
        BY <3>2, <4>1, Zenon
      <4>3. r.count = 0
        BY <3>2, <4>1, Zenon
      <4>4. r.update = u
        BY <3>2, <4>1, Zenon
      <4>5. r.fault = FALSE
        BY <3>2, <4>1, Zenon
      <4> QED BY <4>2, <4>3, <4>4, <4>5, Zenon
    <3>4. r = [list |-> Append(l, m), count |-> 0, update |-> u, fault |-> FALSE]
      BY <3>2 DEF QueueOf
    <3> QED BY <3>3, <3>4, Zenon
  <2> HIDE DEF r
  <2>4. r.list \in Seq(Item) /\ Len(r.list) = n + 1
    BY <2>1, <2>3
  <2>5. r.update \in Places
        /\ \A y \in Ids : r.update[y].first <= n + 1 /\ r.update[y].second <= n + 1
    BY <1>1, <2>3 DEF Places, NoPlace
  <2>6. r.count \in Nat /\ r.fault \in BOOLEAN
    <3>1. r.count = 0 /\ r.fault = FALSE
      BY <2>3
    <3>2. r.count \in Nat
      BY <3>1
    <3>3. r.fault \in BOOLEAN
      BY <3>1, Zenon
    <3> QED BY <3>2, <3>3
  <2>7. InList(r)
    <3> HIDE DEF n
    <3> QED BY <2>3, <2>4, <2>5, <2>6, InListBy
  <2>8. Slots(r)
    BY <2>3 DEF Slots
  <2> QED BY <1>7, <2>3, <2>7, <2>8 DEF Clears, Effectless, r, l
<1>8. CASE m.type \in Effectless
  <2>1. r = Add(q, m)
    BY <1>8 DEF QueueOutgoing, Effectless
  <2>2. /\ r.list = Append(q.list, m) /\ r.update = q.update
        /\ r.count = q.count /\ r.fault = FALSE
        /\ r = [list |-> r.list, count |-> r.count, update |-> r.update, fault |-> r.fault]
    BY <1>1, <2>1 DEF Add
  <2> HIDE DEF r
  <2>3. \A y \in Ids : r.update[y].first <= n + 1 /\ r.update[y].second <= n + 1
    BY <1>1, <2>2
  <2>4. InList(r)
    BY <1>1, <1>3, <2>2, <2>3 DEF InList
  <2>5. Slots(q) => Slots(r)
    BY <2>2 DEF Slots
  <2> QED BY <1>8, <2>2, <2>4, <2>5 DEF AppendsOther, Effectless, r
<1> QED BY <1>2, <1>4, <1>5, <1>6, <1>7, <1>8 DEF MsgTypes, Effectless
-----------------------------------------------------------------------------
(* Nothing comes before a clear. *)

\* before position i there is nothing to read, and no place remembered is there
ClearLeads(q, i) ==
    /\ \A j \in 1 .. i - 1 : q.list[j].type \in Effectless
    /\ \A id \in Ids : /\ q.update[id].first # 0 => q.update[id].first > i
                       /\ q.update[id].second # 0 => q.update[id].second > i

HasClear(s) == \E i \in 1 .. Len(s) : s[i].type = "ClearEntries"

Leads(q) == \A i \in 1 .. Len(q.list) : q.list[i].type = "ClearEntries" => ClearLeads(q, i)

\* A message added at the end, whatever places are remembered there.
LEMMA LeadsAppend ==
  ASSUME NEW q, InList(q), Leads(q), NEW m \in Item, m.type # "ClearEntries",
         NEW r, r.list = Append(q.list, m),
         \A id \in Ids : /\ r.update[id].first \in {q.update[id].first, Len(q.list) + 1}
                         /\ r.update[id].second \in {q.update[id].second, Len(q.list) + 1}
  PROVE  Leads(r) /\ (HasClear(q.list) => HasClear(r.list))
<1> DEFINE n == Len(q.list)
<1>1. q.list \in Seq(Item) /\ n \in Nat
  BY DEF InList
<1>2. Len(r.list) = n + 1 /\ r.list[n + 1] = m /\ \A i \in 1 .. n : r.list[i] = q.list[i]
  BY <1>1
<1>3. ASSUME NEW i \in 1 .. Len(r.list), r.list[i].type = "ClearEntries"
      PROVE  ClearLeads(r, i)
  <2>1. i \in 1 .. n
    BY <1>1, <1>2, <1>3
  <2>2. ClearLeads(q, i)
    BY <1>2, <1>3, <2>1 DEF Leads
  <2>3. \A j \in 1 .. i - 1 : r.list[j].type \in Effectless
    BY <1>1, <1>2, <2>1, <2>2 DEF ClearLeads
  <2> HIDE DEF n
  <2> QED BY <1>1, <2>1, <2>2, <2>3 DEF ClearLeads, n
<1>4. HasClear(q.list) => HasClear(r.list)
  <2> HIDE DEF n
  <2> QED BY <1>1, <1>2 DEF HasClear, n
<1> QED BY <1>3, <1>4 DEF Leads

\* Messages changed in places after the clear.
LEMMA LeadsExcept ==
  ASSUME NEW q, InList(q), Leads(q), NEW r, Len(r.list) = Len(q.list),
         \A id \in Ids : /\ r.update[id].first \in {q.update[id].first, 0}
                         /\ r.update[id].second \in {q.update[id].second, 0},
         \A j \in 1 .. Len(q.list) :
            \/ r.list[j] = q.list[j]
            \/ /\ r.list[j].type # "ClearEntries"
               /\ \E id \in Ids : \/ q.update[id].first # 0 /\ j >= q.update[id].first
                                  \/ q.update[id].second # 0 /\ j >= q.update[id].second
  PROVE  Leads(r) /\ (HasClear(q.list) => HasClear(r.list))
<1> DEFINE n == Len(q.list)
<1>1. /\ q.list \in Seq(Item) /\ n \in Nat
      /\ \A id \in Ids : q.update[id].first \in Nat /\ q.update[id].second \in Nat
  BY DEF InList, Places
<1>2. ASSUME NEW i \in 1 .. n, q.list[i].type = "ClearEntries"
      PROVE  \A j \in 1 .. i : r.list[j] = q.list[j]
  <2>1. ClearLeads(q, i)
    BY <1>2 DEF Leads
  <2> TAKE j \in 1 .. i
  <2>2. j \in 1 .. n /\ i \in Nat /\ j \in Nat /\ j <= i
    BY <1>1
  <2>3. ASSUME NEW id \in Ids, q.update[id].first # 0 PROVE ~ (j >= q.update[id].first)
    BY <1>1, <2>1, <2>2, <2>3 DEF ClearLeads
  <2>4. ASSUME NEW id \in Ids, q.update[id].second # 0 PROVE ~ (j >= q.update[id].second)
    BY <1>1, <2>1, <2>2, <2>4 DEF ClearLeads
  <2> QED BY <2>2, <2>3, <2>4
<1>3. ASSUME NEW i \in 1 .. n, r.list[i].type = "ClearEntries"
      PROVE  ClearLeads(r, i)
  <2>1. q.list[i] = r.list[i]
    BY <1>3
  <2>2. ClearLeads(q, i) /\ \A j \in 1 .. i : r.list[j] = q.list[j]
    BY <1>2, <1>3, <2>1 DEF Leads
  <2>3. \A j \in 1 .. i - 1 : j \in 1 .. i
    BY <1>1
  <2>4. \A j \in 1 .. i - 1 : r.list[j].type \in Effectless
    BY <2>2, <2>3 DEF ClearLeads
  <2> HIDE DEF n
  <2> QED BY <1>1, <2>2, <2>4 DEF ClearLeads
<1>4. HasClear(q.list) => HasClear(r.list)
  <2> SUFFICES ASSUME NEW i \in 1 .. n, q.list[i].type = "ClearEntries"
               PROVE  HasClear(r.list)
    BY DEF HasClear
  <2>1. i \in 1 .. i
    BY <1>1
  <2>2. r.list[i] = q.list[i]
    BY <1>2, <2>1
  <2> QED BY <2>2 DEF HasClear
<1> QED BY <1>3, <1>4 DEF Leads

\* A clear that is queued comes first of what there is to read, and stays.
LEMMA ClearStays ==
  ASSUME NEW q, InList(q), Leads(q), NEW m \in Item, m.type # "Unknown"
  PROVE  LET r == QueueOutgoing(q, m) IN
         /\ Leads(r)
         /\ HasClear(q.list) \/ m.type = "ClearEntries" => HasClear(r.list)
<1> DEFINE r == QueueOutgoing(q, m)
           n == Len(q.list)
<1>1. /\ q.list \in Seq(Item) /\ n \in Nat /\ q.update \in Places
      /\ \A id \in Ids : /\ q.update[id].first \in Nat /\ q.update[id].second \in Nat
                         /\ q.update[id].first <= n /\ q.update[id].second <= n
  BY DEF InList, Places
<1>2. m.id \in Ids /\ m.type \in {"EntryAssign", "EntryUpdate", "FlagsUpdate", "EntryDelete",
                                   "ClearEntries", "ExecuteRpc"}
  BY DEF Item, Message, MsgTypes
<1>3. /\ InList(r)
      /\ m.type \in {"EntryAssign", "EntryUpdate"} => AppendsValue(q, r, m) \/ MergesValue(q, r, m)
      /\ m.type = "EntryDelete" => Deletes(q, r, m)
      /\ m.type = "FlagsUpdate" => ReplacesFlags(q, r, m) \/ AppendsFlags(q, r, m)
      /\ m.type = "ClearEntries" => Clears(q, r, m)
      /\ m.type \in Effectless => AppendsOther(q, r, m)
  BY QueueShape
<1> HIDE DEF r
<1>4. CASE m.type \in {"EntryAssign", "EntryUpdate"} /\ AppendsValue(q, r, m)
  <2>1. \A id \in Ids : /\ r.update[id].first \in {q.update[id].first, n + 1}
                        /\ r.update[id].second \in {q.update[id].second, n + 1}
    BY <1>1, <1>2, <1>4 DEF AppendsValue, Places
  <2>2. r.list = Append(q.list, m) /\ m.type # "ClearEntries"
    BY <1>4 DEF AppendsValue
  <2> QED BY <2>1, <2>2, LeadsAppend DEF r
<1>5. CASE m.type \in {"EntryAssign", "EntryUpdate"} /\ MergesValue(q, r, m)
  <2> DEFINE f == q.update[m.id].first
  <2>1. f # 0 /\ f \in Nat /\ f <= n /\ r.update = q.update
    BY <1>1, <1>2, <1>5 DEF MergesValue
  <2>2. /\ Len(r.list) = n
        /\ \A j \in 1 .. n : r.list[j] = q.list[j] \/ (j = f + 1 /\ r.list[j].type # "ClearEntries")
    <3>1. CASE r.list = q.list
      BY <3>1
    <3>2. CASE r.list # q.list
      <4>1. PICK v \in Item : /\ v.type \in {"EntryAssign", "EntryUpdate"}
                              /\ r.list = [q.list EXCEPT ![f + 1] = v] /\ f + 1 \in 1 .. n
        BY <1>5, <3>2 DEF MergesValue
      <4> HIDE DEF f, n
      <4> QED BY <1>1, <4>1, ListExcept DEF n
    <3> QED BY <3>1, <3>2
  <2>3. \A j \in 1 .. n : j = f + 1 => j >= f
    BY <2>1
  <2>4. \A j \in 1 .. n :
           \/ r.list[j] = q.list[j]
           \/ /\ r.list[j].type # "ClearEntries"
              /\ \E id \in Ids : \/ q.update[id].first # 0 /\ j >= q.update[id].first
                                 \/ q.update[id].second # 0 /\ j >= q.update[id].second
    BY <1>2, <2>1, <2>2, <2>3
  <2>5. \A id \in Ids : /\ r.update[id].first \in {q.update[id].first, 0}
                        /\ r.update[id].second \in {q.update[id].second, 0}
    BY <2>1
  <2>6. Leads(r) /\ (HasClear(q.list) => HasClear(r.list))
    BY <2>2, <2>4, <2>5, LeadsExcept
  <2> QED BY <1>5, <2>6 DEF r
<1>6. CASE m.type = "EntryDelete"
  <2> DEFINE l == [i \in 1 .. n |-> IF i \in Gone(q, m.id) THEN Blank ELSE q.list[i]]
             mid == [r EXCEPT !.list = l]
  <2>1. Deletes(q, r, m)
    BY <1>3, <1>6
  <2>2. l \in Seq(Item) /\ Len(l) = n
    BY <1>1, BlankIsItem
  <2>3. r \in [list : Seq(Item), count : Nat, update : Places, fault : BOOLEAN]
        /\ r.update = [q.update EXCEPT ![m.id] = NoPlace]
    BY <1>3, <2>1 DEF InList, Deletes
  <2>4. \A i \in 1 .. n : l[i] = IF i \in Gone(q, m.id) THEN Blank ELSE q.list[i]
    OBVIOUS
  <2>5. r.list = Append(l, m)
    BY <2>1 DEF Deletes
  <2> HIDE DEF l
  <2>6. mid.list = l /\ mid.update = r.update
        /\ mid \in [list : Seq(Item), count : Nat, update : Places, fault : BOOLEAN]
    BY <2>2, <2>3
  <2> HIDE DEF mid
  <2>7. \A id \in Ids : /\ r.update[id].first \in {q.update[id].first, 0}
                        /\ r.update[id].second \in {q.update[id].second, 0}
    BY <1>1, <1>2, <2>3 DEF Places, NoPlace
  <2>8. ASSUME NEW j \in 1 .. n
        PROVE  \/ l[j] = q.list[j]
               \/ /\ l[j].type # "ClearEntries"
                  /\ \E id \in Ids : \/ q.update[id].first # 0 /\ j >= q.update[id].first
                                     \/ q.update[id].second # 0 /\ j >= q.update[id].second
    <3>1. CASE j \in Gone(q, m.id)
      <4>1. l[j] = Blank
        BY <2>4, <3>1
      <4>2. \/ q.update[m.id].first # 0 /\ j >= q.update[m.id].first
            \/ q.update[m.id].second # 0 /\ j >= q.update[m.id].second
        BY <1>1, <3>1 DEF Gone
      <4> QED BY <1>2, <4>1, <4>2, BlankIsItem
    <3>2. CASE j \notin Gone(q, m.id)
      BY <2>4, <3>2
    <3> QED BY <3>1, <3>2
  <2>9. Leads(mid) /\ (HasClear(q.list) => HasClear(mid.list))
    BY <2>2, <2>6, <2>7, <2>8, LeadsExcept
  <2>10. InList(mid)
    <3>1. \A id \in Ids : mid.update[id].first <= n /\ mid.update[id].second <= n
      BY <1>1, <2>6, <2>7
    <3> QED BY <2>2, <2>6, <3>1 DEF InList
  <2>11. Leads(r) /\ (HasClear(mid.list) => HasClear(r.list))
    BY <1>6, <2>5, <2>6, <2>9, <2>10, LeadsAppend
  <2> QED BY <1>6, <2>9, <2>11 DEF r
<1>7. CASE m.type = "FlagsUpdate" /\ ReplacesFlags(q, r, m)
  <2> DEFINE f == q.update[m.id].second
  <2>1. f # 0 /\ f \in 1 .. n /\ r.update = q.update /\ r.list = [q.list EXCEPT ![f] = m]
    BY <1>1, <1>2, <1>7 DEF ReplacesFlags
  <2>2. Len(r.list) = n /\ \A j \in 1 .. n : r.list[j] = q.list[j] \/ (j = f /\ r.list[j] = m)
    <3> HIDE DEF f, n
    <3> QED BY <1>1, <2>1, ListExcept DEF n
  <2>3. \A j \in 1 .. n :
           \/ r.list[j] = q.list[j]
           \/ /\ r.list[j].type # "ClearEntries"
              /\ \E id \in Ids : \/ q.update[id].first # 0 /\ j >= q.update[id].first
                                 \/ q.update[id].second # 0 /\ j >= q.update[id].second
    BY <1>2, <1>7, <2>1, <2>2
  <2>4. \A id \in Ids : /\ r.update[id].first \in {q.update[id].first, 0}
                        /\ r.update[id].second \in {q.update[id].second, 0}
    BY <2>1
  <2>5. Leads(r) /\ (HasClear(q.list) => HasClear(r.list))
    BY <2>2, <2>3, <2>4, LeadsExcept
  <2> QED BY <1>7, <2>5 DEF r
<1>8. CASE m.type = "FlagsUpdate" /\ AppendsFlags(q, r, m)
  <2>1. \A id \in Ids : /\ r.update[id].first \in {q.update[id].first, n + 1}
                        /\ r.update[id].second \in {q.update[id].second, n + 1}
    <3>1. r.update = q.update \/ r.update = [q.update EXCEPT ![m.id].second = n + 1]
      BY <1>8 DEF AppendsFlags
    <3>2. CASE r.update = q.update
      BY <3>2
    <3>3. CASE r.update = [q.update EXCEPT ![m.id].second = n + 1]
      BY <1>1, <1>2, <1>8, <3>3 DEF AppendsFlags, Places
    <3> QED BY <3>1, <3>2, <3>3
  <2>2. r.list = Append(q.list, m) /\ m.type # "ClearEntries"
    BY <1>8 DEF AppendsFlags
  <2> QED BY <2>1, <2>2, LeadsAppend DEF r
<1>9. CASE m.type = "ClearEntries"
  <2> DEFINE l == [i \in 1 .. n |-> IF q.list[i].type \in EntryTypes THEN Blank ELSE q.list[i]]
  <2>1. r.list = Append(l, m) /\ r.update = [id \in Ids |-> NoPlace]
    BY <1>3, <1>9 DEF Clears
  <2>2. l \in Seq(Item) /\ Len(l) = n
    BY <1>1, BlankIsItem
  <2>3. \A i \in 1 .. n : l[i].type \in Effectless
    <3> TAKE i \in 1 .. n
    <3>1. q.list[i].type \in EntryTypes \/ q.list[i].type \in Effectless
      BY <1>1 DEF EntryTypes, Effectless, Item, Message, MsgTypes
    <3> QED BY <3>1, BlankIsItem DEF Effectless
  <2> HIDE DEF l
  <2>4. Len(r.list) = n + 1 /\ r.list[n + 1] = m /\ \A i \in 1 .. n : r.list[i] = l[i]
    BY <2>1, <2>2
  <2>5. HasClear(r.list)
    <3>1. n + 1 \in 1 .. Len(r.list)
      BY <1>1, <2>4
    <3> QED BY <1>9, <2>4, <3>1 DEF HasClear
  <2>6. ASSUME NEW i \in 1 .. Len(r.list), r.list[i].type = "ClearEntries"
        PROVE  ClearLeads(r, i)
    <3>1. \A j \in 1 .. i - 1 : j \in 1 .. n
      BY <1>1, <2>4
    <3>2. \A j \in 1 .. i - 1 : r.list[j].type \in Effectless
      BY <2>3, <2>4, <3>1
    <3> QED BY <2>1, <3>2 DEF ClearLeads, NoPlace
  <2> QED BY <2>5, <2>6 DEF r, Leads
<1>10. CASE m.type \in Effectless
  <2>1. r.list = Append(q.list, m) /\ m.type # "ClearEntries"
        /\ \A id \in Ids : /\ r.update[id].first \in {q.update[id].first, n + 1}
                           /\ r.update[id].second \in {q.update[id].second, n + 1}
    BY <1>3, <1>10 DEF AppendsOther, Effectless
  <2> QED BY <2>1, LeadsAppend DEF r
<1> QED BY <1>2, <1>3, <1>4, <1>5, <1>6, <1>7, <1>8, <1>9, <1>10 DEF Effectless
-----------------------------------------------------------------------------
(* The steps. *)

QueueInv ==
    /\ InList(queue) /\ Leads(queue) /\ Slots(queue)
    /\ given \in Seq(Item)
    /\ flagsOf \in [Ids -> BOOLEAN \cup {Nil}]
    /\ synced \in [Ids -> BOOLEAN \cup {Nil}]
    /\ nextId \in AnyId
    /\ collided \in BOOLEAN /\ faulted \in BOOLEAN
    /\ HasClear(given) => HasClear(queue.list)

\* The server queues no blank.
LEMMA QueueableItems == QueueInv => Queueable \subseteq {m \in Item : m.type # "Unknown"}
<1> SUFFICES ASSUME QueueInv, NEW m \in Queueable PROVE m \in Item /\ m.type # "Unknown"
  OBVIOUS
<1>1. /\ Live \subseteq Ids /\ Ids \subseteq AnyId /\ 0 \in Ids /\ 0 \in SeqNums
      /\ {nextId} \ {Unassigned} \subseteq Ids
  BY HalfRangeAssumption, MessagesAssumption DEF QueueInv, Live, Ids, AnyId, SeqNums
<1>2. CASE \E name \in Names, value \in Values, flags \in BOOLEAN,
              id \in Live \cup ({nextId} \ {Unassigned}) :
              m = EntryAssign(name, id, 0, value, flags)
  BY <1>1, <1>2 DEF EntryAssign, Item, Message, MsgTypes
<1>3. CASE \E id \in Live, value \in Values : m = EntryUpdate(id, 0, value)
  BY <1>1, <1>3 DEF EntryUpdate, Blank, Item, Message, MsgTypes
<1>4. CASE \E id \in Live, flags \in BOOLEAN : m = FlagsUpdate(id, flags)
  BY <1>1, <1>4 DEF FlagsUpdate, Blank, Item, Message, MsgTypes
<1>5. CASE \E id \in Live : m = EntryDelete(id)
  BY <1>1, <1>5 DEF EntryDelete, Blank, Item, Message, MsgTypes
<1>6. CASE m \in {ClearEntries, ExecuteRpc(0, 0)}
  BY <1>1, <1>6 DEF ClearEntries, ExecuteRpc, Blank, Item, Message, MsgTypes
<1> QED BY <1>2, <1>3, <1>4, <1>5, <1>6 DEF Queueable

\* The server's flags stay flags.
LEMMA FlagsAfterType ==
  ASSUME QueueInv, NEW m \in Item
  PROVE  FlagsAfter(m) \in [Ids -> BOOLEAN \cup {Nil}]
<1>1. m.id \in Ids /\ m.flags \in BOOLEAN
  BY DEF Item, Message
<1> QED BY <1>1 DEF QueueInv, FlagsAfter

\* PostOutgoing leaves a queue with nothing in it and no places.
LEMMA EmptyInv ==
  InList(EmptyQueue) /\ Leads(EmptyQueue) /\ Slots(EmptyQueue) /\ EmptyQueue.list = <<>> /\ Len(<<>>) = 0
<1>1. /\ EmptyQueue = [list |-> <<>>, count |-> 0, update |-> [id \in Ids |-> NoPlace], fault |-> FALSE]
      /\ EmptyQueue.list = <<>> /\ Len(<<>>) = 0 /\ <<>> \in Seq(Item)
      /\ [id \in Ids |-> NoPlace] \in Places
      /\ \A y \in Ids : [id \in Ids |-> NoPlace][y].first <= 0 /\ [id \in Ids |-> NoPlace][y].second <= 0
  BY DEF EmptyQueue, NoPlace, Places
<1>2. InList(EmptyQueue)
  BY <1>1, InListBy
<1>3. Leads(EmptyQueue)
  BY <1>1 DEF Leads
<1>4. Slots(EmptyQueue)
  BY <1>1 DEF Slots
<1> QED BY <1>1, <1>2, <1>3, <1>4

\* An interval that has just begun has no clear in it.
LEMMA NothingGiven == <<>> \in Seq(Item) /\ ~ HasClear(<<>>) /\ FALSE \in BOOLEAN
  BY DEF HasClear

\* A connection begins with nothing pending.
LEMMA QueueInitially == FlushInit => QueueInv
<1> SUFFICES ASSUME FlushInit PROVE QueueInv
  OBVIOUS
<1>1. queue = EmptyQueue /\ given = <<>> /\ collided = FALSE /\ faulted = FALSE
  BY Zenon DEF FlushInit
<1>2. InList(queue) /\ Leads(queue) /\ Slots(queue) /\ given \in Seq(Item) /\ ~ HasClear(given)
  BY <1>1, EmptyInv, NothingGiven, Zenon
<1>3. collided \in BOOLEAN /\ faulted \in BOOLEAN
  BY <1>1, NothingGiven, Zenon
<1>4. /\ nextId \in AnyId /\ flagsOf \in [Ids -> BOOLEAN \cup {Nil}]
      /\ synced \in [Ids -> BOOLEAN \cup {Nil}]
  BY Zenon DEF FlushInit
<1> QED BY <1>2, <1>3, <1>4, Zenon DEF QueueInv

\* Every message queued, and every flush, keeps the invariant.
LEMMA QueueKept == QueueInv /\ [FlushNext]_flushVars => QueueInv'
<1> SUFFICES ASSUME QueueInv, [FlushNext]_flushVars PROVE QueueInv'
  OBVIOUS
<1>1. CASE UNCHANGED flushVars
  BY <1>1 DEF QueueInv, flushVars
<1>2. CASE PostOutgoing
  <2>1. queue' = EmptyQueue /\ given' = <<>> /\ collided' = FALSE /\ faulted' = FALSE
    BY <1>2, Zenon DEF PostOutgoing
  <2>2. InList(queue') /\ Leads(queue') /\ Slots(queue') /\ given' \in Seq(Item) /\ ~ HasClear(given')
    BY <2>1, EmptyInv, NothingGiven, Zenon
  <2>3. collided' \in BOOLEAN /\ faulted' \in BOOLEAN
    BY <2>1, NothingGiven, Zenon
  <2>4. /\ nextId' \in AnyId /\ flagsOf' \in [Ids -> BOOLEAN \cup {Nil}]
        /\ synced' \in [Ids -> BOOLEAN \cup {Nil}]
    BY <1>2 DEF PostOutgoing, QueueInv
  <2> QED BY <2>2, <2>3, <2>4, Zenon DEF QueueInv
<1>3. ASSUME NEW m \in Queueable, Queue(m) PROVE QueueInv'
  <2>1. m \in Item /\ m.type # "Unknown"
    BY QueueableItems
  <2>2. InList(queue') /\ Slots(queue')
    BY <1>3, <2>1, QueueShape DEF Queue, QueueInv
  <2>3. Leads(queue') /\ (HasClear(queue.list) \/ m.type = "ClearEntries" => HasClear(queue'.list))
    BY <1>3, <2>1, ClearStays DEF Queue, QueueInv
  <2>4. given' = Append(given, m) /\ given' \in Seq(Item)
        /\ (HasClear(given') => HasClear(given) \/ m.type = "ClearEntries")
    BY <1>3, <2>1 DEF Queue, QueueInv, HasClear
  <2>5. HasClear(given') => HasClear(queue'.list)
    BY <2>3, <2>4 DEF QueueInv
  <2>6. flagsOf' \in [Ids -> BOOLEAN \cup {Nil}] /\ synced' = synced
    BY <1>3, <2>1, FlagsAfterType DEF Queue
  <2>7. nextId' \in AnyId
    <3>1. CASE m.type = "EntryAssign" /\ m.id = nextId
      <4>1. nextId' = nextId + 1 /\ nextId \in Ids
        BY <1>3, <2>1, <3>1 DEF Queue, Item
      <4> QED BY <4>1, MessagesAssumption DEF AnyId, Ids
    <3>2. CASE ~ (m.type = "EntryAssign" /\ m.id = nextId)
      BY <1>3, <3>2 DEF Queue, QueueInv
    <3> QED BY <3>1, <3>2
  <2>8. collided' \in BOOLEAN /\ faulted' \in BOOLEAN
    <3>1. queue'.fault \in BOOLEAN
      BY <2>2 DEF InList
    <3> QED BY <1>3, <3>1 DEF Queue
  <2> QED BY <2>2, <2>3, <2>4, <2>5, <2>6, <2>7, <2>8 DEF QueueInv
<1> QED BY <1>1, <1>2, <1>3 DEF FlushNext

\* Of whatever QueueOutgoing did since the last PostOutgoing: every place that is
\* remembered is one of the list, and before a clear there is nothing to read.
THEOREM QueueInvariance == FlushSpec => []QueueInv
  BY QueueInitially, QueueKept, PTL DEF FlushSpec

\* QueueOutgoing looks for the message it merges with only where there is one:
\* the positions in m_pendingUpdate are positions of m_pendingOutgoing, and of an
\* id beyond its Count there is none.
THEOREM PositionsInListHolds == FlushSpec => []PositionsInList
<1>1. QueueInv => PositionsInList
  BY DEF QueueInv, PositionsInList, InList, Slots, NoPlace
<1> QED BY <1>1, QueueInvariance, PTL

\* The types of the pending messages, of m_pendingUpdate and of the tables.
THEOREM FlushTypeCorrect == FlushSpec => []FlushTypeOK
<1>1. QueueInv => FlushTypeOK
  <2> SUFFICES ASSUME QueueInv PROVE FlushTypeOK
    OBVIOUS
  <2>1. Item \subseteq Message
    BY DEF Item
  <2>2. queue.list \in Seq(Message) /\ given \in Seq(Message)
    BY <2>1 DEF QueueInv, InList
  <2>3. queue \in [list : Seq(Message), count : Nat,
                  update : [Ids -> [first : Nat, second : Nat]], fault : BOOLEAN]
    BY <2>2 DEF QueueInv, InList, Places
  <2> QED BY <2>2, <2>3 DEF QueueInv, FlushTypeOK
<1> QED BY <1>1, QueueInvariance, PTL

\* AddClear blanks what is pending, and no call that follows takes its place:
\* nothing queued before a ClearEntries is left to be read.
THEOREM ClearedForGoodHolds == FlushSpec => []ClearedForGood
<1>1. QueueInv => ClearedForGood
  <2> SUFFICES ASSUME QueueInv, NEW k \in DOMAIN given, given[k].type = "ClearEntries"
               PROVE  \E i \in DOMAIN queue.list :
                         /\ queue.list[i].type = "ClearEntries"
                         /\ \A j \in 1 .. (i - 1) : queue.list[j].type \in {"Unknown", "ExecuteRpc"}
    BY DEF ClearedForGood
  <2>1. HasClear(queue.list)
    BY DEF QueueInv, HasClear
  <2>2. PICK i \in 1 .. Len(queue.list) : queue.list[i].type = "ClearEntries"
    BY <2>1 DEF HasClear
  <2>3. ClearLeads(queue, i)
    BY <2>2 DEF QueueInv, Leads
  <2>4. i \in DOMAIN queue.list
    BY <2>2 DEF QueueInv, InList
  <2> QED BY <2>2, <2>3, <2>4 DEF ClearLeads, Effectless
<1> QED BY <1>1, QueueInvariance, PTL
-----------------------------------------------------------------------------
(* What is pending of each entry is where its places say. *)

AtPlaces(q) ==
    /\ \A i \in 1 .. Len(q.list) :
          /\ q.list[i].type \in {"EntryAssign", "EntryUpdate"} => q.update[q.list[i].id].first = i
          /\ q.list[i].type = "FlagsUpdate" => q.update[q.list[i].id].second = i
    /\ \A id \in Ids :
          /\ q.update[id].first # 0 =>
                /\ q.list[q.update[id].first].type \in {"EntryAssign", "EntryUpdate"}
                /\ q.list[q.update[id].first].id = id
          /\ q.update[id].second # 0 =>
                /\ q.list[q.update[id].second].type = "FlagsUpdate"
                /\ q.list[q.update[id].second].id = id

\* Unless a value meets one pending, or the call throws.
LEMMA PlacesKept ==
  ASSUME NEW q, InList(q), AtPlaces(q), NEW m \in Item, m.type # "Unknown", ~ Meets(q, m),
         NEW r, r = QueueOutgoing(q, m), ~ r.fault
  PROVE  AtPlaces(r)
<1> DEFINE n == Len(q.list)
<1>1. /\ q.list \in Seq(Item) /\ n \in Nat /\ q.update \in Places
      /\ \A id \in Ids : /\ q.update[id] \in [first : Nat, second : Nat]
                         /\ q.update[id].first \in Nat /\ q.update[id].second \in Nat
                         /\ q.update[id].first <= n /\ q.update[id].second <= n
      /\ \A i \in 1 .. n : q.list[i].id \in Ids
  BY DEF InList, Places, Item
<1>2. m.id \in Ids /\ m.type \in {"EntryAssign", "EntryUpdate", "FlagsUpdate", "EntryDelete",
                                   "ClearEntries", "ExecuteRpc"}
  BY DEF Item, Message, MsgTypes
<1>3. /\ InList(r)
      /\ m.type \in {"EntryAssign", "EntryUpdate"} => AppendsValue(q, r, m) \/ MergesValue(q, r, m)
      /\ m.type = "EntryDelete" => Deletes(q, r, m)
      /\ m.type = "FlagsUpdate" => ReplacesFlags(q, r, m) \/ AppendsFlags(q, r, m)
      /\ m.type = "ClearEntries" => Clears(q, r, m)
      /\ m.type \in Effectless => AppendsOther(q, r, m)
  BY QueueShape
<1>4. m.id # Unassigned
  BY <1>2, MessagesAssumption DEF Ids
<1>5. \A i \in 1 .. n :
         /\ q.list[i].type \in {"EntryAssign", "EntryUpdate"} => q.update[q.list[i].id].first = i
         /\ q.list[i].type = "FlagsUpdate" => q.update[q.list[i].id].second = i
  BY DEF AtPlaces
<1>6. \A id \in Ids :
         /\ q.update[id].first # 0 =>
               /\ q.update[id].first \in 1 .. n
               /\ q.list[q.update[id].first].type \in {"EntryAssign", "EntryUpdate"}
               /\ q.list[q.update[id].first].id = id
         /\ q.update[id].second # 0 =>
               /\ q.update[id].second \in 1 .. n
               /\ q.list[q.update[id].second].type = "FlagsUpdate"
               /\ q.list[q.update[id].second].id = id
  BY <1>1 DEF AtPlaces
\* added at the end, with the place of it remembered
<1>7. ASSUME r.list = Append(q.list, m),
             \A id \in Ids \ {m.id} : r.update[id] = q.update[id],
             r.update[m.id].first =
                IF m.type \in {"EntryAssign", "EntryUpdate"} THEN n + 1 ELSE q.update[m.id].first,
             r.update[m.id].second = IF m.type = "FlagsUpdate" THEN n + 1 ELSE q.update[m.id].second,
             m.type \in {"EntryAssign", "EntryUpdate"} => q.update[m.id].first = 0,
             m.type = "FlagsUpdate" => q.update[m.id].second = 0
      PROVE  AtPlaces(r)
  <2>1. Len(r.list) = n + 1 /\ r.list[n + 1] = m /\ \A i \in 1 .. n : r.list[i] = q.list[i]
    BY <1>1, <1>7
  <2>2. ASSUME NEW i \in 1 .. Len(r.list)
        PROVE  /\ r.list[i].type \in {"EntryAssign", "EntryUpdate"} => r.update[r.list[i].id].first = i
               /\ r.list[i].type = "FlagsUpdate" => r.update[r.list[i].id].second = i
    <3>1. CASE i = n + 1
      BY <1>7, <2>1, <3>1
    <3>2. CASE i # n + 1
      <4>1. i \in 1 .. n /\ r.list[i] = q.list[i] /\ i # 0
        BY <1>1, <2>1, <3>2
      <4>2. /\ q.list[i].type \in {"EntryAssign", "EntryUpdate"} => q.update[q.list[i].id].first = i
            /\ q.list[i].type = "FlagsUpdate" => q.update[q.list[i].id].second = i
        BY <1>5, <4>1
      <4>3. q.list[i].id \in Ids
        BY <1>1, <4>1
      <4>4. CASE q.list[i].id = m.id
        BY <1>7, <4>1, <4>2, <4>4
      <4>5. CASE q.list[i].id # m.id
        <5>1. r.update[q.list[i].id] = q.update[q.list[i].id]
          BY <1>7, <4>3, <4>5
        <5> QED BY <4>1, <4>2, <5>1
      <4> QED BY <4>4, <4>5
    <3> QED BY <3>1, <3>2
  <2>3. ASSUME NEW id \in Ids, r.update[id].first # 0
        PROVE  /\ r.list[r.update[id].first].type \in {"EntryAssign", "EntryUpdate"}
               /\ r.list[r.update[id].first].id = id
    <3> HIDE DEF n
    <3>1. CASE r.update[id].first = q.update[id].first
      <4>1. q.update[id].first \in 1 .. n
        BY <1>6, <2>3, <3>1
      <4> QED BY <1>6, <2>1, <2>3, <3>1, <4>1
    <3>2. CASE r.update[id].first # q.update[id].first
      <4>1. id = m.id /\ m.type \in {"EntryAssign", "EntryUpdate"} /\ r.update[id].first = n + 1
        BY <1>7, <3>2
      <4> QED BY <2>1, <4>1
    <3> QED BY <3>1, <3>2
  <2>4. ASSUME NEW id \in Ids, r.update[id].second # 0
        PROVE  /\ r.list[r.update[id].second].type = "FlagsUpdate"
               /\ r.list[r.update[id].second].id = id
    <3> HIDE DEF n
    <3>1. CASE r.update[id].second = q.update[id].second
      <4>1. q.update[id].second \in 1 .. n
        BY <1>6, <2>4, <3>1
      <4> QED BY <1>6, <2>1, <2>4, <3>1, <4>1
    <3>2. CASE r.update[id].second # q.update[id].second
      <4>1. id = m.id /\ m.type = "FlagsUpdate" /\ r.update[id].second = n + 1
        BY <1>7, <3>2
      <4> QED BY <2>1, <4>1
    <3> QED BY <3>1, <3>2
  <2> HIDE DEF n
  <2> QED BY <2>2, <2>3, <2>4 DEF AtPlaces
<1>8. CASE m.type \in {"EntryAssign", "EntryUpdate"}
  <2>1. AppendsValue(q, r, m)
    BY <1>3, <1>4, <1>8 DEF Meets, MergesValue
  <2>2. /\ \A id \in Ids \ {m.id} : r.update[id] = q.update[id]
        /\ r.update[m.id].first = n + 1 /\ r.update[m.id].second = q.update[m.id].second
    BY <1>1, <1>2, <2>1 DEF AppendsValue, Places
  <2> HIDE DEF n
  <2> QED BY <1>7, <1>8, <2>1, <2>2 DEF AppendsValue
<1>9. CASE m.type = "EntryDelete"
  <2> DEFINE l == [i \in 1 .. n |-> IF i \in Gone(q, m.id) THEN Blank ELSE q.list[i]]
  <2>1. r.list = Append(l, m) /\ r.update = [q.update EXCEPT ![m.id] = NoPlace]
    BY <1>3, <1>9 DEF Deletes
  <2>2. l \in Seq(Item) /\ Len(l) = n
        /\ \A i \in 1 .. n : l[i] = IF i \in Gone(q, m.id) THEN Blank ELSE q.list[i]
    BY <1>1, BlankIsItem
  <2> HIDE DEF l
  <2>3. Len(r.list) = n + 1 /\ r.list[n + 1] = m /\ \A i \in 1 .. n : r.list[i] = l[i]
    BY <1>1, <2>1, <2>2
  <2>4. r.update[m.id] = NoPlace /\ \A id \in Ids \ {m.id} : r.update[id] = q.update[id]
    BY <1>1, <1>2, <2>1 DEF Places
  <2> HIDE DEF n
  <2>5. ASSUME NEW i \in 1 .. Len(r.list)
        PROVE  /\ r.list[i].type \in {"EntryAssign", "EntryUpdate"} => r.update[r.list[i].id].first = i
               /\ r.list[i].type = "FlagsUpdate" => r.update[r.list[i].id].second = i
    <3>1. CASE i = n + 1
      BY <1>9, <2>3, <3>1
    <3>2. CASE i # n + 1 /\ i \in Gone(q, m.id)
      <4>1. i \in 1 .. n
        BY <1>1, <2>3, <3>2
      <4>2. r.list[i] = Blank
        BY <2>2, <2>3, <3>2, <4>1
      <4> QED BY <4>2, BlankIsItem
    <3>3. CASE i # n + 1 /\ i \notin Gone(q, m.id)
      <4>1. i \in 1 .. n /\ i # 0
        BY <1>1, <2>3, <3>3
      <4>2. r.list[i] = q.list[i] /\ q.list[i].id \in Ids
        BY <1>1, <2>2, <2>3, <3>3, <4>1
      <4>3. CASE q.list[i].id = m.id
        BY <1>5, <3>3, <4>1, <4>2, <4>3 DEF Gone
      <4>4. CASE q.list[i].id # m.id
        BY <1>5, <2>4, <4>1, <4>2, <4>4
      <4> QED BY <4>3, <4>4
    <3> QED BY <3>1, <3>2, <3>3
  <2>6. \A id \in Ids \ {m.id} : /\ q.update[id].first # 0 => q.update[id].first \notin Gone(q, m.id)
                                 /\ q.update[id].second # 0 => q.update[id].second \notin Gone(q, m.id)
    BY <1>2, <1>6 DEF Gone
  <2>7. ASSUME NEW id \in Ids
        PROVE  /\ r.update[id].first # 0 =>
                     /\ r.list[r.update[id].first].type \in {"EntryAssign", "EntryUpdate"}
                     /\ r.list[r.update[id].first].id = id
               /\ r.update[id].second # 0 =>
                     /\ r.list[r.update[id].second].type = "FlagsUpdate"
                     /\ r.list[r.update[id].second].id = id
    <3>1. CASE id = m.id
      BY <2>4, <3>1 DEF NoPlace
    <3>2. CASE id # m.id
      <4>1. r.update[id] = q.update[id]
        BY <2>4, <3>2
      <4>2. q.update[id].first # 0 => r.list[q.update[id].first] = q.list[q.update[id].first]
        BY <1>6, <2>2, <2>3, <2>6, <3>2
      <4>3. q.update[id].second # 0 => r.list[q.update[id].second] = q.list[q.update[id].second]
        BY <1>6, <2>2, <2>3, <2>6, <3>2
      <4> QED BY <1>6, <4>1, <4>2, <4>3
    <3> QED BY <3>1, <3>2
  <2> QED BY <2>5, <2>7 DEF AtPlaces
<1>10. CASE m.type = "FlagsUpdate" /\ ReplacesFlags(q, r, m)
  <2> DEFINE f == q.update[m.id].second
  <2>1. f # 0 /\ f \in 1 .. n /\ r.update = q.update /\ r.list = [q.list EXCEPT ![f] = m]
        /\ q.list[f].type = "FlagsUpdate" /\ q.list[f].id = m.id
    BY <1>2, <1>6, <1>10 DEF ReplacesFlags
  <2> HIDE DEF f
  <2>2. Len(r.list) = n /\ r.list[f] = m /\ \A j \in 1 .. n : j # f => r.list[j] = q.list[j]
    BY <1>1, <2>1, ListExcept
  <2> HIDE DEF n
  <2>3. \A i \in 1 .. n : r.list[i].type = q.list[i].type /\ r.list[i].id = q.list[i].id
    BY <1>10, <2>1, <2>2
  <2>4. \A i \in 1 .. n :
           /\ r.list[i].type \in {"EntryAssign", "EntryUpdate"} => r.update[r.list[i].id].first = i
           /\ r.list[i].type = "FlagsUpdate" => r.update[r.list[i].id].second = i
    BY <1>5, <2>1, <2>3
  <2>5. \A id \in Ids :
           /\ r.update[id].first # 0 =>
                 /\ r.list[r.update[id].first].type \in {"EntryAssign", "EntryUpdate"}
                 /\ r.list[r.update[id].first].id = id
           /\ r.update[id].second # 0 =>
                 /\ r.list[r.update[id].second].type = "FlagsUpdate"
                 /\ r.list[r.update[id].second].id = id
    BY <1>6, <2>1, <2>3
  <2> QED BY <2>2, <2>4, <2>5 DEF AtPlaces
<1>11. CASE m.type = "FlagsUpdate" /\ AppendsFlags(q, r, m)
  <2>1. r.update = [q.update EXCEPT ![m.id].second = n + 1]
    BY <1>11 DEF AppendsFlags
  <2>2. /\ \A id \in Ids \ {m.id} : r.update[id] = q.update[id]
        /\ r.update[m.id].second = n + 1 /\ r.update[m.id].first = q.update[m.id].first
    BY <1>1, <1>2, <2>1 DEF Places
  <2> HIDE DEF n
  <2> QED BY <1>7, <1>11, <2>2 DEF AppendsFlags
<1>12. CASE m.type = "ClearEntries"
  <2> DEFINE l == [i \in 1 .. n |-> IF q.list[i].type \in EntryTypes THEN Blank ELSE q.list[i]]
  <2>1. r.list = Append(l, m) /\ r.update = [id \in Ids |-> NoPlace]
    BY <1>3, <1>12 DEF Clears
  <2>2. l \in Seq(Item) /\ Len(l) = n
        /\ \A i \in 1 .. n : l[i] = IF q.list[i].type \in EntryTypes THEN Blank ELSE q.list[i]
    BY <1>1, BlankIsItem
  <2> HIDE DEF l
  <2>3. Len(r.list) = n + 1 /\ r.list[n + 1] = m /\ \A i \in 1 .. n : r.list[i] = l[i]
    BY <1>1, <2>1, <2>2
  <2>4. \A i \in 1 .. n : l[i].type \notin {"EntryAssign", "EntryUpdate", "FlagsUpdate"}
    BY <2>2, BlankIsItem DEF EntryTypes
  <2>5. \A i \in 1 .. n + 1 : r.list[i].type \notin {"EntryAssign", "EntryUpdate", "FlagsUpdate"}
    <3> TAKE i \in 1 .. n + 1
    <3>1. i = n + 1 \/ i \in 1 .. n
      BY <1>1
    <3> QED BY <1>12, <2>3, <2>4, <3>1
  <2>6. \A id \in Ids : r.update[id].first = 0 /\ r.update[id].second = 0
    BY <2>1 DEF NoPlace
  <2> HIDE DEF n
  <2> QED BY <2>3, <2>5, <2>6 DEF AtPlaces
<1>13. CASE m.type = "ExecuteRpc"
  <2>1. r.list = Append(q.list, m) /\ r.update = q.update
    BY <1>3, <1>13 DEF AppendsOther, Effectless
  <2> HIDE DEF n
  <2> QED BY <1>7, <1>13, <2>1
<1> QED BY <1>2, <1>3, <1>8, <1>9, <1>10, <1>11, <1>12, <1>13
-----------------------------------------------------------------------------
(* What is pending does what was meant. *)

SameAt(R, M, u, id) ==
    /\ Here(R, id) <=> Here(M, id)
    /\ R[id].val = M[id].val
    /\ u[id].first = 0 => R[id].flags = M[id].flags

Same(R, M, u) == \A id \in Ids : SameAt(R, M, u, id)

\* A message read last by both.
LEMMA SameRead ==
  ASSUME NEW R \in Peers, NEW M \in Peers, NEW u, NEW v, NEW m \in Item, m.type # "ClearEntries",
         \A id \in Ids \ {m.id} : SameAt(R, M, u, id) /\ v[id] = u[id],
         m.type # "EntryDelete" => SameAt(R, M, u, m.id),
         v[m.id].first = 0 => u[m.id].first = 0 \/ m.type = "EntryDelete"
  PROVE  Same(Read(R, m), Read(M, m), v)
<1>1. m.id \in Ids /\ m.type \in MsgTypes /\ m.type # "HelloDone" /\ m.flags \in BOOLEAN
  BY DEF Item, Message
<1>2. ASSUME NEW id \in Ids, id # m.id PROVE SameAt(Read(R, m), Read(M, m), v, id)
  <2>1. Read(R, m)[id] = R[id] /\ Read(M, m)[id] = M[id]
    BY <1>2, ReadOther
  <2>2. SameAt(R, M, u, id) /\ v[id] = u[id]
    BY <1>2
  <2> QED BY <2>1, <2>2 DEF SameAt, Here
<1>3. SameAt(Read(R, m), Read(M, m), v, m.id)
  <2> DEFINE E == [val : Values \cup {Nil}, flags : BOOLEAN \cup {Nil}]
  <2>0. R[m.id] \in E /\ M[m.id] \in E
    BY <1>1 DEF Peers
  <2>1. CASE m.type = "EntryAssign"
    <3>1. Read(R, m)[m.id] = [val |-> m.val, flags |-> m.flags]
          /\ Read(M, m)[m.id] = [val |-> m.val, flags |-> m.flags]
      BY <1>1, <2>1 DEF Read, Peers
    <3> QED BY <3>1 DEF SameAt, Here
  <2>2. CASE m.type = "EntryUpdate"
    <3>1. /\ Read(R, m)[m.id] = IF Here(R, m.id) THEN [R[m.id] EXCEPT !.val = m.val] ELSE R[m.id]
          /\ Read(M, m)[m.id] = IF Here(M, m.id) THEN [M[m.id] EXCEPT !.val = m.val] ELSE M[m.id]
      BY <1>1, <2>2 DEF Read, Peers
    <3>2. SameAt(R, M, u, m.id)
      BY <2>2
    <3> QED BY <2>0, <2>2, <3>1, <3>2 DEF SameAt, Here
  <2>3. CASE m.type = "FlagsUpdate"
    <3>1. /\ Read(R, m)[m.id] = IF Here(R, m.id) THEN [R[m.id] EXCEPT !.flags = m.flags] ELSE R[m.id]
          /\ Read(M, m)[m.id] = IF Here(M, m.id) THEN [M[m.id] EXCEPT !.flags = m.flags] ELSE M[m.id]
      BY <1>1, <2>3 DEF Read, Peers
    <3>2. SameAt(R, M, u, m.id)
      BY <2>3
    <3>3. m.flags # Nil
      BY <1>1, NilIsNoFlag
    <3> QED BY <2>0, <2>3, <3>1, <3>2, <3>3 DEF SameAt, Here
  <2>4. CASE m.type = "EntryDelete"
    <3>1. Read(R, m)[m.id] = Absent /\ Read(M, m)[m.id] = Absent
      BY <1>1, <2>4 DEF Read, Peers
    <3> QED BY <3>1 DEF SameAt, Here
  <2>5. CASE m.type \in Effectless
    <3>1. Read(R, m)[m.id] = R[m.id] /\ Read(M, m)[m.id] = M[m.id]
      BY <1>1, <2>5, ReadOther
    <3>2. SameAt(R, M, u, m.id) /\ (v[m.id].first = 0 => u[m.id].first = 0)
      BY <2>5 DEF Effectless
    <3> QED BY <3>1, <3>2 DEF SameAt, Here
  <2> QED BY <1>1, <2>1, <2>2, <2>3, <2>4, <2>5 DEF MsgTypes, Effectless
<1> QED BY <1>2, <1>3 DEF Same

\* Every call but a clear and one that throws, whoever the flags are of.
LEMMA SameKept ==
  ASSUME NEW q, InList(q), AtPlaces(q), Leads(q), NEW m \in Item,
         m.type \notin {"Unknown", "ClearEntries"}, ~ Meets(q, m),
         NEW r, r = QueueOutgoing(q, m), ~ r.fault,
         NEW P \in Peers, NEW M \in Peers, Same(Result(P, q.list), M, q.update),
         m.type = "FlagsUpdate" => Here(M, m.id)
  PROVE  Same(Result(P, r.list), Read(M, m), r.update)
<1> DEFINE n == Len(q.list)
           R == Result(P, q.list)
<1>1. /\ q.list \in Seq(Item) /\ n \in Nat /\ q.update \in Places
      /\ \A id \in Ids : /\ q.update[id].first \in Nat /\ q.update[id].second \in Nat
                         /\ q.update[id].first <= n /\ q.update[id].second <= n
      /\ \A i \in 1 .. n : q.list[i] \in Item
  BY DEF InList, Places
<1>2. m.id \in Ids /\ m.id # Unassigned
      /\ m.type \in {"EntryAssign", "EntryUpdate", "FlagsUpdate", "EntryDelete", "ExecuteRpc"}
  BY MessagesAssumption DEF Item, Message, MsgTypes, Ids
<1>3. /\ m.type \in {"EntryAssign", "EntryUpdate"} => AppendsValue(q, r, m) \/ MergesValue(q, r, m)
      /\ m.type = "EntryDelete" => Deletes(q, r, m)
      /\ m.type = "FlagsUpdate" => ReplacesFlags(q, r, m) \/ AppendsFlags(q, r, m)
      /\ m.type \in Effectless => AppendsOther(q, r, m)
  BY QueueShape
<1>4. R \in Peers
  BY <1>1, ResultType
<1> HIDE DEF R
<1>5. \A id \in Ids : SameAt(R, M, q.update, id)
  BY DEF Same, R
\* added at the end
<1>6. ASSUME r.list = Append(q.list, m), \A id \in Ids \ {m.id} : r.update[id] = q.update[id],
             r.update[m.id].first = 0 => q.update[m.id].first = 0
      PROVE  Same(Result(P, r.list), Read(M, m), r.update)
  <2>1. Result(P, r.list) = Read(R, m)
    BY <1>1, <1>6, ResultAppend DEF R
  <2>2. Same(Read(R, m), Read(M, m), r.update)
    BY <1>2, <1>4, <1>5, <1>6, SameRead
  <2> QED BY <2>1, <2>2
<1>7. CASE m.type \in {"EntryAssign", "EntryUpdate"}
  <2>1. AppendsValue(q, r, m)
    BY <1>2, <1>3, <1>7 DEF Meets, MergesValue
  <2>2. \A id \in Ids \ {m.id} : r.update[id] = q.update[id]
    BY <1>1, <1>2, <2>1 DEF AppendsValue, Places
  <2> QED BY <1>6, <2>1, <2>2 DEF AppendsValue
<1>8. CASE m.type = "EntryDelete"
  <2> DEFINE l == [i \in 1 .. n |-> IF i \in Gone(q, m.id) THEN Blank ELSE q.list[i]]
  <2>1. r.list = Append(l, m) /\ r.update = [q.update EXCEPT ![m.id] = NoPlace]
    BY <1>3, <1>8 DEF Deletes
  <2>2. l \in Seq(Item) /\ Len(l) = n
        /\ \A i \in 1 .. n : l[i] = IF i \in Gone(q, m.id) THEN Blank ELSE q.list[i]
    BY <1>1, BlankIsItem
  <2> HIDE DEF l
  <2> DEFINE L == Result(P, l)
  <2>3. L \in Peers
    BY <2>2, ResultType
  <2>4. ASSUME NEW x \in Ids, x # m.id PROVE L[x] = R[x]
    <3>1. ASSUME NEW i \in 1 .. n
          PROVE  \/ q.list[i] = l[i]
                 \/ /\ q.list[i].type # "ClearEntries"
                    /\ q.list[i].id # x \/ q.list[i].type \in Effectless
                    /\ l[i].type # "ClearEntries" /\ (l[i].id # x \/ l[i].type \in Effectless)
      <4>1. CASE i \in Gone(q, m.id)
        <5>1. q.list[i].id = m.id /\ q.list[i].type \in {"EntryAssign", "EntryUpdate", "FlagsUpdate"}
          BY <1>2, <4>1 DEF Gone, AtPlaces
        <5>2. l[i] = Blank
          BY <2>2, <4>1
        <5> QED BY <2>4, <5>1, <5>2, BlankIsItem DEF Effectless
      <4>2. CASE i \notin Gone(q, m.id)
        BY <2>2, <4>2
      <4> QED BY <4>1, <4>2
    <3> HIDE DEF L, n
    <3>2. Result(P, q.list)[x] = Result(P, l)[x]
      BY <1>1, <2>2, <3>1, BlankedResult DEF n
    <3> QED BY <3>2 DEF L, R
  <2>5. Result(P, r.list) = Read(L, m)
    BY <2>1, <2>2, ResultAppend
  <2> HIDE DEF L
  <2>6. ASSUME NEW id \in Ids \ {m.id} PROVE SameAt(L, M, q.update, id) /\ r.update[id] = q.update[id]
    <3>1. L[id] = R[id] /\ SameAt(R, M, q.update, id)
      BY <1>5, <2>4
    <3>2. r.update[id] = q.update[id]
      BY <1>1, <1>2, <2>1 DEF Places
    <3> QED BY <3>1, <3>2 DEF SameAt, Here
  <2>7. Same(Read(L, m), Read(M, m), r.update)
    BY <1>8, <2>3, <2>6, SameRead
  <2> QED BY <2>5, <2>7
<1>9. CASE m.type = "FlagsUpdate" /\ ReplacesFlags(q, r, m)
  <2> DEFINE pos == q.update[m.id].second
  <2>1. /\ pos # 0 /\ pos \in 1 .. n /\ r.update = q.update /\ r.list = [q.list EXCEPT ![pos] = m]
        /\ q.list[pos].type = "FlagsUpdate" /\ q.list[pos].id = m.id
    BY <1>1, <1>2, <1>9 DEF ReplacesFlags, AtPlaces
  <2>2. ASSUME NEW i \in pos + 1 .. n
        PROVE  q.list[i].type # "ClearEntries" /\ (q.list[i].type = "FlagsUpdate" => q.list[i].id # m.id)
    <3>1. i \in 1 .. n /\ i > pos
      BY <1>1, <2>1
    <3>2. q.list[i].type # "ClearEntries"
      BY <1>1, <1>2, <2>1, <3>1 DEF Leads, ClearLeads
    <3>3. ASSUME q.list[i].type = "FlagsUpdate", q.list[i].id = m.id PROVE FALSE
      <4>1. q.update[q.list[i].id].second = i
        <5> HIDE DEF pos
        <5> QED BY <3>1, <3>3 DEF AtPlaces
      <4>2. pos = i
        BY <3>3, <4>1
      <4> QED BY <1>1, <2>1, <3>1, <4>2
    <3> QED BY <3>2, <3>3
  <2> HIDE DEF pos
  <2> DEFINE T == Result(P, r.list)
  <2>3. /\ \A x \in Ids \ {m.id} : T[x] = R[x]
        /\ T[m.id].val = R[m.id].val
        /\ Here(T, m.id) <=> Here(R, m.id)
        /\ (\A i \in pos + 1 .. n : q.list[i].type = "EntryAssign" => q.list[i].id # m.id)
              => (Here(T, m.id) => T[m.id].flags = m.flags)
    <3> HIDE DEF n
    <3>1. pos \in 1 .. Len(q.list) /\ LastFlags(q.list, pos, m)
      BY <2>1, <2>2 DEF n, LastFlags
    <3>2. r.list \in Seq(Item) /\ Replaces(q.list, r.list, pos, m)
      BY <1>1, <2>1, <3>1, ListExcept DEF Replaces
    <3>3. /\ ButFlags(Result(P, q.list), Result(P, r.list), m.id)
          /\ LastAssigned(q.list, pos, m) /\ Here(Result(P, r.list), m.id)
                => Result(P, r.list)[m.id].flags = m.flags
      BY <1>1, <1>9, <2>1, <3>1, <3>2, FlagsReplacedResult
    <3> QED BY <3>3 DEF R, T, n, ButFlags, LastAssigned
  <2>4. q.update[m.id].first = 0 =>
           \A i \in pos + 1 .. n : q.list[i].type = "EntryAssign" => q.list[i].id # m.id
    <3>1. ASSUME NEW i \in pos + 1 .. n, q.list[i].type = "EntryAssign", q.list[i].id = m.id
          PROVE  q.update[m.id].first # 0
      <4>1. i \in 1 .. n /\ i # 0
        BY <1>1, <2>1
      <4> QED BY <1>1, <3>1, <4>1 DEF AtPlaces
    <3> QED BY <3>1
  <2> HIDE DEF T
  <2>5. /\ Read(M, m) \in Peers
        /\ \A x \in Ids \ {m.id} : Read(M, m)[x] = M[x]
        /\ Read(M, m)[m.id].val = M[m.id].val /\ Read(M, m)[m.id].flags = m.flags
    <3>1. Read(M, m) = [M EXCEPT ![m.id].flags = m.flags]
      BY <1>9 DEF Read
    <3> QED BY <1>2, <3>1, ReadType DEF Peers
  <2>6. m.flags # Nil
    BY NilIsNoFlag DEF Item, Message
  <2>7. ASSUME NEW x \in Ids \ {m.id} PROVE SameAt(T, Read(M, m), r.update, x)
    <3>1. SameAt(R, M, q.update, x) /\ T[x] = R[x] /\ Read(M, m)[x] = M[x] /\ r.update = q.update
      BY <1>5, <2>1, <2>3, <2>5
    <3> QED BY <3>1 DEF SameAt, Here
  <2>8. SameAt(T, Read(M, m), r.update, m.id)
    <3>1. SameAt(R, M, q.update, m.id) /\ Here(M, m.id)
      BY <1>2, <1>5, <1>9
    <3>2. Here(T, m.id)
      BY <2>3, <3>1 DEF SameAt
    <3> QED BY <2>1, <2>3, <2>4, <2>5, <2>6, <3>1, <3>2 DEF SameAt, Here
  <2> QED BY <2>7, <2>8 DEF Same, T
<1>10. CASE m.type = "FlagsUpdate" /\ AppendsFlags(q, r, m)
  <2>1. r.update = [q.update EXCEPT ![m.id].second = n + 1]
    BY <1>10 DEF AppendsFlags
  <2>2. /\ \A id \in Ids \ {m.id} : r.update[id] = q.update[id]
        /\ r.update[m.id].first = q.update[m.id].first
    BY <1>1, <1>2, <2>1 DEF Places
  <2> QED BY <1>6, <1>10, <2>2 DEF AppendsFlags
<1>11. CASE m.type = "ExecuteRpc"
  <2>1. r.list = Append(q.list, m) /\ r.update = q.update
    BY <1>3, <1>11 DEF AppendsOther, Effectless
  <2> QED BY <1>6, <2>1
<1> QED BY <1>2, <1>3, <1>7, <1>8, <1>9, <1>10, <1>11

PeerOf(flags) == [id \in Ids |-> Entry(flags[id])]

\* every entry of a peer has the flags fl
HasFlags(M, fl) == \A id \in Ids : M[id].flags = fl[id]

\* nothing is pending for the entries that are persistent by fl or by sy
NonePersistent(s, fl, sy) ==
    \A i \in 1 .. Len(s) : s[i].type \in EntryTypes \ {"ClearEntries"} =>
        fl[s[i].id] # TRUE /\ sy[s[i].id] # TRUE

\* A clear that knocks out nothing of the entries that it spares.
LEMMA SameCleared ==
  ASSUME NEW q, InList(q), AtPlaces(q), NEW m \in Item, m.type = "ClearEntries",
         NEW r, r = QueueOutgoing(q, m),
         NEW sy \in [Ids -> BOOLEAN \cup {Nil}], NEW fl, NEW M \in Peers,
         HasFlags(M, fl), Same(Result(PeerOf(sy), q.list), M, q.update),
         NonePersistent(q.list, fl, sy)
  PROVE  Same(Result(PeerOf(sy), r.list), Read(M, m), r.update)
<1> DEFINE n == Len(q.list)
           P == PeerOf(sy)
           R == Result(P, q.list)
           l == [i \in 1 .. n |-> IF q.list[i].type \in EntryTypes THEN Blank ELSE q.list[i]]
<1>1. /\ q.list \in Seq(Item) /\ n \in Nat /\ q.update \in Places
      /\ \A id \in Ids : /\ q.update[id].first \in Nat /\ q.update[id].first <= n
      /\ \A i \in 1 .. n : q.list[i] \in Item
  BY DEF InList, Places
<1>2. P \in Peers /\ \A x \in Ids : P[x] = [val |-> Nil, flags |-> sy[x]]
  BY DEF PeerOf, Peers, Entry
<1>3. r.list = Append(l, m)
  BY QueueShape DEF Clears
<1>4. l \in Seq(Item) /\ Len(l) = n
  BY <1>1, BlankIsItem
<1>5. \A i \in 1 .. n : l[i].type \in Effectless
  <2> TAKE i \in 1 .. n
  <2>1. q.list[i].type \in EntryTypes \/ q.list[i].type \in Effectless
    BY <1>1 DEF EntryTypes, Effectless, Item, Message, MsgTypes
  <2> QED BY <2>1, BlankIsItem DEF Effectless
<1> HIDE DEF l, P, n
<1>6. Result(P, r.list) = Read(P, m)
  <2>1. Result(P, l) = P
    BY <1>2, <1>4, <1>5, EffectlessResult
  <2>2. Result(P, Append(l, m)) = Read(Result(P, l), m)
    BY <1>4, ResultAppend
  <2> QED BY <1>3, <2>1, <2>2
<1>7. /\ Read(P, m) = [x \in Ids |-> IF P[x].flags = TRUE THEN P[x] ELSE Absent]
      /\ Read(M, m) = [x \in Ids |-> IF M[x].flags = TRUE THEN M[x] ELSE Absent]
  BY DEF Read
<1>8. R \in Peers
  BY <1>1, <1>2, ResultType
<1>9. ASSUME NEW x \in Ids, fl[x] = TRUE \/ sy[x] = TRUE
      PROVE  /\ R[x] \in {P[x], Absent}
             /\ P[x].flags = TRUE => R[x] = P[x]
             /\ R[x].val = M[x].val /\ R[x].flags = M[x].flags
  <2>1. \A i \in 1 .. n :
           q.list[i].type = "ClearEntries" \/ q.list[i].id # x \/ q.list[i].type \in Effectless
    <3> TAKE i \in 1 .. n
    <3>1. q.list[i].type \in EntryTypes \/ q.list[i].type \in Effectless
      BY <1>1 DEF EntryTypes, Effectless, Item, Message, MsgTypes
    <3> QED BY <1>9, <3>1 DEF n, NonePersistent
  <2>2. /\ R[x] \in {P[x], Absent}
        /\ P[x].flags = TRUE => R[x] = P[x]
    BY <1>1, <1>2, <2>1, QuietResult DEF n
  <2>3. q.update[x].first = 0
    <3> SUFFICES ASSUME q.update[x].first # 0 PROVE FALSE
      OBVIOUS
    <3>1. q.update[x].first \in 1 .. n
      BY <1>1
    <3>2. /\ q.list[q.update[x].first].type \in {"EntryAssign", "EntryUpdate"}
          /\ q.list[q.update[x].first].id = x
      BY DEF AtPlaces
    <3> QED BY <2>1, <3>1, <3>2 DEF Effectless
  <2>4. SameAt(R, M, q.update, x)
    BY DEF Same, P
  <2> QED BY <2>2, <2>3, <2>4 DEF SameAt
<1> HIDE DEF R
<1>10. ASSUME NEW x \in Ids
       PROVE  Read(P, m)[x] = Read(M, m)[x]
  <2>1. /\ Read(P, m)[x] = IF P[x].flags = TRUE THEN P[x] ELSE Absent
        /\ Read(M, m)[x] = IF M[x].flags = TRUE THEN M[x] ELSE Absent
    BY <1>7
  <2>2. P[x].flags = sy[x] /\ P[x].val = Nil /\ M[x].flags = fl[x]
    <3>1. P[x] = [val |-> Nil, flags |-> sy[x]]
      BY <1>2
    <3> DEFINE e == [val |-> Nil, flags |-> sy[x]]
    <3>a. e.flags = sy[x] /\ e.val = Nil
      BY Zenon
    <3> HIDE DEF e
    <3>b. P[x] = e
      BY <3>1 DEF e
    <3>2. P[x].flags = sy[x]
      BY <3>a, <3>b, Zenon
    <3>3. P[x].val = Nil
      BY <3>a, <3>b, Zenon
    <3>4. M[x].flags = fl[x]
      BY DEF HasFlags
    <3> QED BY <3>2, <3>3, <3>4, Zenon
  <2>3. /\ R[x] \in [val : Values \cup {Nil}, flags : BOOLEAN \cup {Nil}]
        /\ M[x] \in [val : Values \cup {Nil}, flags : BOOLEAN \cup {Nil}]
        /\ P[x] \in [val : Values \cup {Nil}, flags : BOOLEAN \cup {Nil}]
    BY <1>2, <1>8 DEF Peers
  <2>4. CASE sy[x] = TRUE
    <3>1. R[x] = P[x] /\ R[x].val = M[x].val /\ R[x].flags = M[x].flags
      BY <1>9, <2>2, <2>4
    <3>2. P[x] = M[x]
      BY <2>3, <3>1
    <3> QED BY <2>1, <3>2, Zenon
  <2>5. CASE sy[x] # TRUE /\ fl[x] = TRUE
    <3>1. R[x] \in {P[x], Absent} /\ R[x].flags = M[x].flags
      BY <1>9, <2>5
    <3>2. M[x].flags = TRUE /\ Absent.flags = Nil
      BY <2>2, <2>5 DEF Absent
    <3>3. Nil # TRUE
      BY NilIsNoFlag
    <3>4. R[x].flags = TRUE
      BY <3>1, <3>2, Zenon
    <3>5. R[x] = P[x]
      BY <3>1, <3>2, <3>3, <3>4
    <3> QED BY <2>2, <2>5, <3>4, <3>5, Zenon
  <2>6. CASE sy[x] # TRUE /\ fl[x] # TRUE
    BY <2>1, <2>2, <2>6, Zenon
  <2> QED BY <2>4, <2>5, <2>6
<1>11. Same(Read(P, m), Read(M, m), r.update)
  BY <1>10 DEF Same, SameAt, Here
<1> QED BY <1>6, <1>11 DEF P

\* A message the server queues leaves the peer that reads all of them with the
\* flags that it leaves the server's entries.
LEMMA FlagsFollow ==
  ASSUME QueueInv, NEW m \in Item, NEW M \in Peers, \A id \in Ids : M[id].flags = flagsOf[id],
         m.type = "FlagsUpdate" => flagsOf[m.id] # Nil
  PROVE  \A id \in Ids : Read(M, m)[id].flags = FlagsAfter(m)[id]
<1> TAKE id \in Ids
<1>1. /\ m.id \in Ids /\ m.type \in MsgTypes /\ m.type # "HelloDone"
      /\ flagsOf \in [Ids -> BOOLEAN \cup {Nil}]
  BY DEF Item, Message, QueueInv
<1>2. CASE m.type = "EntryAssign"
  <2>1. Read(M, m) = [M EXCEPT ![m.id] = [val |-> m.val, flags |-> m.flags]]
        /\ FlagsAfter(m) = [flagsOf EXCEPT ![m.id] = m.flags]
    BY <1>2 DEF Read, FlagsAfter
  <2> QED BY <1>1, <2>1 DEF Peers
<1>3. CASE m.type = "EntryUpdate"
  <2>1. Read(M, m) = IF Here(M, m.id) THEN [M EXCEPT ![m.id].val = m.val] ELSE M
    BY <1>3 DEF Read
  <2>2. FlagsAfter(m) = flagsOf
    BY <1>3 DEF FlagsAfter
  <2> QED BY <1>1, <2>1, <2>2 DEF Peers
<1>4. CASE m.type = "FlagsUpdate"
  <2>1. Here(M, m.id)
    BY <1>1, <1>4 DEF Here
  <2>2. Read(M, m) = [M EXCEPT ![m.id].flags = m.flags]
    BY <1>4, <2>1 DEF Read
  <2>3. FlagsAfter(m) = [flagsOf EXCEPT ![m.id] = m.flags]
    BY <1>4 DEF FlagsAfter
  <2> QED BY <1>1, <2>2, <2>3 DEF Peers
<1>5. CASE m.type = "EntryDelete"
  <2>1. Read(M, m) = [M EXCEPT ![m.id] = Absent] /\ FlagsAfter(m) = [flagsOf EXCEPT ![m.id] = Nil]
    BY <1>5 DEF Read, FlagsAfter
  <2> QED BY <1>1, <2>1 DEF Peers, Absent
<1>6. CASE m.type = "ClearEntries"
  <2>1. Read(M, m) = [x \in Ids |-> IF M[x].flags = TRUE THEN M[x] ELSE Absent]
    BY <1>6 DEF Read
  <2>2. FlagsAfter(m) = [x \in Ids |-> IF flagsOf[x] = TRUE THEN TRUE ELSE Nil]
    BY <1>6 DEF FlagsAfter
  <2>3. M[id].flags = flagsOf[id] /\ Absent.flags = Nil
    BY DEF Absent
  <2>4. CASE flagsOf[id] = TRUE
    <3>1. Read(M, m)[id] = M[id]
      BY <2>1, <2>3, <2>4
    <3>2. FlagsAfter(m)[id] = flagsOf[id]
      BY <2>2, <2>4
    <3> QED BY <2>3, <3>1, <3>2, Zenon
  <2>5. CASE flagsOf[id] # TRUE
    <3>1. Read(M, m)[id] = Absent
      BY <2>1, <2>3, <2>5
    <3>2. FlagsAfter(m)[id] = Nil
      BY <2>2, <2>5
    <3> QED BY <2>3, <3>1, <3>2, Zenon
  <2> QED BY <2>4, <2>5
<1>7. CASE m.type \in Effectless
  <2>1. Read(M, m) = M
    BY <1>7 DEF Read, Effectless
  <2>2. FlagsAfter(m) = flagsOf
    BY <1>7 DEF FlagsAfter, Effectless
  <2> QED BY <2>1, <2>2
<1> QED BY <1>1, <1>2, <1>3, <1>4, <1>5, <1>6, <1>7 DEF MsgTypes, Effectless

Left == Result(PeerOf(synced), queue.list)
Meant == Result(PeerOf(synced), given)

\* What is claimed of the peer needs: the flags that the peer is meant to have are
\* the server's; what is pending of an entry is at its places; and what is left
\* does what was meant.
EffectInv ==
    /\ QueueInv
    /\ \A id \in Live : id < nextId
    /\ \A id \in Ids : Meant[id].flags = flagsOf[id]
    /\ ~ collided /\ ~ faulted =>
          AtPlaces(queue) /\ Same(Left, Meant, queue.update)

\* A peer with the flags of the last flush is a table.
LEMMA PeerOfType == \A sy \in [Ids -> BOOLEAN \cup {Nil}] : PeerOf(sy) \in Peers
  BY DEF PeerOf, Peers, Entry

\* Flags are queued of an entry the server has, and an assignment of one it
\* has or makes.
LEMMA QueueableLive ==
  ASSUME QueueInv, NEW m \in Queueable
  PROVE  /\ m.type = "FlagsUpdate" => flagsOf[m.id] # Nil
         /\ m.type = "EntryAssign" => m.id \in Live \cup {nextId}
<1>1. CASE \E name \in Names, value \in Values, flags \in BOOLEAN,
              id \in Live \cup ({nextId} \ {Unassigned}) :
              m = EntryAssign(name, id, 0, value, flags)
  BY <1>1 DEF EntryAssign
<1>2. CASE \E id \in Live, value \in Values : m = EntryUpdate(id, 0, value)
  BY <1>2 DEF EntryUpdate, Blank
<1>3. CASE \E id \in Live, flags \in BOOLEAN : m = FlagsUpdate(id, flags)
  BY <1>3 DEF FlagsUpdate, Blank, Live
<1>4. CASE \E id \in Live : m = EntryDelete(id)
  BY <1>4 DEF EntryDelete, Blank
<1>5. CASE m \in {ClearEntries, ExecuteRpc(0, 0)}
  BY <1>5 DEF ClearEntries, ExecuteRpc, Blank
<1> QED BY <1>1, <1>2, <1>3, <1>4, <1>5 DEF Queueable

\* With nothing pending the peer is where it should be.
LEMMA EffectInitially == FlushInit => EffectInv
<1> SUFFICES ASSUME FlushInit PROVE EffectInv
  OBVIOUS
<1>1. QueueInv
  BY QueueInitially
<1>2. queue = EmptyQueue /\ given = <<>> /\ synced = flagsOf /\ Live = {id \in Ids : id < nextId}
  BY Zenon DEF FlushInit
<1>3. queue.list = <<>> /\ Len(queue.list) = 0 /\ queue.update = [id \in Ids |-> NoPlace]
  BY <1>2, EmptyInv DEF EmptyQueue, NoPlace
<1>4. Left = PeerOf(flagsOf) /\ Meant = PeerOf(flagsOf)
  BY <1>2, <1>3, ResultEmpty DEF Left, Meant
<1>5. \A id \in Ids : Meant[id].flags = flagsOf[id]
  <2> TAKE id \in Ids
  <2>1. Meant[id] = [val |-> Nil, flags |-> flagsOf[id]]
    BY <1>4 DEF PeerOf, Entry
  <2> DEFINE e == [val |-> Nil, flags |-> flagsOf[id]]
  <2>2. e.flags = flagsOf[id]
    BY Zenon
  <2> HIDE DEF e
  <2>3. Meant[id] = e
    BY <2>1 DEF e
  <2> QED BY <2>2, <2>3, Zenon
<1>6. AtPlaces(queue)
  BY <1>3 DEF AtPlaces, NoPlace
<1>7. Same(Left, Meant, queue.update)
  BY <1>4 DEF Same, SameAt
<1> QED BY <1>1, <1>2, <1>5, <1>6, <1>7 DEF EffectInv

\* Nor does it need anything after a flush.
LEMMA EffectPosted == EffectInv /\ PostOutgoing => EffectInv'
<1> SUFFICES ASSUME EffectInv, PostOutgoing PROVE EffectInv'
  OBVIOUS
<1>1. QueueInv'
  BY QueueKept DEF EffectInv, FlushNext
<1>2. queue' = EmptyQueue /\ given' = <<>> /\ synced' = flagsOf /\ flagsOf' = flagsOf /\ nextId' = nextId
  BY Zenon DEF PostOutgoing
<1>3. queue'.list = <<>> /\ Len(queue'.list) = 0 /\ queue'.update = [id \in Ids |-> NoPlace]
  BY <1>2, EmptyInv DEF EmptyQueue, NoPlace
<1>4. Left' = PeerOf(flagsOf) /\ Meant' = PeerOf(flagsOf)
  BY <1>2, <1>3, ResultEmpty DEF Left, Meant
<1>5. \A id \in Ids : Meant'[id].flags = flagsOf'[id]
  <2> TAKE id \in Ids
  <2>1. Meant'[id] = [val |-> Nil, flags |-> flagsOf[id]]
    BY <1>4 DEF PeerOf, Entry
  <2> DEFINE e == [val |-> Nil, flags |-> flagsOf[id]]
  <2>2. e.flags = flagsOf[id]
    BY Zenon
  <2> HIDE DEF e
  <2>3. Meant'[id] = e
    BY <2>1 DEF e
  <2> QED BY <1>2, <2>2, <2>3, Zenon
<1>6. AtPlaces(queue')
  BY <1>3 DEF AtPlaces, NoPlace
<1>7. Same(Left', Meant', queue'.update)
  BY <1>4 DEF Same, SameAt
<1>8. \A id \in Live' : id < nextId'
  BY <1>2 DEF EffectInv, Live
<1> QED BY <1>1, <1>5, <1>6, <1>7, <1>8 DEF EffectInv

\* One more message brings the peer of either list to the same place.
LEMMA EffectQueued ==
  ASSUME EffectInv, NEW m \in Queueable, Queue(m)
  PROVE  EffectInv'
<1>1. QueueInv /\ QueueInv'
  BY QueueKept DEF EffectInv, FlushNext
<1>2. m \in Item /\ m.type # "Unknown" /\ m.id \in Ids
  BY <1>1, QueueableItems DEF Item
<1>3. /\ m.type = "FlagsUpdate" => flagsOf[m.id] # Nil
      /\ m.type = "EntryAssign" => m.id \in Live \cup {nextId}
  BY <1>1, QueueableLive
<1>4. /\ queue' = QueueOutgoing(queue, m) /\ flagsOf' = FlagsAfter(m) /\ synced' = synced
      /\ given' = Append(given, m)
      /\ collided' = (collided \/ Meets(queue, m) \/ ClearsSpared(m))
      /\ faulted' = (faulted \/ queue'.fault)
      /\ nextId' = IF m.type = "EntryAssign" /\ m.id = nextId THEN nextId + 1 ELSE nextId
  BY Zenon DEF Queue
<1>5. /\ InList(queue) /\ Leads(queue) /\ given \in Seq(Item) /\ queue.list \in Seq(Item)
      /\ PeerOf(synced) \in Peers
  BY <1>1, PeerOfType DEF QueueInv, InList
<1>6. Left \in Peers /\ Meant \in Peers
  BY <1>5, ResultType DEF Left, Meant
<1>7. Meant' = Read(Meant, m)
  <2>1. Result(PeerOf(synced), Append(given, m)) = Read(Result(PeerOf(synced), given), m)
    BY <1>2, <1>5, ResultAppend
  <2> QED BY <1>4, <2>1 DEF Meant
<1>8. Left' = Result(PeerOf(synced), queue'.list)
  BY <1>4 DEF Left
<1>9. \A id \in Ids : Meant'[id].flags = flagsOf'[id]
  <2>1. \A id \in Ids : Meant[id].flags = flagsOf[id]
    BY DEF EffectInv
  <2>2. \A id \in Ids : Read(Meant, m)[id].flags = FlagsAfter(m)[id]
    BY <1>1, <1>2, <1>3, <1>6, <2>1, FlagsFollow
  <2> QED BY <1>4, <1>7, <2>2
<1>10. \A id \in Live' : id < nextId'
  <2> SUFFICES ASSUME NEW id \in Ids, FlagsAfter(m)[id] # Nil PROVE id < nextId'
    BY <1>4 DEF Live
  <2>1. nextId \in Nat /\ id \in Nat /\ nextId <= nextId'
    BY <1>1, <1>4, MessagesAssumption DEF QueueInv, AnyId, Ids
  <2>2. flagsOf[id] # Nil \/ (m.type = "EntryAssign" /\ id = m.id)
    <3>1. CASE m.type = "EntryAssign"
      <4>1. FlagsAfter(m) = [flagsOf EXCEPT ![m.id] = m.flags]
        BY <3>1 DEF FlagsAfter
      <4> QED BY <1>1, <3>1, <4>1 DEF QueueInv
    <3>2. CASE m.type = "FlagsUpdate"
      <4>1. FlagsAfter(m) = [flagsOf EXCEPT ![m.id] = m.flags]
        BY <3>2 DEF FlagsAfter
      <4> QED BY <1>1, <1>3, <3>2, <4>1 DEF QueueInv
    <3>3. CASE m.type = "EntryDelete"
      <4>1. FlagsAfter(m) = [flagsOf EXCEPT ![m.id] = Nil]
        BY <3>3 DEF FlagsAfter
      <4> QED BY <1>1, <3>3, <4>1 DEF QueueInv
    <3>4. CASE m.type = "ClearEntries"
      <4>1. FlagsAfter(m) = [x \in Ids |-> IF flagsOf[x] = TRUE THEN TRUE ELSE Nil]
        BY <3>4 DEF FlagsAfter
      <4>2. flagsOf[id] = TRUE /\ Nil # TRUE
        BY <4>1, NilIsNoFlag
      <4> QED BY <4>2, Zenon
    <3>5. CASE m.type \notin {"EntryAssign", "FlagsUpdate", "EntryDelete", "ClearEntries"}
      <4>1. FlagsAfter(m) = flagsOf
        BY <3>5 DEF FlagsAfter
      <4> QED BY <4>1
    <3> QED BY <3>1, <3>2, <3>3, <3>4, <3>5
  <2>3. CASE flagsOf[id] # Nil
    <3>1. id < nextId
      BY <2>3 DEF EffectInv, Live
    <3>2. nextId' \in Nat
      BY <1>4, <2>1
    <3> QED BY <2>1, <3>1, <3>2
  <2>4. CASE m.type = "EntryAssign" /\ id = m.id /\ flagsOf[id] = Nil
    <3>1. m.id = nextId
      BY <1>3, <2>4 DEF Live
    <3>2. nextId' = nextId + 1
      BY <1>4, <2>4, <3>1
    <3> QED BY <2>1, <2>4, <3>1, <3>2
  <2> QED BY <2>2, <2>3, <2>4
<1>11. ASSUME ~ collided', ~ faulted'
       PROVE  AtPlaces(queue') /\ Same(Left', Meant', queue'.update)
  <2>1. ~ collided /\ ~ faulted /\ ~ Meets(queue, m) /\ ~ ClearsSpared(m) /\ ~ queue'.fault
    BY <1>4, <1>11, Zenon
  <2>2. AtPlaces(queue) /\ Same(Left, Meant, queue.update)
    BY <2>1, Zenon DEF EffectInv
  <2>3. AtPlaces(queue')
    BY <1>2, <1>4, <1>5, <2>1, <2>2, PlacesKept
  <2>4. CASE m.type # "ClearEntries"
    <3>1. m.type = "FlagsUpdate" => Here(Meant, m.id)
      BY <1>2, <1>3 DEF EffectInv, Here
    <3>2. Same(Result(PeerOf(synced), queue.list), Meant, queue.update)
      BY <2>2 DEF Left
    <3>3. Same(Result(PeerOf(synced), queue'.list), Read(Meant, m), queue'.update)
      BY <1>2, <1>4, <1>5, <1>6, <2>1, <2>2, <2>4, <3>1, <3>2, SameKept
    <3> QED BY <1>7, <1>8, <2>3, <3>3
  <2>5. CASE m.type = "ClearEntries"
    <3>1. ASSUME NEW i \in 1 .. Len(queue.list), queue.list[i].type \in EntryTypes \ {"ClearEntries"}
          PROVE  flagsOf[queue.list[i].id] # TRUE /\ synced[queue.list[i].id] # TRUE
      <4>1. i \in DOMAIN queue.list
        BY <1>5
      <4> QED BY <2>1, <2>5, <3>1, <4>1, Zenon DEF ClearsSpared
    <3>2. Same(Result(PeerOf(synced), queue.list), Meant, queue.update)
      BY <2>2 DEF Left
    <3>3. synced \in [Ids -> BOOLEAN \cup {Nil}] /\ \A id \in Ids : Meant[id].flags = flagsOf[id]
      BY <1>1 DEF QueueInv, EffectInv
    <3>4. Same(Result(PeerOf(synced), queue'.list), Read(Meant, m), queue'.update)
      <4>1. queue' = QueueOutgoing(queue, m) /\ InList(queue) /\ AtPlaces(queue)
            /\ m \in Item /\ Meant \in Peers
        BY <1>2, <1>4, <1>5, <1>6, <2>2
      <4>2. NonePersistent(queue.list, flagsOf, synced) /\ HasFlags(Meant, flagsOf)
        BY <3>1, <3>3, Zenon DEF NonePersistent, HasFlags
      <4> QED BY <2>5, <3>2, <3>3, <4>1, <4>2, SameCleared
    <3> QED BY <1>7, <1>8, <2>3, <3>4
  <2> QED BY <2>4, <2>5
<1> QED BY <1>1, <1>9, <1>10, <1>11, Zenon DEF EffectInv

\* The strengthening of EffectKept that QueueOutgoing keeps.
LEMMA EffectInvariance == FlushSpec => []EffectInv
<1>1. FlushInit => EffectInv
  BY EffectInitially
<1>2. EffectInv /\ [FlushNext]_flushVars => EffectInv'
  <2>1. ASSUME EffectInv, UNCHANGED flushVars PROVE EffectInv'
    <3>1. queue' = queue /\ flagsOf' = flagsOf /\ nextId' = nextId /\ synced' = synced
          /\ given' = given /\ collided' = collided /\ faulted' = faulted
      BY <2>1 DEF flushVars
    <3> QED BY <2>1, <3>1 DEF EffectInv, QueueInv, Live, Left, Meant
  <2> QED BY <2>1, EffectPosted, EffectQueued DEF FlushNext
<1> QED BY <1>1, <1>2, PTL DEF FlushSpec

\* QueueOutgoing's merge: unless a value met one pending, a clear knocked out
\* what it spares or a call threw, the peer that reads the pending list ends up
\* where all the messages queued would have brought it.
THEOREM EffectKeptHolds == FlushSpec => []EffectKept
<1>1. EffectInv => EffectKept
  <2> SUFFICES ASSUME EffectInv, ~ collided, ~ faulted, NEW id \in Ids
               PROVE  /\ Here(PeerAfter(queue.list), id) <=> Here(PeerAfter(given), id)
                      /\ PeerAfter(queue.list)[id].val = PeerAfter(given)[id].val
                      /\ queue.update[id].first = 0 =>
                            PeerAfter(queue.list)[id].flags = PeerAfter(given)[id].flags
    BY Zenon DEF EffectKept
  <2>1. PeerAfter(queue.list) = Left /\ PeerAfter(given) = Meant
    BY DEF PeerAfter, PeerAtFlush, PeerOf, Left, Meant, Result
  <2>2. SameAt(Left, Meant, queue.update, id)
    BY DEF EffectInv, Same
  <2> QED BY <2>1, <2>2 DEF SameAt
<1> QED BY <1>1, EffectInvariance, PTL
====
