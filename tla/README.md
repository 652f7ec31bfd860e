# A verification development of the CurtinFRC NetworkTables

The repository is a Windows driver-station dashboard for an FRC robot. Its core is
`FRC.NetworkTables`, a C# implementation of NetworkTables: a table of named values,
replicated between one server (the robot) and its clients (dashboards), each of
which may write any entry at any time. Beside it `src/include/` has parts of the native
C++ implementation of the same thing: its dispatcher, its callback manager and its driver
station client. The modules here model both, check them with TLC and prove part of them with
TLAPS. Paths below are relative to `src/FRC.NetworkTables/` unless they start with `src/`
or `include/` (for `src/include/`).

## 1. The system

### Components, their state and operations

| Component | State | Operations | What makes it correct | Module |
|---|---|---|---|---|
| `SequenceNumber.cs` | a 16-bit number per entry | `++`, `<`, `<=`, `>` | the order of the numbers is the order of the writes, across the wrap | SequenceNumber, SequenceWindow |
| `Message.cs` | none | constructors, `Read`, `Write` | what is read is what was written | Messages (no encoding) |
| `Storage.cs` | `m_entries` (name to entry), `m_idMap` (id to entry), `m_persistentDirty`, `m_queueOutgoing`, `m_server` | `SetOutgoing`, setters, `DeleteEntry`, `DeleteAllEntries`, `LoadPersistent`, `ProcessIncoming`, `GetInitialAssignments`, `ApplyInitialAssignments`, `GetPersistentEntries` | the two indexes agree, ids are never reused, no step takes an entry back to an older write, every change is notified and, unless it was read from a file, marked for saving | Storage |
| `NetworkConnection.cs`, queue | `m_pendingOutgoing`, `m_pendingUpdate` | `QueueOutgoing`, `PostOutgoing` | merging changes nothing of what the peer ends up with | OutgoingQueue, FlushQueue |
| `NetworkConnection.cs`, threads | `m_state`, `Active`, the stream, `m_outgoing` | `Start`, `Stop`, `SetState`, `ReadThreadMain`, `WriteThreadMain` | both threads end together; listeners hear of each change once and in order; `Stop` ends and leaves nothing | NetworkConnection |
| `DispatcherBase.cs`, `TcpSockets/TcpAcceptor.cs` | `m_connections`, `m_active`, `m_doReconnect`, `m_userMutex`, the acceptor | start and stop, the dispatch, server and client threads, the two handshakes, `QueueOutgoing`, `ClientReconnect` | after a handshake both ends have the same table and lose no change made meanwhile; a lost connection is replaced; `Stop` ends | NtSync (messages), Dispatcher (threads) |
| `Notifier.cs` | the listeners by uid, a queue of notifications | add, remove, notify, `ThreadMain`, `Start`, `Stop` | each listener that is there is called once, in order; an added one keeps its slot | Notifier |
| `RpcServer.cs`, RPC part of `Storage.cs` | call and poll queues, `m_rpcResults`, `m_blockingRpcCalls`, `m_responseMap` | `ProcessRpc`, `PollRpc`, `PostRpcResponse`, `CallRpc`, `GetRpcResult`, `GetRpcResultAsync` | a call gets its own answer; one thread waits for it; whatever ends a wait lets the next in | Rpc |
| `StorageSaving.cs` | the file, `.tmp`, `.bak`, the dirty flag | `SavePersistent`, `LoadPersistent` | a save never makes the file older, and something loadable is on the disk | PersistentFile |
| `Independent/` | default core instance | the public API; `SetFlags`, `ClearFlags`, `AddSubTableListener` | no change is lost | EntryFlags, SubTables |
| `src/CurtinFRC.Network.Core/` | WPF view models of tables | listeners on tables | a table created during start-up is shown | SubTables |
| `include/CallbackManager.h`, `ConnectionNotifier.cpp` | a queue, listeners with callbacks or pollers | add, remove, `Main`, `WaitForQueue`, `Poll`, `CancelPoll`, `Stop` | what `Notifier.cs` promises, though the table changes while callbacks run; waits end | CallbackManager |
| `include/Dispatcher.cpp` | as `DispatcherBase.cs`, with `std::thread`s | as `DispatcherBase.cs` | no thread assigned over, no connection dropped alive, reconnection | NativeDispatcher |
| `include/DsClient.cpp` | the station's stream, the port, the last address | `Start`, `Stop`, `Main` | the override is what the station last told, and is cleared when it goes | DsClient, NativeClient |
| `DSClient.cs` | the same in C# | its loop | the same | not modelled: see 6 |
| `src/FRC.NetworkTables.Core/` | native handles | P/Invoke | | not modelled: marshalling |
| `src/*.cs` | forms | login, edit | | not modelled: GUI and a database |

The rest of `include/` declares the native library's API, `Resources/` has vendored AForge.NET
and FFmpeg headers, `bin/` and `obj/` are built. There are no tests in the repository.
`Value`, `EntryFlags` and the wire codec come from a `Shared` project whose source is not
there; nor are the native library's Storage and NetworkConnection, nor `wpi`.

By lines of C and C++ the repository is almost all declarations of libraries whose code is elsewhere
(26,000 lines). The C++ that has code to model, about 1,500 lines, is modelled
but for what section 6 lists; the replication itself is C#.

### How they interact

A user's thread calls `Storage` through `Independent/`. `Storage` changes its tables
under `m_monitor`, tells `Notifier` under it, **releases it**, and only then calls
`DispatcherBase.QueueOutgoing`, which under `m_userMutex` hands the message to each
connection that is `Synchronized` or `Active`. The connection merges it with what it has
pending. The dispatch thread, every 10 ms by default or on a flush, posts what is pending to
`m_outgoing`; the write thread encodes and sends it. At the other end the read thread
decodes one message and calls `Storage.ProcessIncoming`, which on a server passes on
what it accepted to the other connections. A connection starts with a handshake run by
its read thread: the server sends all its entries and `ServerHelloDone`, the client
applies them, sends the entries the server does not have and `ClientHelloDone`. The dispatch
thread wakes the client's thread when the connection is dead. The driver station client's
thread tells the dispatcher which address to connect to.

### What is hard here

* The gap between releasing `m_monitor` and queueing: messages overtake each other.
* Ids belong to a server's life; messages carry ids alone; a client keeps entries
  across servers.
* The merge of pending messages by remembered positions.
* `Stop` against every other thread, each of which may find the connection dead, and in C#
  joins that are made with `m_userMutex` held and rethrow the exception of the thread.
* A handshake while the table changes; a refused revision while a reconnect is under way.
* Callbacks run with the mutex released (C++) while listeners come and go.
* Waits that end by a result, a time-out, a cancel or a stop, at once.
* A save is three renames, any of which fails or is the last before a crash.

The hazards are listed, each at its line, in `PROJECT.json`.

## 2. The modules

```
SequenceNumber <- Messages <- OutgoingQueue <- FlushQueue
      |              ^              ^
SequenceWindow    Storage  <---  NtSync          NetworkConnection
      ^              ^              ^
      |           MCStorage      MCNtSync
      |           Storage_proofs <- NtSync_proofs
      |
      |   EntryFlags  SubTables   Dispatcher     NotificationLog
      |        \          |                       ^ refined by ^
   MCParts --------------------------------- Notifier    CallbackManager
      |                   |                                    |
PersistentFile    NativeDispatcher <- NativeClient -> DsClient |
                                                 Rpc <---- MCCalls
```

with `Parts_proofs` over five of the modules of `MCParts` (`SequenceWindow`, `PersistentFile`, `EntryFlags`,
`SubTables`, `Notifier`), `Connection_proofs` over
`NetworkConnection` and `FlushQueue` (the threads and the queue of one connection), and `NativeDispatcher_proofs`, `Rpc_proofs`,
`CallbackManager_proofs` and `Dispatcher_proofs` over the modules of those names.

### The replication

**SequenceNumber** has the operators of `SequenceNumber.cs`; `HalfRange` is `1u << 15`.
**SequenceWindow** is the smallest system that uses them: a writer that increments the
number of an entry (`SetEntryValue`), a receiver that keeps what is newer
(`ProcessIncoming`, `EntryUpdate`), and a medium that reorders, repeats and drops.
History variables count the writes without wrapping. It is the abstract promise the
sequence numbers make: a register that only moves forward, within a window.

**Messages** has the constructors of `Message.cs`. **OutgoingQueue** has `QueueOutgoing`
as operators on a queue value, every branch of the switch one operator, with the
positions counted and used as the code does (`MergeIndex`, the `>` of line 294), and
the exceptions it throws (`fault`). **FlushQueue** puts one such queue between a server's
table, reduced to what the merge depends on (which ids have an entry, and its flags), and
a peer that reads the posted list.

**Storage** is `Storage.cs`: `heap` holds the `Entry` objects, and `ents` and `idMap`
refer to them, because an entry can be reached by one and not the other. Every
operation is one action, as it holds the monitor, but for two things the code does
outside it: the messages it made are left in `hand[n][t]` and queued one by one in later
steps; and the assignment that releases the monitor half way (lines 239-244) is two
actions, `Bind` and `BindResumed`. `SetDefaultEntryValue` is the first disjunct of
`SetEntryValue`, creating an entry, since the calls that find one change nothing.
An abstraction is in the flags: one bit, `Persistent`, the only one the code tests.
`SetOutgoing` is what `StartServer` and `StartClient` do to a `Storage`, at first and whenever the node
has been stopped; the tables stay as they are. So there are four roles: `"idle"`, `"server"`, `"client"`, and `"turned"`
for a server that was a client before. Its entries may have no id (`Storage.cs:611, 662-667, 729` are there for them): it
gives one when an entry is next set (`KeepValue`, if the value is the same), and until then presents the entry to its clients with the
id 0xffff. An update of such an entry, which gives the id and carries it, is the first its clients hear of that id.
`LoadPersistent` is the table half of `StorageSaving.cs:680-739`, the public call and the one of `StartServer`: under one hold of the monitor
each name of the file gets its value, becomes persistent, and is given an id and a number; all is notified, and queued afterwards.
It leaves the dirty flag alone, and so `saved`, the history variable of what is on the disk, counts what was loaded: `DirtyCoversChanges`
is about the changes since. What a user loads from *another* file is therefore not written to the server's own file
until something else sets the flag. The file names each name once. What a notification calls the change is left out everywhere; here it says "new" of an entry that had
a value and "update" of one that had none (lines 704-712), so a listener that asked for one of the two only would be misled.
By itself a node meets any message (`PeerMessages`) and any table (`Presentations`), which
is more than a correct peer sends. `SetOutgoing` is enabled while readers hold messages or a half-done assignment, though `Stop`
joins them first: also more than the code does.

**NtSync** composes `Storage` at every node with two `OutgoingQueue`s, two streams and
a handshake per connection. `HandOver` becomes `QueueToAll` (`DispatcherBase.QueueOutgoing`)
or `Refused`, when a connection throws. The handshake is split where threads can come
between: `Accept` (the server lists its entries and is `Synchronized`), `ClientHandshake`
(the client applies them), `SendPrepared` for what each has then made ready,
`ServerHandshake` (the server has read up to `ClientHelloDone`) and `ProcessInitial`, one
message at a time. `Drop` breaks a connection with everything under way; `Restart` is a
crash of the server.

**NetworkConnection** is the life of one connection's threads. Each has a program counter
whose labels are the places where it can be interrupted or block: the two critical
steps of `SetState`, reading, processing, taking from `m_outgoing`, sending, the
assignments of `Active` and the disposal of the stream. `Stop` is a third thread.
A disposed stream may make a read or a send return nothing or throw, both are modelled.

`MCStorage` and `MCNtSync` give the values and types, symmetry sets and views. A view leaves out
what no guard and no checked property of the run reads: the contents of messages a node by
itself has in hand (only passing them on matters); on a client, what it would save; and of
the history variables those a property no longer asks about. `raced` and `stale`, once true,
stay true, so in `sync`, which checks `Convergence` alone, the states it excuses are one.

### The processes around it

**NotificationLog** is the abstract specification of a notifier: events are published to all
listeners or to one, and are dealt with in order; an event is retired when every listener that
was there when it was published, and still is, heard it; nobody hears one twice. **Notifier** (C#)
and **CallbackManager** (C++) are the two that implement it, each with a refinement mapping
(`Promise`): what is retired is what has left the queue, and who is subscribed is who is in the
table. The C# thread holds its mutex except in callbacks, and its entry listeners' removal
does not remove (see 4), so only its connection listeners' half is a `NotificationLog`; `Entries`
selects the half, `Overlap` lets `Start` come inside a `Stop`, `Throwing` lets callbacks throw.
In `CallbackManager` every call is one step, cut where it waits; `WaitForQueue` and `Poll` are
user threads with counters; `SafeThread`, whose last owner destroys the object, and `UidVector`
are external.

**Dispatcher** is the threads of `DispatcherBase.cs` and `TcpAcceptor.cs`: the user in `Start` and
`Stop`, one action per place where it blocks or lets another in; the dispatch thread; the server's or the
client's thread; of each connection the reader and the writer, as far as whoever joins them can tell.
`mutex` is `m_userMutex` only where it is held across a join (lines 430-439). **NativeDispatcher** is
the same of `Dispatcher.cpp`: there, connections are destroyed at once and a thread's exception is not
passed on, but assigning to a `std::thread` that was not joined ends the program
(`"terminated"`), and the revision refused by a server is remembered
(`refusal` is history). **DsClient** has the thread's places from `Wake` to `Done`,
the local stream that `Stop` closes without a lock, and the station (external) whose address changes.
**NativeClient** composes the two: a step of `DsClient` that changes the override is also
`SetConnector` of the dispatcher, with the dispatcher's threads running meanwhile.

**Rpc** has callers on the server and its clients, the server's callback thread or its pollers,
threads that post responses, and threads that wait for results, with a time-out, for ever or
cancelled. A response carries the uid alone; keys of `m_responseMap` are the connection's
and the uid. Requests on their way are a set, since both ends release the monitor before they send.
**PersistentFile** is the `SavePersistent` of the server's dispatch thread and of a user, each file operation a
step that may fail, and `Crash` between any two, after which the file is loaded. **EntryFlags**
is `SetFlags` of the table API over `Storage`'s flags, on every node. **SubTables** is the dashboard's
constructor, which lists subtables and then listens, the notifier's thread and the UI's posts.

### Modules that only TLC uses

`MCParts` and `MCCalls` check several components in one run. The components **share no
state**: the initial state picks one, `part`, and only that one moves; the others keep their
initial states. So the states of the run are the sum, not the product, of the components'; nothing is
composed and nothing is restricted, and a property of one, an invariant on its variables, says of
the run what it would say of the component alone. `MCCalls` has fairness for both of its
components: the conditions on the one that does not move hold trivially (its steps
are not enabled), and so the liveness properties say the same too. They extend the components,
whose names for that reason say which they are of (`WindowInit`, `FlagsNext`, `NotifierStop`); the values of the constants
are in the configuration, and a second instance of a module (`OfConnections`, `Polled`) gives the others.

### Abstractions to know of

* A stream breaks at both ends in one step, and a client connects again only when its
  last readers have ended (its thread disposes of the old connections first). A
  server's reader still in `ProcessInitial` goes on after the loss, as in the code.
* The order of `m_connections` is any order in `NtSync`. Values are compared by identity.
* The protocol is revision 3. A `ServerHello` carries no flags
  (`DispatcherBase.cs:578`), so a client always takes the server for a new one; `Storage` by
  itself also has the other case and revision 2 (`newServer`, `rev3`).
* A server that has given all its ids creates no more entries (the guard with `Unassigned`);
  in the code the next id would be 0xffff, which means none. That overflow is cut away, not checked.
* In `NtSync` nobody loads a file, a restarted server neither, and no node changes sides: `LoadPersistent` and the
  roles are checked and proved about for `Storage` by itself.
* `ViewMatches` and `DirtyCoversChanges` are about servers that were never clients. A client's listener is not told of an
  entry that loses its name or comes back by another id.
* `NotifyEntry` is modelled in `Storage` as given to a listener of everything.
* `Stop` of a connection disposes of stream and client in one step; a keep-alive is a batch like others.
* Setting the state: `Stop` may write `m_state` between the test and the assignment of
  `SetState`. A write between the notification and the assignment has the effect of one
  earlier or later, so `SetState` is two steps and not three.
* A condition variable wakes its waiter, who tests again; a spurious wake-up is no step.
* A `Move` fails if its source is open or absent or its target exists; an unexpected exception
  of another kind (`UnauthorizedAccessException`), which would end the dispatch thread, is left out.
* `TcpAcceptor.Shutdown`'s early return on a `SocketException` of its own connection is left out.
* `DsClient` is checked with a `Stop` that waits for the thread (`Detaches = FALSE`, the newer
  `SafeThreadOwner`). With one that detaches it, an old thread's last `ClearServerOverride`
  may come after a new thread's `SetServerOverride`, and `OverrideFollowsStation` fails.
* A `UidVector` that reuses an index (`ReuseThreshold`, above the runs' number of listeners) gives an event
  that was addressed to a removed listener to the new one with its index.
* A poller uid equal to the number of pollers passes the bounds tests (`>` at
  `include/CallbackManager.h:93, 238, 282`) and reads past the table; no such uid is used.

## 3. The runs

| Run | Instance | Checks |
|---|---|---|
| `flush_queue` | 2 ids, 2 values, 4 messages per flush | `EffectKept`, `ClearedForGood` |
| `flush_queue_merge` | the same | `MergedAssignment` is violated |
| `storage_server` | a server; 2 names, 2 ids, 2 values of 2 types, 2 objects, circle of 4, any message or file | `ViewMatches`, `DirtyCoversChanges`, `IdsNotReused`, `ServerSeqForward` |
| `storage_client` | a node started as client and as server in any order; 1 name, 2 ids, 1 value, 2 objects, any message, table or file | `EntryIdsResolve`, `ServerIdMap` |
| `sync` | server, 2 clients, 1 name, 3 ids, 3 calls | `Convergence` |
| `sync_reconnect` | server, 1 client, 2 users each, 1 name, 3 calls, 1 drop, 1 crash | `HandshakeUndisturbed`, `Convergence` |
| `sync_restart` | server, 1 client, 2 names, 3 calls, 1 drop, 1 crash | `IdAgreement`, `NoCrossTalk` |
| `connection` | 2 posts | `SetStateOneShot`, `StopIsClean`, `DeadUnlessStopped`, `StopEnds`, `LossEndsBoth` |
| `dispatcher` | C# server or client, 1 start, 2 streams accepted or 3 connected, 2 losses | `NothingLost`, `RefusalIsHeeded`, `StopReturns`, `ClientConnects` |
| `native_client` | 1 start, 3 streams, 1 loss, 1 address told and taken back | `OverrideFollowsStation`, `StationConnects` |
| `calls`: Rpc | server and 1 client, called back or polled, 2 calls, 2 uids, 1 loss, 1 start, 1 cancel | `ResultIsOwn`, `BlockingIsWaited`, `CallIsAnswered` |
| `calls`: CallbackManager | 2 listeners, 2 events, timed and untimed waits; 2 polled listeners, 1 event, 1 cancel (`PollerReturns`: an event, a cancel or the end of the object makes every `Poll` under way return) | `IsNotificationLog`, `WaitMeansDelivered`, `WaiterReturns`, `PollerReturns` |
| `parts`: SequenceWindow | circle of 8, 9 writes | `OrderIsWriteOrder`, `NeverBackInWindow` |
| `parts`: PersistentFile | server's file and a user's, 3 changes, 2 failures, 1 crash | `SavedIsSomewhere`, `RestartFindsLatest` |
| `parts`: EntryFlags | server, 2 clients, 2 flags, 3 calls | `OneCallerDecides` |
| `parts`: SubTables | 3 subtables, 4 assignments | `NothingElseMissed` |
| `parts`: Notifier | connections: 3 listeners, 2 removals, 2 events, 2 starts; entries: the same with 1 event, overlapping starts, throwing callbacks | `NotifierIsLog`, `AddedStays` |
| `parts`: NativeDispatcher | server or client, 2 starts, 2 streams, 1 loss, 1 new server | `NothingLeftRunning` |

Each property has a comment in its module, and in `PROJECT.json` a mutant of the code that
breaks it: an operator beside the one it changes, whose comment says what it leaves out.
Modules also have a type invariant, which the proofs of the proved ones contain, and state some
properties that no run here asks for (`PositionsInList`, `QueueDrains`, `PollKeepsEvents`,
`ResultEndsWait`, `FaultHasCause`, `StopEndsThread`, `InstallsOverTheDead`, `BuiltAtMostTwice`,
`AssignedIsShown`, ...); add one to a configuration to check it.

**Bounds.** The circle of numbers is small so that it wraps within a run; the window of
`SequenceWindow` is half of 8 and 9 writes go round it. Four messages between two flushes
are enough for an assignment, an update that merges, a message in the wrong place and a
clear or delete after it; positions only matter up to the last two of an entry. A
server of two names and two ids meets an id with no entry, one emptied, and ids exhausted;
two objects are what two names can hold on a server; two values of different types are changed by an assignment,
and an update of a value by itself is a change of number or of flags. A client's second object is the one a
reader or another id still holds after its entry was removed. `ServerIdMap` and `EntryIdsResolve` are checked with one name, and
proved for any number. Three calls are a creation, a change and a
deletion, by different nodes in any order; the third id is for the entry created again,
since ids are not reused. In `sync_restart` two names are needed for an id to mean the wrong one.
With two names and clears `Convergence` itself fails: a `DeleteAllEntries` releases the monitor before
its clear is queued, and an entry another thread creates in between is cleared at the peers only.
That is why `sync` and `sync_reconnect` have no clears, and `sync_restart`, which has them, does not ask for it.
Two users of a node are in `sync_reconnect`; the other runs have one, since a reader is already a second thread of its node.
Three streams are a connection refused, one that takes its place, and one lost and replaced.
Three listeners are one called, one before it and one after it in the table, of which two go. Two
calls with two uids from two callers are two calls of one key with different answers; two uids also
come round, which `ResultIsOwn` excuses (`Repeated`) as 65536 calls would be.
Two failures are one in a save and one in putting its backup back. Three changes are one saved,
one in the save under way, one after its snapshot.

**Deadlock** is not checked where a system may stop: when the bounds on calls or writes
are used up, or everything has ended.

**Fairness.** In every module with liveness a thread that can run is run, and nobody has to
call anything. What each module assumes besides:

* `NetworkConnection`: whoever waits for `m_stateMutex` gets it in the end (strong fairness of `EnterSetState`).
  A read of a stream that is closed or whose peer has gone returns, and so does a send; a peer that keeps the
  connection open need not read or write. `m_processIncoming` returns or throws; `Dispatcher` has the mutex it may block on.
* `Dispatcher`: threads that want `m_userMutex` get it if it is free again and again (strong fairness).
  `Accept` returns once it is shut down, and otherwise need not.
* `NativeDispatcher`: weak fairness only, since what holds `m_user_mutex` is one step. `Accept` likewise;
  a dead stream is noticed; a dispatch period ends.
* `DsClient`: a station with a new address tells it; a read of a station that has none may block until
  the stream is closed.
* `Rpc`: messages arrive, callbacks return, a woken thread runs. Time-outs and cancels need not come.
* `CallbackManager`: callbacks return, a timed wait times out, the last reference to an object destroys it.

### What the runs show

* Within its bounds the replication is right: for a name one node changes, merges, echoes,
  late ids, lost connections and crashes leave the nodes with the same entry (`Convergence`), ids agree
  while connected (`IdAgreement`) and no entry gets a value of another (`NoCrossTalk`).
* The last two have an exception beyond those bounds, in `displaced`: the misplaced store of `NetworkConnection.cs:228`
  (section 4) can put a server's message in the place of the next entry's, and the merge after that makes an assignment
  of one entry's name and another's id. It takes two new entries, a change of flags of each and an update of each, all
  within one flush; the client then keeps two ids for one entry, and a sixth change reaches the wrong one.
* That takes premises, each of which names a behaviour of the code that breaks it.
  `raced`: two messages of one entry were merged or refused, or a thread's flags overtook
  another's (flags have no sequence number), or two users of one node had messages to pass on at once: `Storage`
  releases its monitor before it queues what it changed, so an update can go before the assignment of its entry, which the peer
  then drops, and a deletion before or after the creation it did not follow. `stale`: a call made its message with the ids of
  a connection that has gone. One writer: two nodes writing at once can end with the same
  sequence number and different values. A client's own offering of an entry counts as a
  write, and so an entry deleted on the server while the client was away comes back.
* A connection's threads do end: on `Stop` at any moment, and on the loss of an established
  peer, unless an exception ended one of them. That exception is the weak place: nothing
  in `ReadThreadMain` sets the state then, and nobody reconnects. The dispatcher's properties have
  to except it too, and the deadlock `Stuck`, of a client's thread that joins a reader which wants `m_userMutex`.
* Both notifiers deliver in order, once, to whoever is there: in C++ although the loop goes by index
  over a table that changes under it, because freed indexes are not reused at once.
* The native client's two threads agree: the override follows the station as it comes and goes, through a loss, one
  start and its stop, and the client ends up connected whatever woke it. A refusal is not forgotten by
  a reset of the revision: flag and revision are set and reset under one mutex in both dispatchers.
* RPC results reach whoever called. One thread waits in the run, and that a second one is kept out of a wait is `Rpc_proofs`'. Exceptions found on the
  way: a cancelled wait leaves its uid in `m_blockingRpcCalls` (`Storage.cs:1150`), which shuts out
  every later wait for that uid (`leaked`); results nobody asks for are never removed; connection 0 and the
  server's own calls share keys (`RpcServer.cs:185-189`), so that with two posters a poster may answer the one's call as the
  other's and the other poster fails; a callback that throws leaves `Active`
  true without a thread; a `Start` inside a `Stop` sets it again, and the `Stop` waits for a thread that goes on.
  `Dispose` (line 36), not modelled, waits without clearing `Active`, which is all that the thread tests.

## 4. Divergences the models show

Where a comment or a doc promises what the code does not do, the module states the promise as a property, and
a configuration reaches the counterexample. `flush_queue_merge` is a run of the project
and the finding of `PROJECT.json`; the others are run by hand, as in section 7, and each ends with the
named property violated.

| Configuration (module) | Property | Promise | What the code does |
|---|---|---|---|
| `FlushQueueMerge` (FlushQueue) | `MergedAssignment` | `NetworkConnection.cs:227` "need to update assignement" | line 228 stores at a position counted from 1: the message after the assignment is overwritten, or the store throws |
| `FlushQueueClear` (FlushQueue) | `ClearKeepsPersistent` | `Storage.cs:868` "only delete non-persistent values" | `NetworkConnection.cs:308-313` blank every pending assignment, those of persistent entries too |
| `NetworkConnectionDead` (NetworkConnection) | `DeadIsForever` | `NetworkConnection.cs:172` "Don't update state any more once we've died" | `Stop` assigns `Dead` (128) without the mutex; a `SetState` past its test overwrites it |
| `CallbackManagerHang` (CallbackManager) | `StopEndsPoll` | `CallbackManager.h:61` "Wake up any blocked pollers" | a `WaitForQueue` without time-out keeps the object alive after `Stop`: the destructor, which wakes the polls, never runs |
| `CallbackManagerCancel` (CallbackManager) | `EmptyPollHasCause` | `ntcore_cpp.h:846` "Only returns empty if an error occurred" | a `CancelPoll` when nobody polls makes a later `Poll` return empty (289) |
| `NativeDispatcherMode` (NativeDispatcher) | `StoppedModeIsNone` | `ntcore_c.h:93` "not running" | a server whose accept `Stop` ended returns (372-376) without resetting its mode |
| `DsClientStream` (DsClient) | `StopClosesALiveStream` | `DsClient.cpp:46` "Close the stream so the read (if any) terminates." | `Stop` tests and closes (50) what the thread may assign in between |
| `DsClientPort` (DsClient) | `OverrideHasAskedPort` | `ntcore_cpp.h:1283` "server port to use in combination with IP from DS" | the port is copied before the station is connected (68): a later `Start`'s is not used |
| `RpcTwice` (Rpc) | `AnsweredOnce` | `RpcServer.cs:210` "nonexistent call (or duplicate response)" | lookup, send and removal (208-214) are not atomic: two threads both answer |
| `NotifierRemoved` (Notifier) | `RemovedIsSilent` | `Notifier.cs:211` "removed" | `Erase` (50) sets a copy of the struct to null; the listener goes on being called, and its slot is given away |
| `DispatcherStuck` (Dispatcher) | `DisconnectEnds` | `DispatcherBase.cs:436` "Disconnect any current" | line 438 joins, with `m_userMutex` held, a reader that may wait for it: a deadlock |
| `DispatcherClose` (Dispatcher) | `StopClosesAll` | `DispatcherBase.cs:214` "Dispose and close all connections" | `Dispose` rethrows a thread's exception; the connections after it are left running |
| `PersistentFileTorn` (PersistentFile) | `FileIsWhole` | `ntcore_cpp.h:1379` a user may save "to a file" | a save to the server's own file shares its `.tmp`, which the other save truncates before moving it |
| `PersistentFileCrash` (PersistentFile) | `RestartKeepsSaved` | `IndependentNetworkTable.cs:132` "persistent through program restarts" | after a crash between the moves (320, 329) there is only `.bak` and `.tmp`, and neither is loaded |
| `PersistentFileDirty` (PersistentFile) | `ChangeIsSaved` | `ntcore_cpp.h:1378` "The server automatically does this" | a user's save clears the one dirty flag (30), and the server does not save the change |
| `EntryFlagsLost` (EntryFlags) | `NoFlagLost` | `IndependentNetworkTable.cs:160` "Sets flags on the specified key" | read and set are two calls (166): of two callers one's flag is lost |

Two more need a property put in place of another in a configuration. `OneShotNotify` in `NetworkConnection.cfg`:
`NetworkConnection.cs:174` says "One-shot notify state changes", and lines 398 and 419 announce what `SetState` announces
too. `ListenerOutlivesUse` in
`CallbackManagerCancel.cfg`, with `Added = {FALSE}`, `Polls = {}`, `MaxAdds = 2` and `MaxCancels = 0`: `CallbackManager.h:135` says "Use index because iterator might
get invalidated", and line 137 takes a reference that is used after the unlock (144), undefined behaviour if the table grew.

## 5. The proofs

`Parts_proofs` is about five modules. Of `SequenceWindow` it proves `OrderIsWriteOrder` and `NeverBackInWindow` for every `HalfRange`
above 1 and every number of writes. The invariant the properties follow from, but which
they do not contain, is `InStep`: of any two numbers the system knows (the writer's, the
receiver's, those under way), the one written d writes later is d increments ahead, for
d within half the circle. A write preserves it by one increment (`IncAhead`), and reading
only forgets or copies. Lemma `AheadIsNewer` turns distance into the code's comparison.

`Connection_proofs` is about a connection's threads and its queue. Of the threads it proves `TypeOK`, `SetStateOneShot`, `StopIsClean` and `DeadUnlessStopped`
for any number of posts. The inductive invariant `IInv` adds to the types: which labels
each thread can have; that a thread past the test of `SetState` finds the state not dead
unless a `Stop` has begun (`Holding`); that the state is dead whenever the listeners were
told of a disconnection and no `Stop` can have begun otherwise (`DisconnectedIsDead`); that
only the read thread announces a connection, and once (`ConnectedOnce`); how many
notifications are outside `SetState` (`Extra`); that a thread leaves its last `SetState` with
the state dead (`ReaderLeavesDead`); and what a `Stop` has done so far (`Stopping`). `StopIsClean`
needs all of them: `Stop`'s own `Dead` can be overwritten, and it is the ends of the two threads,
for which it waits, that restore it.

Of the queue it proves `ClearedForGood`, `EffectKept`, `PositionsInList` and `FlushTypeOK`, for any ids, names, values and number of messages
between two flushes. `QueueShape` says first what the branches of `QueueOutgoing` come to: a message added at the end with or without its place
remembered, one put over another, the message or messages of one entry blanked, everything blanked. `QueueInv` is of whatever was queued, merged in
the wrong place or refused with an exception: places are of the list (`InList`) and of slots that exist (`Slots`), and a clear has nothing to read before
it *and no place before it* (`Leads`). The last half is what the code has `m_pendingUpdate.Clear()` for, and without it the first is not inductive: a later
message of the entry would be put in the place of a blanked one.
`EffectKept` compares what a peer makes of two lists. Its invariant (`EffectInv`) says that the peer that reads everything has the server's flags of every entry
(`FlagsFollow`), and, until two values meet, a clear knocks out what it spares or a call throws, that all that is pending of an entry is at its two
places (`AtPlaces`) and that the two peers agree (`Same`), but for the flags of an entry with a value pending. Six lemmas say what
a change of the list does to its reader: a message added at the end is read last (`ResultAppend`), a blank is as good as what it replaced for the
other entries (`BlankedResult`), and flags put in the place of flags, with no clear and no other flags of the entry after them, change only
the flags, and make them the new ones if no assignment follows (`FlagsReplacedResult`). The reader is a fold, and they are proved by induction
over the list: `FoldIsRun` turns the fold into the sequence of what the peer is after each message, and `AllUpTo` is induction over numbers
stated of a set, which follows from the least element of its complement (the library's `WFMin`).

`Storage_proofs` proves the six properties of the two `Storage` runs for any nodes, names, values, ids,
threads and number of `Entry` objects, whatever is called, loaded or sent and whenever a node is started as client or server. It has
three invariants.

`IInv` is about a server that was never a client. Its tables are treated as values first: `TablesOK` says
of a heap, its two indexes and the count of ids that a name leads to an entry of that name whose
id was given and leads back (`NamesHaveIds`), and that an id leads to an entry of that id whose
name leads back (`IdsHaveNames`). Neither half is inductive without the other: a delete by
id removes by the entry's name, a delete by name by the entry's id. Lemmas say that adding an entry under the next id,
changing one but for name and id, removing some from both indexes, and setting and adding many at once (`ManyKeepTables`, for a file) preserve it. Each
operation is then one of these at such a server, or a step of another node, of which `IInv` says nothing.
`IInv` also says that such a server never has an assignment half done, which is
why `BindResumed` cannot put an entry's old state back there.

`TInv` says that after each step what a server's listeners were told (`view`) is its table (`Shown`), and that what it last gave to be
saved, with what it loaded since, is what it would give now, or the dirty flag is set. `ViewMatches` and `DirtyCoversChanges` are its two parts.

`RInv` and `GInv` are about every node, in any role, where the two indexes need not agree: an id may lead
to an entry that has lost its name, or that has another id. `RInv` says that what a name leads to is an entry of that name, that its
id, if it has one, leads back, and that what a reader has left to do when it comes back to the monitor is an assignment to an
object (`ReadersOK`); `GInv` that no slot beyond the count is taken (`Granted`) and that an object nothing refers to is free (`Collects`), so that a new
entry never takes the place of an old one's object. With them each step of a server is shown to fill no slot it emptied and to make no number older (`Grants`), action by
action: each assigns a number only after the comparison, or the successor of the old one. `EntryIdsResolve` is a part of `RInv`, `IdsNotReused` and
`ServerSeqForward` follow from `Grants`, and `ServerIdMap` takes all three: its first half holds of a turned server by `RInv` and `GInv`, and of one that was
never a client entries without id are excluded by `IInv`.

Of the file it proves `FileTypeOK`, `FileIsWhole`, `SavedIsSomewhere` and `RestartFindsLatest`, for any files,
changes, failures and crashes, from the one assumption that no user saves to the server's own file
(`Home \notin UserFiles`; `PersistentFileTorn.cfg` shows why). The invariant follows a save: two saves under
way have different files (`Apart`); the temporary file that will be moved is complete (`Whole`); the server saves
the latest version (`Fresh`); the file is never older than what was saved, and nor is a backup when there is no file (`NeverOld`); and
one of them is there (`Kept`). `SavedIsSomewhere` needs `NeverOld`, and that needs `Fresh`: what the server is about
to write must not be older than what it reported saved, also after a restart that lost changes.

Of the flags it proves `OneCallerDecides`, for any clients, threads, flags and calls. Flags have no sequence number, so that nothing but the order of
arrival decides between two; with one caller the order is that of its calls. `FlagsInv` says, of a thread that
made all the calls (`Alone`): it computes its flags from those it asked for (`CallerKnows`), nothing comes from anybody else (`OthersSilent`), and
each stream ends with what its sender has now, but for what a thread holds between setting and queueing, or the server's
reader between taking and passing on (`Follow`). With a second caller none of it is claimed, and `EntryFlagsLost.cfg` shows why.
Of the subtables it proves `NothingElseMissed`, whose invariant adds only that what the listener was notified of has its view or is posted.

Of the notifier it proves three things. `AddedStays`, for both kinds of listeners, callbacks that throw and threads that overlap: `TableInv` adds that
the free list has each slot once, and only of removed listeners, until a slot is freed twice (`FreeSlots`), which the code's own test cannot
prevent for entry listeners. `RemovedIsSilent`, for connection listeners (`OfConnections`), whose slot is set to null: a thread that is already in its
callback may finish it, with what was sent before (`LastCall`). And that for them the module implements `NotificationLog` (`IsNotificationLog`), if in addition no
`Start` comes inside a `Stop` and no callback throws (`OneAtATime`): with either the code does not, as two threads on one queue
deal with events out of order, and a thread that a callback ended has lost the event it had in hand. `LoopInv` says that there is one thread that has not ended (`OneThread`), that the queue is the last of
what was sent and that the thread has in hand what came before it (`InOrder`), and that its index divides the listeners: those to come have not heard of that (`Unreached`), those
it has passed have, if they were there when it was sent (`Behind`). Unlike the C++ loop, this one pops before it calls, and a `Stop` leaves what the thread has in hand
to be dealt with: `Retired` counts it as under way.

`Rpc_proofs` proves `BlockingIsWaited`, `ResultIsOwn` and `FaultHasCause` for any callers, threads, uids, calls and losses.
`BlockingIsWaited` counts the waiting threads of a uid; the invariant says instead that two of them are the same (`OneWaits`), that each has its
uid in the set (`WaitingBlocks`), and that a uid is in the set for one of them or for a cancelled wait
(`BlockedHasCause`). A wait that ends removes its uid, which is right for the others only because of `OneWaits`.
The other two are about the chain from a call to its result: a request, a key in `m_responseMap`, a response that carries
the uid alone, a result, a wait. `AnswerInv` says at each link whose call can be there: a request is of a connection that its
caller had (`OwnConns`), a key leads to the call that was put under it last (`Keys`), and what is found under a caller and a uid is an answer to a call of that
caller and that uid (`ResultsFit`, `BackFits`, `GotFits`). `FaultHasCause` needs also that a response is in one place only: by `CopyInv` a client that has two
copies of one on their way, or one on its way and its result, is of a call that was answered twice.
Both properties were false as first written, and the failed proofs said so: a result can be of a call
whose own uid came round though the waiting call's did not, and with two posters a fault can follow a double answer or a shared key. TLC confirms both with a third caller or a second poster.

`NativeDispatcher_proofs` proves `NeverTerminates`, `LiveConnectionsListed` and `StopLeavesNothing`, and so
`NothingLeftRunning`, for any roles and numbers of starts, streams, losses and servers. `JoinOrder` says between which steps of the user the threads can be joined,
`JoinedIsDone` that they run only then, `AliveListed` that a connection not over is in the list, `StoppedIsOver` that
once stopped all are over. That connections are added only by a thread that runs, so never after the join,
is what the last one needs of the second.

`Dispatcher_proofs` proves `NothingLost` and `RefusalIsHeeded` for servers and clients and any numbers of starts, streams,
losses and failures. `NothingLost` is two statements: a connection that is not dead is in `m_connections`, is about
to be closed by `Stop`, or was left by a `Stop` that an exception ended (`LiveListed`); and the server's or client's thread ends by
an exception only if a `Shutdown` came between its test and its `Accept`, or the old connection's reader had one (`MainFaultHasCause`). The invariant adds
where the user and the threads can be together (`Places`: no `Start` while a thread of the last one runs,
`m_userMutex` held by a disconnecting client alone, a `Stop` that swaps the list only after the thread was joined), that what is about to leave a list is dead
(`Leaving`, for which a client's list must have one connection at most), the acceptor's flags (`Shutdowns`) and `Refusals`. That a place in the list is given to a new
connection only if the old one is dead, and that `Stop` takes the list only when nobody adds to it, are what `LiveListed` comes down to.

`CallbackManager_proofs` proves `WaitMeansDelivered`, and that the module implements `NotificationLog`
(`IsNotificationLog`), for any numbers of listeners, notifications and time-outs. `QueueInv` is enough for the first, also where indexes
are reused: the queue holds the last of what was sent, so that an empty queue, or a front sent later than the wait began, means that all
before it is delivered. The refinement assumes that no index is reused (`NoReuse`), without which an event for a removed listener reaches the
new one with its index. Then the n-th listener is at index n or nobody is (`Slots`), an event for one listener is
for the one its sender meant (`Targeted`), and the loop's index divides the listeners (`Passed`): nobody has heard of more than what is
popped and, if the index is past him, of the event in hand (`NotAhead`); whoever it is past, who was added before the event was sent and is its
target, has heard of it (`NotBehind`). Each step is then one of `NotificationLog`'s or a stutter: a callback needs `NotAhead` not to be a repetition, and
a pop needs `NotBehind` not to leave anybody out.

The proofs assume only the named assumptions of the modules, which TLC evaluates in the runs (`HalfRange > 1`, bounds
are naturals, there is a thread, in `NtSync` the server is no client and the only server, sets of names, nodes, callers finite where they are counted, `Nil` is no name, value, object or flag, and in `Rpc` that clients are
numbered from 1, as connections are from 0), and what is said above. TLC checked each invariant before it was proved.

`NtSync_proofs` proves `HandshakeUndisturbed`, `IdAgreement` and `NoCrossTalk` for any number of clients, users, names and ids,
and any calls, losses and restarts of the server. `SyncInv` has three parts. `TablesInv` is what `Storage_proofs` proves of a node,
of every node at once, with two facts its own messages do not need but these do: a client has one reader (`Roles`),
and an entry's value is a value (`HasValues`). `LinksInv` says how far a handshake can be (`Phase`): which of the two streams,
of the two prepared batches and of what the server has read can hold anything in each state, that each is then a batch,
assignments ended by a `HelloDone`, and that the server's stream opens with one until it is read; and that the batch a client is
to read tells ids and names apart (`Presented`). `HandshakeUndisturbed` follows from `Phase` alone. `HonestInv` is for `IdAgreement`. An id `Fits` a name if the server has given it, and
what it leads to there, if anything, has the name. That is stable (`FitsStay`), by `IdsNotReused` and because an entry keeps its name;
the invariant says that every assignment in the server's hands, in its queue for a client, prepared or on the way (`AllHonest`), and
every id a client has, fits. A merged message keeps the id of the message it is put over, which is why a remembered place must be one of its
own entry's (`OwnPlaces`), and why a client whose queue has displaced a message is left out until it connects again.
Each operation of `Storage` is shown to hand on messages of entries the server has and to give a client no other id than the message's
(`Goes`); the queue's operators to keep `OwnPlaces` (`QueueKeeps`). The proof showed one thing to be wrong: a reader that
ended late could mark the client's next connection as stopped; `Accept` makes new threads, and now says so.

`NoCrossTalk` is about values, and most messages carry a value with an id and no name. So `TalkInv` carries an assignment
of ids to names, the ids the server has given so far (`Owns`), and says of it, as long as nothing is `stale`: the server's ids, and those of a client that is connected,
are of their owners' names (`Known`); every message has a value that was given to its name, or, if it has an id, to the id's (`Upward`), and
on its way to a client also the id's own name if it has any (`Downward`); an entry has a value given to its name, and an assignment that a reader
has yet to finish is still about the entry it was about (`Worthy`). That `IdAgreement` holds is not enough for this: an entry may be gone at
one end, or at both, while what was sent for its id is still on the way, which is why the assignment outlives the entries. It grows
when the server gives an id (`OwnersGrow`, by `FitsStay`), and all that was said stays true of a longer one (`Grown`). A client that is not connected is only asked to be `Worthy`:
it keeps old ids until it takes the next server's (`TakesWorth`), and what a call of its users still holds with such an id is one of the two things that make the
system `stale`. The other is a message put over another entry's in a queue (`displaced`); a merge without it says the last value, under the right id (`MergedTells`).

**Model-checked only**: the liveness properties (fairness and ENABLED are out of the prover's reach), the properties of
`DsClient` and `NativeClient`, and one safety invariant, `Convergence`. It compares two tables
after all that is under way between them, a fold over a queue, two streams and what a reader has in hand. Its
parts are proved: that merging keeps what the peer makes of a queue (`EffectKept`), that ids and values are those of
the right name (`IdAgreement`, `NoCrossTalk`), that a server takes no entry back (`ServerSeqForward`) and, for flags, that what a stream ends with is
what its sender has (`OneCallerDecides`). What is missing is the invariant that puts them together: which of two ends has the newer write of an entry, in every state of
a handshake, with the echoes of a server to the other clients under way. No module uses a RECURSIVE operator.

## 6. Not modelled

* The wire encoding: its codec is not in the repository. The JSON of the driver station and the lines of a saved
  file, their parsing, and loading a file cut short.
* `DSClient.cs`: the same protocol as the native one, modelled in `DsClient`, with two differences: it reads the port
  when it uses it, and is stopped by a cancellation token.
* `Dispatcher`: saving is `PersistentFile`'s; `Stop` does not save, so what changed since the last periodic save
  is lost by it as by a crash. `Flush` and the update rate decide only when the dispatch thread runs.
* `RpcServer.Dispose`, called at exit.
* The creation of a procedure (`CreateRpc` and `CreatePolledRpc`, `Storage.cs:951-1058`). It assigns an entry, or gives an entry that is there a new value, as
  `SetEntryTypeValue` does, but notifies nobody and does not set `m_persistentDirty`. So `ViewMatches` is about the names of values only, and `DirtyCoversChanges` would
  not hold of a persistent value whose name is made a procedure's: the file keeps the value until something else sets the flag.
* What a node's id table does when all 65535 ids are given, and, in `NtSync`, files and nodes that change sides (see 2).
* `Storage` and `NetworkConnection` of the native library, `wpi::SafeThread`, `UidVector` and `TCPAcceptor`: not in the
  repository; the modules have what the code needs of them, marked external.
* The declarations of the native API and its forwarding inline functions; vendored headers.
* P/Invoke marshalling, logging, WPF views and forms: no state of their own that others depend on.

## 7. Running

In this directory, `tlc -config FlushQueue.cfg FlushQueue.tla` (module and configuration of every
run are in `PROJECT.json`, those run by hand in section 4: `tlc -config RpcTwice.cfg Rpc.tla`) and
`tlapm Parts_proofs.tla`. The longest run takes about two minutes, the longest proof (`NtSync_proofs`) about fifteen.
