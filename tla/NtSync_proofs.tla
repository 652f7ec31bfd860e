---------------------------- MODULE NtSync_proofs ----------------------------
(***************************************************************************)
(* A handshake reads nothing but assignments up to its HelloDone, an id    *)
(* that both ends of a connection have an entry for is the id of the same  *)
(* entry at both, and a name never has a value that was not given to it:   *)
(* for any number of clients, whatever users call and whenever connections *)
(* break or the server starts again.                                       *)
(***************************************************************************)
EXTENDS NtSync, Storage_proofs, FiniteSetTheorems
-----------------------------------------------------------------------------
(* What is in hand, in a queue and on its way *)

WireMessages == PeerMessages \cup {HelloDone}
PendingMessages == PeerMessages \cup {Blank}

\* the initial assignments of a handshake, as they are sent
IsBatch(s) ==
    /\ s \in Seq(WireMessages) /\ s # <<>> /\ s[Len(s)] = HelloDone
    /\ \A i \in 1 .. Len(s) - 1 : s[i] \in EntryAssigns

\* what begins with them
Opens(w) ==
    \E k \in 1 .. Len(w) : w[k] = HelloDone /\ \A i \in 1 .. k - 1 : w[i] \in EntryAssigns

Places == [first : Nat, second : Nat]

Queues == [list : Seq(PendingMessages), count : Nat, update : [Ids -> Places], fault : BOOLEAN]

PlacesInList(q) ==
    \A id \in Ids : q.update[id].first <= Len(q.list) /\ q.update[id].second <= Len(q.list)

Outs == [msg : PeerMessages, except : Conns \cup {Nil}]

LinkTypes ==
    /\ hand \in [Nodes -> [Threads -> Seq(Outs)]]
    /\ state \in [Conns -> [Ends -> {"Dead", "Handshake", "Synchronized", "Active"}]]
    /\ pend \in [Conns -> [Ends -> Queues]]
    /\ \A c \in Conns, end \in Ends : PlacesInList(pend[c][end])
    /\ wire \in [Conns -> [Ends -> Seq(WireMessages)]]
    /\ prepared \in [Conns -> [Ends -> Seq(WireMessages)]]
    /\ incoming \in [Conns -> Seq(WireMessages)]
    /\ stopped \in [Conns -> SUBSET Ends] /\ displaced \in SUBSET Conns

\* How far the handshake of a connection is.
Phase(c) ==
    /\ incoming[c] # <<>> => IsBatch(incoming[c])
    /\ state[c].srv = "Dead" \/ state[c].cli = "Dead" =>
          /\ state[c].srv = "Dead" /\ state[c].cli = "Dead"
          /\ wire[c].srv = <<>> /\ wire[c].cli = <<>>
          /\ prepared[c].srv = <<>> /\ prepared[c].cli = <<>>
    /\ state[c].srv # "Handshake"
    /\ state[c].cli = "Handshake" =>
          /\ state[c].srv = "Synchronized" /\ incoming[c] = <<>>
          /\ wire[c].srv = <<>> /\ prepared[c].cli = <<>>
          /\ \/ wire[c].cli = <<>> /\ IsBatch(prepared[c].srv)
             \/ prepared[c].srv = <<>> /\ IsBatch(wire[c].cli)
    /\ state[c].cli = "Synchronized" =>
          /\ state[c].srv = "Synchronized" /\ incoming[c] = <<>>
          /\ wire[c].srv = <<>> /\ wire[c].cli = <<>>
          /\ prepared[c].srv = <<>> /\ IsBatch(prepared[c].cli)
    /\ state[c].cli = "Active" =>
          /\ prepared[c].srv = <<>> /\ prepared[c].cli = <<>>
          /\ state[c].srv = "Synchronized" /\ incoming[c] = <<>> /\ "srv" \notin stopped[c] =>
                Opens(wire[c].srv)

\* The server's part of a handshake tells ids and names apart.
Presents(s) ==
    \A i, j \in 1 .. Len(s) - 1 :
        s[i].id \in Ids /\ (s[i].str = s[j].str \/ s[i].id = s[j].id => i = j)

Presented(c) ==
    state[c].cli = "Handshake" => Presents(prepared[c].srv) /\ Presents(wire[c].cli)

\* A client has one connection, and so one reader.
Roles ==
    /\ role = [n \in Nodes |-> IF n = Server THEN "server" ELSE "client"]
    /\ \A n \in Nodes, c \in Conns : n # c => resume[n][c] = Nothing
    /\ \A n \in Nodes \ {Server}, c \in Conns : n # c => hand[n][c] = <<>>

Valued(h) == \A o \in Objs : h[o].name \in Names => h[o].val \in Values

HasValues(n) ==
    /\ Valued(heap[n])
    /\ \A c \in Conns : resume[n][c] # Nothing => heap[n][resume[n][c].obj].val \in Values
-----------------------------------------------------------------------------
(* Ids and their names *)

\* An id is that of a name: the server gave it, and if it still leads to an entry,
\* to one of that name.
Fits(id, name) ==
    /\ id < idCount[Server]
    /\ idMap[Server][id] # Nil => heap[Server][idMap[Server][id]].name = name

Honest(msg) == msg.type = "EntryAssign" /\ msg.id \in Ids => Fits(msg.id, msg.str)
AllHonest(msgs) == \A i \in DOMAIN msgs : Honest(msgs[i])

\* a remembered place is one of a message of the entry it is remembered for
OwnPlaces(q) ==
    \A id \in Ids : \A p \in {q.update[id].first, q.update[id].second} \ {0} :
        q.list[p].id = id /\ q.list[p].type # "Unknown"

\* Everything on the way to a client, and what it has got, gives an id to its name.
Honesty(c) ==
    /\ AllHonest(pend[c].srv.list) /\ OwnPlaces(pend[c].srv)
    /\ AllHonest(prepared[c].srv) /\ AllHonest(wire[c].cli)
    /\ state[c].cli \in {"Synchronized", "Active"} =>
          \A id \in Ids : idMap[c][id] # Nil => Fits(id, heap[c][idMap[c][id]].name)

HandsHonest == \A t \in Threads : \A i \in DOMAIN hand[Server][t] : Honest(hand[Server][t][i].msg)

TablesInv == IInv /\ RInv /\ Roles /\ \A n \in Nodes : HasValues(n)

LinksInv == LinkTypes /\ \A c \in Conns : Phase(c) /\ Presented(c)

HonestInv == HandsHonest /\ \A c \in Conns \ displaced : Honesty(c)

SyncInv == TablesInv /\ LinksInv /\ HonestInv
-----------------------------------------------------------------------------
(* The server and its clients *)

LEMMA ServerIsOne == Server \in Nodes /\ Server \notin Conns /\ Nodes = Conns \cup {Server}
<1>1. PICK s \in Nodes : Servers = {s} /\ Conns = Nodes \ Servers
  BY NtSyncAssumption
<1>2. Server = s
  BY <1>1 DEF Server
<1> QED BY <1>1, <1>2

LEMMA WhoServes ==
  ASSUME Roles, NEW n \in Nodes
  PROVE  /\ IsServer(n) <=> n = Server
         /\ AlwaysServer(n) <=> n = Server
         /\ role[n] = (IF n = Server THEN "server" ELSE "client")
BY DEF Roles, IsServer, AlwaysServer

\* No node is both, and so none has an entry that still needs an id.
LEMMA NoneTurns ==
  ASSUME TablesInv, NEW n \in Nodes
  PROVE  /\ IsServer(n) => Granted(n)
         /\ \A name \in Names : Exists(n, name) =>
               ~ NeedsId(n, EntryOf(n, name)) /\ IdOf(n, EntryOf(n, name)) = EntryOf(n, name).id
<1>1. IsServer(n) => AlwaysServer(n)
  BY WhoServes DEF TablesInv
<1>2. IsServer(n) => Granted(n)
  BY <1>1, AgreeingGranted DEF TablesInv
<1>3. ASSUME NEW name \in Names, Exists(n, name)
      PROVE  ~ NeedsId(n, EntryOf(n, name)) /\ IdOf(n, EntryOf(n, name)) = EntryOf(n, name).id
  <2>1. CASE IsServer(n)
    BY <1>1, <1>3, <2>1, NoneNeedsId DEF TablesInv
  <2>2. CASE ~ IsServer(n)
    BY <2>2 DEF NeedsId, IdOf
  <2> QED BY <2>1, <2>2
<1> QED BY <1>2, <1>3

\* The kinds of message.
LEMMA MessageKinds ==
  /\ \A msg \in EntryAssigns : msg.type = "EntryAssign"
  /\ HelloDone.type = "HelloDone" /\ Blank.type = "Unknown"
  /\ \A msg \in PeerMessages : msg.type \notin {"HelloDone", "Unknown"}
  /\ EntryAssigns \subseteq PeerMessages /\ HelloDone \notin EntryAssigns
<1>1. \A msg \in EntryAssigns : msg.type = "EntryAssign"
  BY DEF EntryAssigns, EntryAssign
<1>2. HelloDone.type = "HelloDone" /\ Blank.type = "Unknown"
  BY DEF HelloDone, Blank
<1>3. /\ \A id, seq, value : EntryUpdate(id, seq, value).type = "EntryUpdate"
      /\ \A id, flags : FlagsUpdate(id, flags).type = "FlagsUpdate"
      /\ \A id : EntryDelete(id).type = "EntryDelete"
      /\ ClearEntries.type = "ClearEntries"
  BY DEF EntryUpdate, FlagsUpdate, EntryDelete, ClearEntries, Blank
<1>4. \A msg \in PeerMessages : msg.type \notin {"HelloDone", "Unknown"}
  BY <1>1, <1>3 DEF PeerMessages
<1> QED BY <1>1, <1>2, <1>4 DEF PeerMessages

\* What is made to be sent is what a peer may send.
LEMMA MadeForPeers ==
  ASSUME NEW id \in AnyId
  PROVE  /\ \A name \in Names, seq \in SeqNums, value \in Values, flags \in BOOLEAN :
               EntryAssign(name, id, seq, value, flags) \in EntryAssigns
         /\ \A seq \in SeqNums, value \in Values : EntryUpdate(id, seq, value) \in PeerMessages
         /\ \A flags \in BOOLEAN : FlagsUpdate(id, flags) \in PeerMessages
         /\ EntryDelete(id) \in PeerMessages /\ ClearEntries \in PeerMessages
<1>1. ASSUME NEW name \in Names, NEW seq \in SeqNums, NEW value \in Values, NEW flags \in BOOLEAN
      PROVE  EntryAssign(name, id, seq, value, flags) \in EntryAssigns
  BY DEF EntryAssigns
<1>2. ASSUME NEW seq \in SeqNums, NEW value \in Values
      PROVE  EntryUpdate(id, seq, value) \in PeerMessages
  BY DEF PeerMessages
<1>3. ASSUME NEW flags \in BOOLEAN
      PROVE  FlagsUpdate(id, flags) \in PeerMessages
  BY DEF PeerMessages
<1>4. EntryDelete(id) \in PeerMessages /\ ClearEntries \in PeerMessages
  BY DEF PeerMessages
<1> QED BY <1>1, <1>2, <1>3, <1>4
-----------------------------------------------------------------------------
(* Batches *)

\* The first HelloDone is where BatchLength says.
LEMMA BatchEnds ==
  ASSUME NEW w \in Seq(WireMessages), NEW k \in 1 .. Len(w), w[k] = HelloDone,
         \A i \in 1 .. k - 1 : w[i] \in EntryAssigns
  PROVE  BatchLength(w) = k
<1> DEFINE I == {i \in 1 .. Len(w) : w[i].type = "HelloDone"}
<1>1. BatchLength(w) = IF I # {} THEN Min(I) ELSE 0
  BY DEF BatchLength, SelectInSeq
<1>2. k \in I /\ \A i \in I : i >= k
  BY MessageKinds
<1>3. Min(I) = k
  <2> HIDE DEF I
  <2>1. I \subseteq Int
    BY DEF I
  <2>2. \E x \in I : \A y \in I : x <= y
    BY <1>2, <2>1
  <2>3. Min(I) \in I /\ \A y \in I : Min(I) <= y
    BY <2>2 DEF Min
  <2>4. Min(I) \in Int /\ k \in Int /\ Min(I) >= k /\ Min(I) <= k
    BY <1>2, <2>1, <2>3
  <2> QED BY <2>4
<1> QED BY <1>1, <1>2, <1>3

LEMMA NoBatchEnds == BatchLength(<<>>) = 0
BY DEF BatchLength, SelectInSeq

\* A batch is all of what it opens.
LEMMA BatchIsWhole ==
  ASSUME NEW s, IsBatch(s)
  PROVE  /\ s \in Seq(WireMessages) /\ Len(s) \in Nat \ {0} /\ BatchLength(s) = Len(s)
         /\ Opens(s)
<1>1. s \in Seq(WireMessages) /\ Len(s) \in Nat \ {0}
  BY DEF IsBatch
<1> QED BY <1>1, BatchEnds DEF IsBatch, Opens

\* More after the opening does not matter.
LEMMA OpensWithMore ==
  ASSUME NEW v \in Seq(WireMessages), NEW w \in Seq(WireMessages), Opens(v)
  PROVE  Opens(v \o w)
BY DEF Opens
-----------------------------------------------------------------------------
(* The pending queue *)

Fine(q) == q \in Queues /\ PlacesInList(q)
Own(q) == OwnPlaces(q) /\ AllHonest(q.list)

\* an id that is not Unassigned is one
LEMMA IsId ==
  ASSUME NEW id \in AnyId, id # Unassigned
  PROVE  id \in Ids
BY MessagesAssumption DEF AnyId, Ids

LEMMA QueueFields ==
  ASSUME NEW q \in Queues
  PROVE  /\ q.list \in Seq(PendingMessages) /\ Len(q.list) \in Nat
         /\ q.count \in Nat /\ q.update \in [Ids -> Places] /\ q.fault \in BOOLEAN
         /\ \A id \in Ids : q.update[id].first \in Nat /\ q.update[id].second \in Nat
BY DEF Queues, Places

LEMMA AddType ==
  ASSUME NEW q \in Queues, NEW msg \in PeerMessages
  PROVE  /\ Add(q, msg) \in Queues /\ Add(q, msg).list = Append(q.list, msg)
         /\ Add(q, msg).update = q.update /\ Add(q, msg).count = q.count
<1> DEFINE list == Append(q.list, msg)
           p == [q EXCEPT !.list = list]
<1>1. list \in Seq(PendingMessages)
  BY QueueFields DEF PendingMessages
<1>2. Add(q, msg) = [p EXCEPT !.fault = FALSE]
  BY DEF Add
<1> HIDE DEF list
<1>3. p \in Queues /\ p.list = list /\ p.update = q.update /\ p.count = q.count
  BY <1>1 DEF Queues
<1> HIDE DEF p
<1>4. [p EXCEPT !.fault = FALSE] \in Queues
  BY <1>3 DEF Queues
<1>5. /\ [p EXCEPT !.fault = FALSE].list = p.list /\ [p EXCEPT !.fault = FALSE].update = p.update
      /\ [p EXCEPT !.fault = FALSE].count = p.count
  BY <1>3 DEF Queues
<1> QED BY <1>2, <1>3, <1>4, <1>5 DEF list

LEMMA ResizedType ==
  ASSUME NEW q \in Queues, NEW size \in Nat
  PROVE  Resized(q, size) \in Queues /\ Resized(q, size).list = q.list /\ Resized(q, size).update = q.update
<1> DEFINE count == IF size > q.count THEN size ELSE q.count
<1>1. count \in Nat
  BY QueueFields
<1>2. Resized(q, size) = [q EXCEPT !.count = count]
  BY DEF Resized
<1> HIDE DEF count
<1> QED BY <1>1, <1>2 DEF Queues

LEMMA FaultType ==
  ASSUME NEW q \in Queues, NEW fault \in BOOLEAN
  PROVE  /\ [q EXCEPT !.fault = fault] \in Queues /\ [q EXCEPT !.fault = fault].list = q.list
         /\ [q EXCEPT !.fault = fault].update = q.update
BY DEF Queues

LEMMA ReplaceType ==
  ASSUME NEW q \in Queues, NEW p \in 1 .. Len(q.list), NEW msg \in PeerMessages
  PROVE  /\ Replace(q, p, msg) \in Queues /\ Replace(q, p, msg).list = [q.list EXCEPT ![p] = msg]
         /\ Replace(q, p, msg).update = q.update
<1> DEFINE list == [q.list EXCEPT ![p] = msg]
           r == [q EXCEPT !.list = list]
<1>1. list \in Seq(PendingMessages)
  BY QueueFields DEF PendingMessages
<1>2. Replace(q, p, msg) = [r EXCEPT !.fault = FALSE]
  BY DEF Replace
<1> HIDE DEF list
<1>3. r \in Queues /\ r.list = list /\ r.update = q.update
  BY <1>1 DEF Queues
<1> HIDE DEF r
<1> QED BY <1>2, <1>3, FaultType DEF list

\* A queue with other remembered places.
LEMMA UpdateType ==
  ASSUME NEW q \in Queues, NEW id \in Ids, NEW place \in Places
  PROVE  LET r == [q EXCEPT !.update[id] = place] IN
         r \in Queues /\ r.list = q.list /\ r.update = [q.update EXCEPT ![id] = place]
<1> DEFINE update == [q.update EXCEPT ![id] = place]
<1>1. update \in [Ids -> Places]
  BY QueueFields
<1> HIDE DEF update
<1>2. [q EXCEPT !.update = update] \in Queues
  BY <1>1 DEF Queues
<1> QED BY <1>2 DEF update, Queues

\* A message that is appended, and whose place is remembered or not.
LEMMA AppendKeeps ==
  ASSUME NEW q, Fine(q), NEW msg \in PeerMessages, NEW r \in Queues,
         r.list = Append(q.list, msg),
         \/ r.update = q.update
         \/ \E place \in Places :
               /\ msg.id \in Ids /\ r.update = [q.update EXCEPT ![msg.id] = place]
               /\ place.first \in {q.update[msg.id].first, Len(q.list) + 1}
               /\ place.second \in {q.update[msg.id].second, Len(q.list) + 1}
  PROVE  Fine(r) /\ (Own(q) /\ Honest(msg) => Own(r))
<1>1. /\ q \in Queues /\ q.list \in Seq(PendingMessages) /\ Len(q.list) \in Nat
      /\ q.update \in [Ids -> Places]
      /\ \A id \in Ids : /\ q.update[id].first \in Nat /\ q.update[id].second \in Nat
                         /\ q.update[id].first <= Len(q.list) /\ q.update[id].second <= Len(q.list)
  BY QueueFields DEF Fine, PlacesInList
<1>2. /\ Len(r.list) = Len(q.list) + 1 /\ r.list[Len(q.list) + 1] = msg
      /\ \A i \in 1 .. Len(q.list) : r.list[i] = q.list[i]
      /\ DOMAIN r.list = 1 .. Len(q.list) + 1 /\ DOMAIN q.list = 1 .. Len(q.list)
  BY <1>1
<1>3. ASSUME NEW id \in Ids
      PROVE  /\ \/ r.update[id].first = q.update[id].first
                \/ r.update[id].first = Len(q.list) + 1 /\ id = msg.id
             /\ \/ r.update[id].second = q.update[id].second
                \/ r.update[id].second = Len(q.list) + 1 /\ id = msg.id
  BY <1>1 DEF Places
<1>4. Fine(r)
  BY <1>1, <1>2, <1>3 DEF Fine, PlacesInList
<1>5. ASSUME Own(q), Honest(msg)
      PROVE  Own(r)
  <2>1. AllHonest(r.list)
    BY <1>1, <1>2, <1>5 DEF Own, AllHonest
  <2>2. msg.type # "Unknown"
    BY MessageKinds
  <2>3. ASSUME NEW id \in Ids, NEW p \in {r.update[id].first, r.update[id].second} \ {0}
        PROVE  r.list[p].id = id /\ r.list[p].type # "Unknown"
    <3>1. CASE p = Len(q.list) + 1
      BY <1>1, <1>2, <1>3, <2>2, <2>3, <3>1
    <3>2. CASE p # Len(q.list) + 1
      <4>1. p \in {q.update[id].first, q.update[id].second} \ {0}
        BY <1>3, <2>3, <3>2
      <4>2. q.list[p].id = id /\ q.list[p].type # "Unknown"
        BY <1>5, <4>1 DEF Own, OwnPlaces
      <4>3. p \in 1 .. Len(q.list)
        BY <1>1, <4>1
      <4> QED BY <1>2, <4>2, <4>3
    <3> QED BY <3>1, <3>2
  <2> QED BY <2>1, <2>3 DEF Own, OwnPlaces
<1> QED BY <1>4, <1>5

\* A message that takes the place of another of the same entry, or a blank's.
LEMMA ReplaceKeeps ==
  ASSUME NEW q, Fine(q), NEW msg \in PeerMessages, NEW p \in 1 .. Len(q.list), NEW r \in Queues,
         r.list = [q.list EXCEPT ![p] = msg], r.update = q.update
  PROVE  /\ Fine(r)
         /\ Own(q) /\ Honest(msg) /\ (q.list[p].type # "Unknown" => q.list[p].id = msg.id) => Own(r)
<1>1. /\ q \in Queues /\ q.list \in Seq(PendingMessages) /\ Len(q.list) \in Nat
      /\ \A id \in Ids : /\ q.update[id].first \in Nat /\ q.update[id].second \in Nat
                         /\ q.update[id].first <= Len(q.list) /\ q.update[id].second <= Len(q.list)
  BY QueueFields DEF Fine, PlacesInList
<1>2. /\ Len(r.list) = Len(q.list) /\ r.list[p] = msg
      /\ \A i \in 1 .. Len(q.list) : i # p => r.list[i] = q.list[i]
      /\ DOMAIN r.list = 1 .. Len(q.list) /\ DOMAIN q.list = 1 .. Len(q.list)
  BY <1>1
<1>3. Fine(r)
  BY <1>1, <1>2 DEF Fine, PlacesInList
<1>4. ASSUME Own(q), Honest(msg), q.list[p].type # "Unknown" => q.list[p].id = msg.id
      PROVE  Own(r)
  <2>1. AllHonest(r.list)
    BY <1>1, <1>2, <1>4 DEF Own, AllHonest
  <2>2. msg.type # "Unknown"
    BY MessageKinds
  <2>3. ASSUME NEW id \in Ids, NEW i \in {q.update[id].first, q.update[id].second} \ {0}
        PROVE  r.list[i].id = id /\ r.list[i].type # "Unknown"
    <3>1. q.list[i].id = id /\ q.list[i].type # "Unknown"
      BY <1>4, <2>3 DEF Own, OwnPlaces
    <3>2. i \in 1 .. Len(q.list)
      BY <1>1, <2>3
    <3> QED BY <1>2, <1>4, <2>2, <3>1, <3>2
  <2> QED BY <2>1, <2>3 DEF Own, OwnPlaces
<1> QED BY <1>3, <1>4

\* A value joins the one that is pending for the same entry, as the entry's new value.
LEMMA MergedIsOwn ==
  ASSUME NEW q, Fine(q), NEW msg \in PeerMessages, Meets(q, msg)
  PROVE  /\ Merged(q, msg.id, msg) \in PeerMessages /\ Merged(q, msg.id, msg).id = msg.id
         /\ MergeIndex(q, msg.id) \in 1 .. Len(q.list) /\ Own(q) /\ Honest(msg) =>
               Honest(Merged(q, msg.id, msg))
<1> DEFINE id == msg.id
           old == q.list[PreviousIndex(q, id)]
           new == EntryAssign(old.str, id, msg.seq, msg.val, old.flags)
<1>1. id \in Ids /\ id \in AnyId /\ q.update[id].first # 0 /\ msg.type \in {"EntryAssign", "EntryUpdate"}
  BY PeerMessageFields, IsId DEF Meets
<1>2. old \in PendingMessages
  <2>1. PreviousIndex(q, id) \in 1 .. Len(q.list) /\ q.list \in Seq(PendingMessages)
    BY <1>1, QueueFields DEF Fine, PlacesInList, PreviousIndex
  <2> QED BY <2>1
<1>3. CASE old.type = "EntryAssign" /\ msg.type = "EntryUpdate"
  <2>1. Merged(q, id, msg) = new
    BY <1>3 DEF Merged
  <2>2. old \in PeerMessages
    BY <1>2, <1>3, MessageKinds DEF PendingMessages
  <2>3. old.str \in Names /\ old.flags \in BOOLEAN /\ msg.seq \in SeqNums /\ msg.val \in Values
    BY <1>3, <2>2, PeerMessageFields
  <2>4. new \in EntryAssigns /\ new.id = id /\ new.str = old.str
    BY <1>1, <2>3, MadeForPeers DEF EntryAssign
  <2>5. ASSUME Own(q)
        PROVE  Honest(new)
    <3>1. q.update[id].first \in {q.update[id].first, q.update[id].second} \ {0}
      BY <1>1
    <3>2. old.id = id
      BY <1>1, <2>5, <3>1 DEF Own, OwnPlaces, PreviousIndex
    <3>3. Honest(old)
      <4>1. PreviousIndex(q, id) \in DOMAIN q.list
        BY <1>1, QueueFields DEF Fine, PlacesInList, PreviousIndex
      <4> QED BY <2>5, <4>1 DEF Own, AllHonest
    <3> QED BY <1>3, <2>4, <3>2, <3>3 DEF Honest
  <2> QED BY <2>1, <2>4, <2>5, MessageKinds
<1>4. CASE ~ (old.type = "EntryAssign" /\ msg.type = "EntryUpdate")
  <2>1. Merged(q, id, msg) = msg
    BY <1>4 DEF Merged
  <2> QED BY <2>1
<1> QED BY <1>3, <1>4

\* What is pending for an entry that is deleted is blanked, and nothing else.
LEMMA BlankKeeps ==
  ASSUME NEW q, Fine(q), NEW id \in Ids
  PROVE  LET b == BlankPending(q, id) IN Fine(b) /\ (Own(q) => Own(b))
<1> DEFINE gone == {q.update[id].first, q.update[id].second} \ {0}
           list == [i \in DOMAIN q.list |-> IF i \in gone THEN Blank ELSE q.list[i]]
           none == [first |-> 0, second |-> 0]
           p == [q EXCEPT !.list = list]
           b == [p EXCEPT !.update[id] = none]
<1>1. /\ q \in Queues /\ q.list \in Seq(PendingMessages) /\ Len(q.list) \in Nat
      /\ q.update \in [Ids -> Places] /\ DOMAIN q.list = 1 .. Len(q.list)
  BY QueueFields DEF Fine
<1>2. /\ list \in Seq(PendingMessages) /\ Len(list) = Len(q.list) /\ DOMAIN list = 1 .. Len(q.list)
      /\ \A i \in 1 .. Len(q.list) : list[i] = IF i \in gone THEN Blank ELSE q.list[i]
  <2> HIDE DEF gone
  <2> QED BY <1>1 DEF PendingMessages
<1> HIDE DEF list, gone
<1>3. p \in Queues /\ p.list = list /\ p.update = q.update
  BY <1>1, <1>2 DEF Queues
<1>4. none \in Places
  BY DEF Places
<1>5. BlankPending(q, id) = b
  BY DEF BlankPending, list, gone
<1> HIDE DEF p
<1>6. b \in Queues /\ b.list = list /\ b.update = [q.update EXCEPT ![id] = none]
  BY <1>3, <1>4, UpdateType
<1> HIDE DEF b
<1>7. ASSUME NEW other \in Ids
      PROVE  IF other = id THEN b.update[other].first = 0 /\ b.update[other].second = 0
                           ELSE b.update[other] = q.update[other]
  BY <1>1, <1>6
<1>8. Fine(b)
  BY <1>1, <1>2, <1>6, <1>7 DEF Fine, PlacesInList
<1>9. ASSUME Own(q)
      PROVE  Own(b)
  <2>1. AllHonest(b.list)
    BY <1>1, <1>2, <1>6, <1>9, MessageKinds DEF Own, AllHonest, Honest
  <2>2. ASSUME NEW other \in Ids, NEW i \in {b.update[other].first, b.update[other].second} \ {0}
        PROVE  b.list[i].id = other /\ b.list[i].type # "Unknown"
    <3>1. other # id /\ i \in {q.update[other].first, q.update[other].second} \ {0}
      BY <1>7, <2>2
    <3>2. q.list[i].id = other /\ q.list[i].type # "Unknown"
      BY <1>9, <3>1 DEF Own, OwnPlaces
    <3>3. \A j \in gone : q.list[j].id = id
      BY <1>9 DEF Own, OwnPlaces, gone
    <3>4. i \in 1 .. Len(q.list)
      BY <1>1, <3>1, QueueFields DEF Fine, PlacesInList
    <3> QED BY <1>2, <1>6, <3>1, <3>2, <3>3, <3>4
  <2> QED BY <2>1, <2>2 DEF Own, OwnPlaces
<1> QED BY <1>5, <1>8, <1>9

LEMMA EmptyQueueType ==
  /\ EmptyQueue \in Queues /\ EmptyQueue.list = <<>>
  /\ \A id \in Ids : EmptyQueue.update[id].first = 0 /\ EmptyQueue.update[id].second = 0
  /\ Fine(EmptyQueue) /\ Own(EmptyQueue)
<1>1. [id \in Ids |-> [first |-> 0, second |-> 0]] \in [Ids -> Places]
  BY DEF Places
<1>2. EmptyQueue \in Queues /\ EmptyQueue.list = <<>>
  BY <1>1 DEF EmptyQueue, Queues
<1>3. \A id \in Ids : EmptyQueue.update[id].first = 0 /\ EmptyQueue.update[id].second = 0
  BY DEF EmptyQueue
<1> QED BY <1>2, <1>3 DEF Fine, PlacesInList, Own, OwnPlaces, AllHonest

\* A ClearEntries blanks all that is pending, and no place is remembered.
LEMMA ClearKeeps ==
  ASSUME NEW q, Fine(q), NEW msg \in PeerMessages
  PROVE  LET r == AddClear(q, msg) IN Fine(r) /\ (Own(q) /\ Honest(msg) => Own(r))
<1> DEFINE list == [i \in DOMAIN q.list |->
                       IF q.list[i].type \in EntryTypes THEN Blank ELSE q.list[i]]
           b == [EmptyQueue EXCEPT !.list = list]
<1>1. q \in Queues /\ q.list \in Seq(PendingMessages) /\ Len(q.list) \in Nat
  BY QueueFields DEF Fine
<1>2. /\ list \in Seq(PendingMessages) /\ Len(list) = Len(q.list) /\ DOMAIN list = DOMAIN q.list
      /\ \A i \in DOMAIN q.list : list[i] = Blank \/ list[i] = q.list[i]
  BY <1>1 DEF PendingMessages
<1>3. AddClear(q, msg) = Add(b, msg)
  BY DEF AddClear
<1> HIDE DEF list
<1>4. b \in Queues /\ b.list = list /\ b.update = EmptyQueue.update
  BY <1>2, EmptyQueueType DEF Queues
<1> HIDE DEF b
<1>5. Fine(b)
  BY <1>1, <1>2, <1>4, EmptyQueueType DEF Fine, PlacesInList
<1>6. ASSUME Own(q)
      PROVE  Own(b)
  BY <1>1, <1>2, <1>4, <1>6, EmptyQueueType, MessageKinds DEF Own, OwnPlaces, AllHonest, Honest
<1>7. /\ Add(b, msg) \in Queues /\ Add(b, msg).list = Append(b.list, msg)
      /\ Add(b, msg).update = b.update
  BY <1>4, AddType
<1>8. Fine(Add(b, msg)) /\ (Own(b) /\ Honest(msg) => Own(Add(b, msg)))
  BY <1>5, <1>7, AppendKeeps
<1> QED BY <1>3, <1>6, <1>8

\* Whatever message is queued, the queue stays in order; and if it takes no other
\* entry's place, the queue still gives each id to its name.
LEMMA QueueKeeps ==
  ASSUME NEW q, Fine(q), NEW msg \in PeerMessages
  PROVE  LET r == QueueOutgoing(q, msg) IN
         Fine(r) /\ (Own(q) /\ Honest(msg) /\ ~ Displaces(q, msg) => Own(r))
<1> DEFINE id == msg.id
           Keeps(r) == Fine(r) /\ (Own(q) /\ Honest(msg) /\ ~ Displaces(q, msg) => Own(r))
<1>1. /\ q \in Queues /\ Len(q.list) \in Nat /\ id \in AnyId /\ id + 1 \in Nat
      /\ q.update \in [Ids -> Places]
      /\ id # Unassigned => id \in Ids
  BY QueueFields, PeerMessageFields, IsId, MessagesAssumption DEF Fine, AnyId
<1>2. /\ Add(q, msg) \in Queues /\ Add(q, msg).list = Append(q.list, msg)
      /\ Add(q, msg).update = q.update
  BY <1>1, AddType
<1>3. CASE msg.type = "ClearEntries"
  BY <1>3, ClearKeeps DEF QueueOutgoing
<1>4. CASE id # Unassigned /\ msg.type \in {"EntryAssign", "EntryUpdate"}
  <2> DEFINE added == Resized(Add(q, msg), id + 1)
             place == [q.update[id] EXCEPT !.first = Len(q.list) + 1]
  <2>1. QueueOutgoing(q, msg) = AddValue(q, msg)
    BY <1>4 DEF QueueOutgoing
  <2>2. added \in Queues /\ added.list = Append(q.list, msg) /\ added.update = q.update
    BY <1>1, <1>2, ResizedType
  <2>3. CASE q.update[id].first = 0
    <3>1. AddValue(q, msg) = [added EXCEPT !.update[id] = place]
      BY <2>2, <2>3 DEF AddValue
    <3>2. /\ place \in Places /\ place.first = Len(q.list) + 1
          /\ place.second = q.update[id].second
      BY <1>1, <1>4 DEF Places
    <3> HIDE DEF added, place
    <3> DEFINE r == [added EXCEPT !.update[id] = place]
    <3>3. r \in Queues /\ r.list = Append(q.list, msg) /\ r.update = [q.update EXCEPT ![id] = place]
      BY <1>1, <1>4, <2>2, <3>2, UpdateType
    <3> HIDE DEF r
    <3>4. Keeps(r)
      BY <1>1, <1>4, <3>2, <3>3, AppendKeeps
    <3> QED BY <2>1, <3>1, <3>4 DEF r
  <2>4. CASE q.update[id].first # 0 /\ MergeIndex(q, id) \in 1 .. Len(q.list)
    <3> DEFINE new == Merged(q, id, msg)
               at == MergeIndex(q, id)
               r == Replace(q, at, new)
    <3>1. AddValue(q, msg) = r
      BY <2>4 DEF AddValue
    <3>2. Meets(q, msg)
      BY <1>4, <2>4 DEF Meets
    <3>3. new \in PeerMessages /\ new.id = id /\ (Own(q) /\ Honest(msg) => Honest(new))
      BY <2>4, <3>2, MergedIsOwn
    <3>4. ~ Displaces(q, msg) => (q.list[at].type # "Unknown" => q.list[at].id = new.id)
      BY <1>1, <2>4, <3>2, <3>3, QueueFields DEF Displaces
    <3>5. at \in 1 .. Len(q.list)
      BY <2>4
    <3> HIDE DEF new, at
    <3>6. r \in Queues /\ r.list = [q.list EXCEPT ![at] = new] /\ r.update = q.update
      BY <1>1, <3>3, <3>5, ReplaceType
    <3> HIDE DEF r
    <3>7. Keeps(r)
      BY <3>3, <3>4, <3>5, <3>6, ReplaceKeeps
    <3> QED BY <2>1, <3>1, <3>7
  <2>5. CASE q.update[id].first # 0 /\ MergeIndex(q, id) \notin 1 .. Len(q.list)
    <3>1. QueueOutgoing(q, msg) = [q EXCEPT !.fault = TRUE]
      BY <2>1, <2>5 DEF AddValue, Fault
    <3>2. Keeps([q EXCEPT !.fault = TRUE])
      BY <1>1, FaultType DEF Fine, Own, OwnPlaces, PlacesInList
    <3> QED BY <3>1, <3>2
  <2> QED BY <2>3, <2>4, <2>5
<1>5. CASE id # Unassigned /\ msg.type = "EntryDelete"
  <2> DEFINE b == BlankPending(q, id)
  <2>1. QueueOutgoing(q, msg) = Add(b, msg)
    BY <1>5 DEF QueueOutgoing, AddDelete
  <2>2. Fine(b) /\ (Own(q) => Own(b))
    BY <1>1, <1>5, BlankKeeps
  <2> HIDE DEF b
  <2>3. Add(b, msg) \in Queues /\ Add(b, msg).list = Append(b.list, msg) /\ Add(b, msg).update = b.update
    BY <2>2, AddType DEF Fine
  <2>4. Fine(Add(b, msg)) /\ (Own(b) /\ Honest(msg) => Own(Add(b, msg)))
    BY <2>2, <2>3, AppendKeeps
  <2> QED BY <2>1, <2>2, <2>4
<1>6. CASE id # Unassigned /\ msg.type = "FlagsUpdate"
  <2> DEFINE resized == IF id > q.count THEN Resized(Add(q, msg), id + 1) ELSE Add(q, msg)
             place == [q.update[id] EXCEPT !.second = Len(q.list) + 1]
  <2>1. QueueOutgoing(q, msg) = AddFlags(q, msg)
    BY <1>6 DEF QueueOutgoing
  <2>2. resized \in Queues /\ resized.list = Append(q.list, msg) /\ resized.update = q.update
    BY <1>1, <1>2, ResizedType
  <2>3. CASE q.update[id].second # 0
    <3> DEFINE at == q.update[id].second
               r == Replace(q, at, msg)
    <3>1. AddFlags(q, msg) = r
      BY <2>3 DEF AddFlags
    <3>2. at \in 1 .. Len(q.list)
      BY <1>1, <1>6, <2>3, QueueFields DEF Fine, PlacesInList
    <3>3. Own(q) => q.list[at].id = id
      BY <1>1, <1>6, <2>3 DEF Own, OwnPlaces
    <3> HIDE DEF at
    <3>4. r \in Queues /\ r.list = [q.list EXCEPT ![at] = msg] /\ r.update = q.update
      BY <1>1, <3>2, ReplaceType
    <3> HIDE DEF r
    <3>5. Keeps(r)
      BY <3>2, <3>3, <3>4, ReplaceKeeps
    <3> QED BY <2>1, <3>1, <3>5
  <2>4. CASE q.update[id].second = 0 /\ id < resized.count
    <3>1. AddFlags(q, msg) = [resized EXCEPT !.update[id] = place]
      BY <2>2, <2>4 DEF AddFlags
    <3>2. /\ place \in Places /\ place.second = Len(q.list) + 1
          /\ place.first = q.update[id].first
      <4>1. q.update[id] \in Places /\ Len(q.list) + 1 \in Nat
        BY <1>1, <1>6
      <4> QED BY <4>1 DEF Places
    <3> HIDE DEF resized, place
    <3> DEFINE r == [resized EXCEPT !.update[id] = place]
    <3>3. r \in Queues /\ r.list = Append(q.list, msg) /\ r.update = [q.update EXCEPT ![id] = place]
      BY <1>1, <1>6, <2>2, <3>2, UpdateType
    <3> HIDE DEF r
    <3>4. Keeps(r)
      BY <1>1, <1>6, <3>2, <3>3, AppendKeeps
    <3> QED BY <2>1, <3>1, <3>4 DEF r
  <2>5. CASE q.update[id].second = 0 /\ ~ (id < resized.count)
    <3> DEFINE r == [resized EXCEPT !.fault = TRUE]
    <3>1. AddFlags(q, msg) = r
      BY <2>5 DEF AddFlags, Fault
    <3> HIDE DEF resized
    <3>2. r \in Queues /\ r.list = Append(q.list, msg) /\ r.update = q.update
      BY <2>2, FaultType
    <3> HIDE DEF r
    <3>3. Keeps(r)
      BY <3>2, AppendKeeps
    <3> QED BY <2>1, <3>1, <3>3
  <2> QED BY <2>3, <2>4, <2>5
<1>7. CASE /\ msg.type # "ClearEntries"
           /\ ~ (id # Unassigned /\ msg.type \in {"EntryAssign", "EntryUpdate", "EntryDelete", "FlagsUpdate"})
  <2>1. QueueOutgoing(q, msg) = Add(q, msg)
    BY <1>7 DEF QueueOutgoing
  <2>2. Keeps(Add(q, msg))
    BY <1>2, AppendKeeps
  <2> QED BY <2>1, <2>2
<1> QED BY <1>3, <1>4, <1>5, <1>6, <1>7

\* And so it stays when an exception it left by has been caught.
LEMMA CaughtKeeps ==
  ASSUME NEW q, Fine(q)
  PROVE  Fine([q EXCEPT !.fault = FALSE]) /\ (Own(q) => Own([q EXCEPT !.fault = FALSE]))
BY FaultType DEF Fine, Own, OwnPlaces, PlacesInList
-----------------------------------------------------------------------------
(* The operations of a node's Storage *)

\* An assignment that a server sends after an operation is of an entry it has by
\* then, under the id it has.
OfEntry(msg) ==
    msg.type = "EntryAssign" =>
        ents'[Server][msg.str] # Nil /\ heap'[Server][ents'[Server][msg.str]].id = msg.id

\* What an operation leaves a thread to pass on.
Hands(n, t) ==
    \/ UNCHANGED hand
    \/ \E outs \in Seq(Outs) :
          /\ hand' = [hand EXCEPT ![n][t] = outs]
          /\ n = Server => \A i \in DOMAIN outs : OfEntry(outs[i].msg)

\* An id goes on leading to an entry of the same name, if it is not one the server
\* gives now, or one a client is told of by the message.
NamesById(n, msg) ==
    \A id \in Ids : idMap'[n][id] # Nil =>
        \/ idMap[n][id] # Nil /\ heap'[n][idMap'[n][id]].name = heap[n][idMap[n][id]].name
        \/ n = Server /\ id >= idCount[n]
        \/ /\ n # Server /\ msg.type = "EntryAssign" /\ id = msg.id
           /\ heap'[n][idMap'[n][id]].name = msg.str

\* What an operation of thread t at n owes, done for the message or for none.
Goes(n, t, msg) == HasValues(n)' /\ Hands(n, t) /\ NamesById(n, msg)

LEMMA ReaderObjects ==
  ASSUME TablesInv, NEW n \in Nodes, NEW c \in Conns, resume[n][c] # Nothing
  PROVE  resume[n][c].obj \in Objs /\ resume[n][c].msg \in EntryAssigns
BY DEF TablesInv, RInv, Resolves, ReadersOK

\* An entry of a name has a value.
LEMMA EntryValue ==
  ASSUME TablesInv, NEW n \in Nodes, NEW name \in Names, Exists(n, name)
  PROVE  /\ EntryOf(n, name).val \in Values /\ EntryOf(n, name) \in Entry
         /\ EntryOf(n, name).name = name /\ ents[n][name] \in Objs
<1>1. ents[n][name] \in Objs /\ EntryOf(n, name) \in Entry /\ EntryOf(n, name).name = name
  BY ResolveTypes DEF TablesInv
<1>2. Valued(heap[n])
  BY DEF TablesInv, HasValues
<1> QED BY <1>1, <1>2 DEF Valued, EntryOf

\* A new value leaves the ids as they are, and a value that stays is no change.
LEMMA ValueChanges ==
  ASSUME TablesInv, NEW n \in Nodes, NEW u, NEW name \in Names, NEW value, Exists(n, name)
  PROVE  /\ ~ KeepValue(n, u, name, value)
         /\ \A sameType \in BOOLEAN : ChangeValue(n, u, name, value, sameType) =>
               LET old == EntryOf(n, name)
                   seq == IF role[n] = "idle" THEN old.seq ELSE Inc(old.seq)
                   made == IF sameType THEN EntryUpdate(old.id, seq, value)
                                       ELSE EntryAssign(name, old.id, seq, value, old.flags)
               IN /\ SetEntry(n, ents[n][name], [old EXCEPT !.val = value, !.seq = seq])
                  /\ Send(n, u, IF sameType /\ old.id = Unassigned THEN <<>> ELSE <<Out(made, Nil)>>)
                  /\ UNCHANGED <<ents, idMap, idCount, resume>>
<1> DEFINE old == EntryOf(n, name)
<1>1. ~ NeedsId(n, old) /\ IdOf(n, old) = old.id /\ old \in Entry
  BY NoneTurns, EntryValue
<1>2. ~ KeepValue(n, u, name, value)
  BY <1>1 DEF KeepValue
<1>3. ASSUME NEW sameType \in BOOLEAN, ChangeValue(n, u, name, value, sameType)
      PROVE  LET seq == IF role[n] = "idle" THEN old.seq ELSE Inc(old.seq)
                 made == IF sameType THEN EntryUpdate(old.id, seq, value)
                                     ELSE EntryAssign(name, old.id, seq, value, old.flags)
             IN /\ SetEntry(n, ents[n][name], [old EXCEPT !.val = value, !.seq = seq])
                /\ Send(n, u, IF sameType /\ old.id = Unassigned THEN <<>> ELSE <<Out(made, Nil)>>)
                /\ UNCHANGED <<ents, idMap, idCount, resume>>
  <2>1. \A seq : [old EXCEPT !.val = value, !.id = old.id, !.seq = seq]
                   = [old EXCEPT !.val = value, !.seq = seq]
    BY <1>1 DEF Entry
  <2> QED BY <1>1, <1>3, <2>1 DEF ChangeValue, GiveId, NoNewId
<1> QED BY <1>2, <1>3

LEMMA NodesTables ==
  ASSUME TablesInv, NEW n \in Nodes
  PROVE  /\ heap[n] \in [Objs -> Entry] /\ idMap[n] \in [Ids -> Objs \cup {Nil}] /\ Nil \notin Objs
         /\ ents[n] \in [Names -> Objs \cup {Nil}]
         /\ OnNodes(heap) /\ OnNodes(idMap) /\ OnNodes(ents) /\ OnNodes(resume) /\ OnNodes(idCount)
         /\ HasValues(n)
BY ResolveTypes DEF TablesInv, IInv, AllOnNodes

\* One object gets a value; what readers have left to do is about it or as before.
LEMMA PutValues ==
  ASSUME TablesInv, NEW n \in Nodes, NEW o \in Objs, NEW entry,
         SetEntry(n, o, entry),
         entry.val \in Values \/ (entry.val = heap[n][o].val /\ entry.name = heap[n][o].name),
         \A d \in Conns : \/ resume'[n][d] = resume[n][d] \/ resume'[n][d] = Nothing
                          \/ resume'[n][d].obj = o /\ entry.val \in Values
  PROVE  HasValues(n)'
<1>1. /\ heap[n] \in [Objs -> Entry] /\ Valued(heap[n])
      /\ \A c \in Conns : resume[n][c] # Nothing => heap[n][resume[n][c].obj].val \in Values
  BY NodesTables DEF HasValues
<1>2. heap'[n] = [heap[n] EXCEPT ![o] = entry]
  BY NodesTables DEF SetEntry, OnNodes
<1>3. /\ heap'[n][o] = entry
      /\ \A p \in Objs : p # o => heap'[n][p] = heap[n][p]
  BY <1>1, <1>2
<1>4. Valued(heap'[n])
  BY <1>1, <1>3 DEF Valued
<1>5. ASSUME NEW d \in Conns, resume'[n][d] # Nothing
      PROVE  heap'[n][resume'[n][d].obj].val \in Values
  <2>1. CASE resume'[n][d].obj = o
    BY <1>1, <1>3, <1>5, <2>1
  <2>2. CASE resume'[n][d] = resume[n][d] /\ resume[n][d].obj # o
    <3>1. resume[n][d].obj \in Objs
      BY <1>5, <2>2, ReaderObjects
    <3> QED BY <1>1, <1>3, <1>5, <2>2, <3>1
  <2> QED BY <1>5, <2>1, <2>2
<1> QED BY <1>4, <1>5 DEF HasValues, Valued

\* Entries are removed, and what nothing refers to is collected.
LEMMA RemoveValues ==
  ASSUME TablesInv, NEW n \in Nodes, NEW e, NEW m,
         heap' = [heap EXCEPT ![n] = Collected(n, heap[n], e, m)], UNCHANGED resume
  PROVE  HasValues(n)'
<1>1. /\ heap[n] \in [Objs -> Entry] /\ Valued(heap[n])
      /\ \A c \in Conns : resume[n][c] # Nothing => heap[n][resume[n][c].obj].val \in Values
  BY NodesTables DEF HasValues
<1>2. heap'[n] = Collected(n, heap[n], e, m)
  BY NodesTables DEF OnNodes
<1>3. \A p \in Objs : heap'[n][p] = heap[n][p] \/ heap'[n][p] = FreeEntry
  BY <1>2 DEF Collected
<1>4. Valued(heap'[n])
  BY <1>1, <1>3, MessagesAssumption DEF Valued, FreeEntry
<1>5. ASSUME NEW d \in Conns, resume[n][d] # Nothing
      PROVE  heap'[n][resume[n][d].obj].val \in Values
  <2>1. resume[n][d].obj \in Objs
    BY <1>5, ReaderObjects
  <2>2. heap'[n][resume[n][d].obj] = heap[n][resume[n][d].obj]
    BY <1>2, <2>1 DEF Collected
  <2> QED BY <1>1, <1>5, <2>2
<1> QED BY <1>4, <1>5 DEF HasValues, Valued

\* The tables stay.
LEMMA StayValues ==
  ASSUME TablesInv, NEW n \in Nodes, NEW msg, UNCHANGED <<heap, idMap, resume>>
  PROVE  HasValues(n)' /\ NamesById(n, msg)
BY NodesTables DEF HasValues, Valued, NamesById

\* An object that has an id keeps its name.
LEMMA NamesStay ==
  ASSUME TablesInv, NEW n \in Nodes, NEW o \in Objs, NEW entry, NEW msg,
         SetEntry(n, o, entry), entry.name = heap[n][o].name, UNCHANGED idMap
  PROVE  NamesById(n, msg)
<1>1. heap'[n] = [heap[n] EXCEPT ![o] = entry]
  BY NodesTables DEF SetEntry, OnNodes
<1>2. \A p \in Objs : heap'[n][p].name = heap[n][p].name
  BY <1>1, NodesTables
<1>3. \A id \in Ids : idMap[n][id] # Nil => idMap[n][id] \in Objs
  BY NodesTables
<1> QED BY <1>2, <1>3 DEF NamesById

\* A new object may get an id that was never given, or one the message gives it.
LEMMA NamesOfNew ==
  ASSUME TablesInv, NEW n \in Nodes, NEW o \in Objs, NEW entry, NEW msg, NEW id \in Ids,
         IsNew(n, o), SetEntry(n, o, entry),
         \/ UNCHANGED idMap
         \/ /\ idMap' = [idMap EXCEPT ![n][id] = o]
            /\ \/ n = Server /\ id >= idCount[n]
               \/ /\ n # Server /\ msg.type = "EntryAssign" /\ id = msg.id
                  /\ entry.name = msg.str
  PROVE  NamesById(n, msg)
<1>1. heap'[n] = [heap[n] EXCEPT ![o] = entry]
  BY NodesTables DEF SetEntry, OnNodes
<1>2. \A i \in Ids : idMap[n][i] # Nil => idMap[n][i] \in Objs /\ idMap[n][i] # o
  BY NodesTables DEF IsNew, InUse, Referenced
<1>3. heap'[n][o] = entry /\ \A p \in Objs : p # o => heap'[n][p] = heap[n][p]
  BY <1>1, NodesTables
<1>4. CASE UNCHANGED idMap
  BY <1>2, <1>3, <1>4 DEF NamesById
<1>5. CASE idMap' = [idMap EXCEPT ![n][id] = o]
  <2>1. idMap'[n] = [idMap[n] EXCEPT ![id] = o]
    BY <1>5, NodesTables DEF OnNodes
  <2>2. idMap'[n][id] = o /\ \A i \in Ids : i # id => idMap'[n][i] = idMap[n][i]
    BY <2>1, NodesTables
  <2>3. CASE UNCHANGED idMap
    BY <1>4, <2>3
  <2>4. CASE ~ UNCHANGED idMap
    BY <1>2, <1>3, <2>2, <2>4 DEF NamesById
  <2> QED BY <2>3, <2>4
<1> QED BY <1>4, <1>5

\* Ids may be taken from entries.
LEMMA NamesRemoved ==
  ASSUME TablesInv, NEW n \in Nodes, NEW e, NEW m, NEW msg,
         heap' = [heap EXCEPT ![n] = Collected(n, heap[n], e, m)],
         idMap' = [idMap EXCEPT ![n] = m],
         \A id \in Ids : idMap'[n][id] = Nil \/ idMap'[n][id] = idMap[n][id]
  PROVE  NamesById(n, msg)
<1>1. heap'[n] = Collected(n, heap[n], e, m) /\ idMap'[n] = m
  BY NodesTables DEF OnNodes
<1>2. ASSUME NEW id \in Ids, m[id] # Nil
      PROVE  idMap[n][id] # Nil /\ heap'[n][m[id]] = heap[n][idMap[n][id]]
  <2>1. m[id] = idMap[n][id] /\ m[id] \in Objs
    BY <1>1, <1>2, NodesTables
  <2>2. m[id] \in Referenced(e, m)
    BY DEF Referenced
  <2> QED BY <1>1, <1>2, <2>1, <2>2 DEF Collected
<1> QED BY <1>1, <1>2 DEF NamesById

LEMMA SendHands ==
  ASSUME NEW n, NEW t, NEW outs \in Seq(Outs), Send(n, t, outs),
         n = Server => \A i \in DOMAIN outs : OfEntry(outs[i].msg)
  PROVE  Hands(n, t)
BY DEF Send, Hands

LEMMA SendsOne ==
  ASSUME NEW n, NEW t, NEW msg \in PeerMessages, NEW except \in Conns \cup {Nil},
         Send(n, t, <<Out(msg, except)>>), n = Server => OfEntry(msg)
  PROVE  Hands(n, t)
<1> DEFINE outs == <<Out(msg, except)>>
<1>1. outs \in Seq(Outs) /\ DOMAIN outs = {1} /\ outs[1].msg = msg
  BY DEF Outs, Out
<1> HIDE DEF outs
<1>2. \A i \in DOMAIN outs : outs[i].msg = msg
  BY <1>1
<1>3. n = Server => \A i \in DOMAIN outs : OfEntry(outs[i].msg)
  BY <1>2 DEF OfEntry
<1>4. Send(n, t, outs)
  BY DEF outs
<1> QED BY <1>1, <1>3, <1>4, SendHands

LEMMA SendsNone ==
  ASSUME NEW n, NEW t, Send(n, t, <<>>)
  PROVE  Hands(n, t)
<1>1. <<>> \in Seq(Outs) /\ DOMAIN <<>> = {}
  OBVIOUS
<1> QED BY <1>1, SendHands

\* what is not an assignment
LEMMA OtherMessages ==
  /\ \A id, seq, value : EntryUpdate(id, seq, value).type = "EntryUpdate"
  /\ \A id, flags : FlagsUpdate(id, flags).type = "FlagsUpdate"
  /\ \A id : EntryDelete(id).type = "EntryDelete"
  /\ ClearEntries.type = "ClearEntries"
BY DEF EntryUpdate, FlagsUpdate, EntryDelete, ClearEntries, Blank

\* what is passed on without a change
LEMMA RelayHands ==
  ASSUME NEW n, NEW c \in Conns, NEW msg \in PeerMessages, Relay(n, c, msg),
         n = Server => OfEntry(msg)
  PROVE  Hands(n, c)
<1>1. CASE IsServer(n)
  BY <1>1, SendsOne DEF Relay
<1>2. CASE ~ IsServer(n)
  BY <1>2, SendsNone DEF Relay
<1> QED BY <1>1, <1>2

LEMMA CreateGoes ==
  ASSUME TablesInv, NEW n \in Nodes, NEW u, NEW name \in Names, NEW value \in Values,
         NEW seq \in SeqNums, Create(n, u, name, value, seq), NEW msg
  PROVE  Goes(n, u, msg)
<1> DEFINE id == IF IsServer(n) THEN NextId(n) ELSE Unassigned
           entry == NewEntry(name, value, FALSE, id, seq)
<1>1. PICK o \in Objs : /\ IsNew(n, o) /\ AddEntry(n, o, entry)
                        /\ IF IsServer(n) THEN AddId(n, o, id) ELSE NoNewId
  BY DEF Create
<1>2. /\ IsServer(n) => id < Unassigned
      /\ Send(n, u, <<Out(EntryAssign(name, id, seq, value, FALSE), Nil)>>)
      /\ UNCHANGED resume
  BY DEF Create
<1>3. id \in AnyId /\ (IsServer(n) => id \in Ids /\ id = idCount[n])
  <2>1. IsServer(n) => NextId(n) \in AnyId
    BY NoneTurns DEF NextId, Granted
  <2>2. Unassigned \in AnyId
    BY MessagesAssumption DEF AnyId
  <2> QED BY <1>2, <2>1, <2>2, MessagesAssumption DEF AnyId, Ids, NextId
<1>4. IsServer(n) <=> n = Server
  BY WhoServes DEF TablesInv
<1>5. entry.val = value /\ entry.name = name /\ entry.id = id
  BY DEF NewEntry
<1>6. SetEntry(n, o, entry) /\ ents' = [ents EXCEPT ![n][name] = o]
  BY <1>1, <1>5 DEF AddEntry
<1> HIDE DEF id, entry
<1>7. HasValues(n)'
  BY <1>2, <1>5, <1>6, PutValues
<1>8. NamesById(n, msg)
  <2>1. CASE n = Server
    <3>1. idMap' = [idMap EXCEPT ![n][id] = o] /\ id \in Ids /\ id >= idCount[n]
      BY <1>1, <1>3, <1>4, <2>1, MessagesAssumption DEF AddId, Ids
    <3> QED BY <1>1, <1>6, <2>1, <3>1, NamesOfNew
  <2>2. CASE n # Server
    <3>1. UNCHANGED idMap /\ 0 \in Ids
      BY <1>1, <1>4, <2>2, MessagesAssumption DEF NoNewId, Ids
    <3> QED BY <1>1, <1>6, <3>1, NamesOfNew
  <2> QED BY <2>1, <2>2
<1>9. Hands(n, u)
  <2>1. EntryAssign(name, id, seq, value, FALSE) \in PeerMessages
    BY <1>3, MadeForPeers, MessageKinds
  <2>2. ASSUME n = Server
        PROVE  OfEntry(EntryAssign(name, id, seq, value, FALSE))
    <3>1. ents'[n][name] = o /\ heap'[n][o] = entry /\ o # Nil
      BY <1>6, NodesTables DEF SetEntry, OnNodes
    <3> QED BY <1>5, <2>2, <3>1 DEF OfEntry, EntryAssign, Exists, EntryOf
  <2> QED BY <1>2, <2>1, <2>2, SendsOne
<1> QED BY <1>7, <1>8, <1>9 DEF Goes

LEMMA ChangeValueGoes ==
  ASSUME TablesInv, NEW n \in Nodes, NEW u, NEW name \in Names, NEW value \in Values,
         NEW sameType \in BOOLEAN, ChangeValue(n, u, name, value, sameType), NEW msg
  PROVE  Goes(n, u, msg)
<1> DEFINE o == ents[n][name]
           old == EntryOf(n, name)
           seq == IF role[n] = "idle" THEN old.seq ELSE Inc(old.seq)
           entry == [old EXCEPT !.val = value, !.seq = seq]
           made == IF sameType THEN EntryUpdate(old.id, seq, value)
                               ELSE EntryAssign(name, old.id, seq, value, old.flags)
<1>1. /\ Exists(n, name) /\ SetEntry(n, o, entry)
      /\ Send(n, u, IF sameType /\ old.id = Unassigned THEN <<>> ELSE <<Out(made, Nil)>>)
      /\ UNCHANGED <<ents, idMap, resume>>
  <2>1. Exists(n, name)
    BY DEF ChangeValue
  <2> QED BY <2>1, ValueChanges
<1>2. o \in Objs /\ old \in Entry
  BY <1>1, EntryValue
<1>3. old.id \in AnyId /\ old.flags \in BOOLEAN /\ old.seq \in SeqNums
  BY <1>2 DEF Entry
<1>4. seq \in SeqNums
  BY <1>3, HalfRangeAssumption DEF Inc, SeqNums
<1>5. made \in PeerMessages
  BY <1>3, <1>4, MadeForPeers, MessageKinds
<1>6. /\ sameType => made.type # "EntryAssign"
      /\ ~ sameType => made.str = name /\ made.id = old.id
  BY OtherMessages DEF EntryAssign
<1> HIDE DEF seq, made
<1>7. entry.val = value /\ entry.name = heap[n][o].name /\ entry.id = old.id
  BY <1>2 DEF Entry, EntryOf
<1> HIDE DEF entry
<1>8. HasValues(n)' /\ NamesById(n, msg)
  BY <1>1, <1>2, <1>7, PutValues, NamesStay
<1>9. OfEntry(made) \/ n # Server
  <2>1. heap'[n][o] = entry
    BY <1>1, <1>2, NodesTables DEF SetEntry, OnNodes
  <2> QED BY <1>1, <1>6, <1>7, <2>1 DEF OfEntry, Exists
<1>10. Hands(n, u)
  BY <1>1, <1>5, <1>9, SendsOne, SendsNone
<1> QED BY <1>8, <1>10 DEF Goes

LEMMA SetEntryFlagsGoes ==
  ASSUME TablesInv, NEW n \in Nodes, NEW u, NEW name \in Names, NEW flags \in BOOLEAN,
         SetEntryFlags(n, u, name, flags), NEW msg
  PROVE  Goes(n, u, msg)
<1> DEFINE o == ents[n][name]
           old == EntryOf(n, name)
           entry == [old EXCEPT !.flags = flags]
           made == FlagsUpdate(old.id, flags)
<1>1. /\ Exists(n, name) /\ SetEntry(n, o, entry)
      /\ Send(n, u, IF old.id = Unassigned THEN <<>> ELSE <<Out(made, Nil)>>)
      /\ UNCHANGED <<idMap, resume>>
  BY DEF SetEntryFlags
<1>2. o \in Objs /\ old \in Entry /\ old.val \in Values
  BY <1>1, EntryValue
<1>3. entry.val = old.val /\ entry.name = heap[n][o].name /\ old.id \in AnyId
  BY <1>2 DEF Entry, EntryOf
<1>4. made \in PeerMessages /\ made.type # "EntryAssign"
  BY <1>3, MadeForPeers, OtherMessages
<1> HIDE DEF entry, made
<1>5. HasValues(n)' /\ NamesById(n, msg)
  BY <1>1, <1>2, <1>3, PutValues, NamesStay
<1>6. OfEntry(made)
  BY <1>4 DEF OfEntry
<1>7. Hands(n, u)
  BY <1>1, <1>4, <1>6, SendsOne, SendsNone
<1> QED BY <1>5, <1>7 DEF Goes

LEMMA RemoveEntryGoes ==
  ASSUME TablesInv, NEW n \in Nodes, NEW id, NEW name, RemoveEntry(n, id, name),
         UNCHANGED resume, NEW msg
  PROVE  HasValues(n)' /\ NamesById(n, msg)
<1> DEFINE e == IF name \in Names THEN [ents[n] EXCEPT ![name] = Nil] ELSE ents[n]
           m == IF id \in Ids THEN [idMap[n] EXCEPT ![id] = Nil] ELSE idMap[n]
<1>1. /\ heap' = [heap EXCEPT ![n] = Collected(n, heap[n], e, m)]
      /\ idMap' = [idMap EXCEPT ![n] = m] /\ UNCHANGED resume
  BY DEF RemoveEntry
<1>2. \A i \in Ids : idMap'[n][i] = Nil \/ idMap'[n][i] = idMap[n][i]
  BY <1>1, NodesTables DEF OnNodes
<1> HIDE DEF e, m
<1>3. HasValues(n)'
  BY <1>1, RemoveValues
<1>4. NamesById(n, msg)
  BY <1>1, <1>2, NamesRemoved
<1> QED BY <1>3, <1>4

LEMMA DeleteEntryGoes ==
  ASSUME TablesInv, NEW n \in Nodes, NEW u, NEW name \in Names, DeleteEntry(n, u, name), NEW msg
  PROVE  Goes(n, u, msg)
<1> DEFINE old == EntryOf(n, name)
           made == EntryDelete(old.id)
<1>1. /\ Exists(n, name) /\ RemoveEntry(n, old.id, name) /\ UNCHANGED resume
      /\ Send(n, u, IF old.id = Unassigned THEN <<>> ELSE <<Out(made, Nil)>>)
  BY DEF DeleteEntry
<1>2. old.id \in AnyId
  BY <1>1, EntryValue DEF Entry
<1>3. made \in PeerMessages /\ made.type # "EntryAssign"
  BY <1>2, MadeForPeers, OtherMessages
<1> HIDE DEF made
<1>4. OfEntry(made)
  BY <1>3 DEF OfEntry
<1>5. Hands(n, u)
  BY <1>1, <1>3, <1>4, SendsOne, SendsNone
<1> QED BY <1>1, <1>5, RemoveEntryGoes DEF Goes

LEMMA ClearImplGoes ==
  ASSUME TablesInv, NEW n \in Nodes, DeleteAllEntriesImpl(n), NEW msg
  PROVE  HasValues(n)' /\ NamesById(n, msg)
<1> DEFINE gone == {name \in Names : Exists(n, name) /\ ~ IsPersistent(EntryOf(n, name))}
           ids == {EntryOf(n, name).id : name \in gone}
           e == [name \in Names |-> IF name \in gone THEN Nil ELSE ents[n][name]]
           m == [id \in Ids |-> IF id \in ids THEN Nil ELSE idMap[n][id]]
<1>1. /\ heap' = [heap EXCEPT ![n] = Collected(n, heap[n], e, m)]
      /\ idMap' = [idMap EXCEPT ![n] = m] /\ UNCHANGED resume
  BY Zenon DEF DeleteAllEntriesImpl
<1>2. \A i \in Ids : idMap'[n][i] = Nil \/ idMap'[n][i] = idMap[n][i]
  <2>1. idMap'[n] = m
    BY <1>1, NodesTables DEF OnNodes
  <2> QED BY <2>1
<1> HIDE DEF e, m
<1>3. HasValues(n)'
  BY <1>1, RemoveValues
<1>4. NamesById(n, msg)
  BY <1>1, <1>2, NamesRemoved
<1> QED BY <1>3, <1>4

LEMMA DeleteAllEntriesGoes ==
  ASSUME TablesInv, NEW n \in Nodes, NEW u, DeleteAllEntries(n, u), NEW msg
  PROVE  Goes(n, u, msg)
<1>1. DeleteAllEntriesImpl(n) /\ Send(n, u, <<Out(ClearEntries, Nil)>>)
  BY DEF DeleteAllEntries
<1>2. OfEntry(ClearEntries)
  BY OtherMessages DEF OfEntry
<1>3. ClearEntries \in PeerMessages
  BY DEF PeerMessages
<1>4. Hands(n, u)
  BY <1>1, <1>2, <1>3, SendsOne
<1> QED BY <1>1, <1>4, ClearImplGoes DEF Goes

\* Whatever a user calls.
LEMMA TableCallGoes ==
  ASSUME TablesInv, NEW n \in Nodes, NEW u, TableCall(n, u), NEW msg
  PROVE  Goes(n, u, msg)
<1>1. ASSUME NEW name \in Names, NEW value \in Values,
             SetEntryValue(n, u, name, value) \/ SetEntryTypeValue(n, u, name, value)
      PROVE  Goes(n, u, msg)
  <2>1. 0 \in SeqNums /\ (IF role[n] = "idle" THEN 0 ELSE 1) \in SeqNums
    BY HalfRangeAssumption DEF SeqNums
  <2>2. \/ \E seq \in SeqNums : Create(n, u, name, value, seq)
        \/ \E sameType \in BOOLEAN : ChangeValue(n, u, name, value, sameType)
        \/ Exists(n, name) /\ KeepValue(n, u, name, value)
    BY <1>1, <2>1 DEF SetEntryValue, SetEntryTypeValue, KeepValue
  <2> QED BY <2>2, CreateGoes, ChangeValueGoes, ValueChanges
<1> QED BY <1>1, SetEntryFlagsGoes, DeleteEntryGoes, DeleteAllEntriesGoes DEF TableCall

LEMMA AssignNewGoes ==
  ASSUME TablesInv, NEW n \in Nodes, NEW c \in Conns, NEW msg \in PeerMessages,
         msg.type = "EntryAssign", AssignNew(n, c, msg)
  PROVE  Goes(n, c, msg)
<1> DEFINE id == NextId(n)
           entry == NewEntry(msg.str, msg.val, msg.flags, id, 0)
           made == EntryAssign(entry.name, id, entry.seq, entry.val, entry.flags)
<1>1. PICK o \in Objs : IsNew(n, o) /\ AddEntry(n, o, entry) /\ AddId(n, o, id)
  BY DEF AssignNew
<1>2. /\ IsServer(n) /\ id < Unassigned /\ UNCHANGED resume
      /\ Send(n, c, <<Out(made, Nil)>>)
  BY DEF AssignNew
<1>3. msg.str \in Names /\ msg.val \in Values /\ msg.flags \in BOOLEAN
  BY PeerMessageFields
<1>4. id \in AnyId /\ id \in Ids /\ id = idCount[n] /\ id \in Nat
  <2>1. id \in AnyId
    BY <1>2, NoneTurns DEF NextId, Granted
  <2> QED BY <1>2, <2>1, MessagesAssumption DEF AnyId, Ids, NextId
<1>5. n = Server
  BY <1>2, WhoServes DEF TablesInv
<1>6. /\ entry.val = msg.val /\ entry.name = msg.str /\ entry.id = id /\ entry.seq = 0
      /\ entry.flags = msg.flags
  BY DEF NewEntry
<1>7. /\ SetEntry(n, o, entry) /\ ents' = [ents EXCEPT ![n][msg.str] = o]
      /\ idMap' = [idMap EXCEPT ![n][id] = o]
  BY <1>1, <1>6 DEF AddEntry, AddId
<1>8. made \in PeerMessages /\ made.str = msg.str /\ made.id = id
  <2>1. 0 \in SeqNums
    BY HalfRangeAssumption DEF SeqNums
  <2>2. made \in EntryAssigns
    BY <1>3, <1>4, <1>6, <2>1, MadeForPeers
  <2> QED BY <1>6, <2>2, MessageKinds DEF EntryAssign
<1> HIDE DEF id, entry, made
<1>9. HasValues(n)'
  BY <1>2, <1>3, <1>6, <1>7, PutValues
<1>10. NamesById(n, msg)
  <2>1. id >= idCount[n]
    BY <1>4
  <2> QED BY <1>1, <1>4, <1>5, <1>7, <2>1, NamesOfNew
<1>11. Hands(n, c)
  <2>1. ents'[n][msg.str] = o /\ heap'[n][o] = entry /\ o # Nil
    BY <1>3, <1>7, NodesTables DEF SetEntry, OnNodes
  <2>2. OfEntry(made)
    BY <1>5, <1>6, <1>8, <2>1 DEF OfEntry
  <2> QED BY <1>2, <1>8, <2>2, SendsOne
<1> QED BY <1>9, <1>10, <1>11 DEF Goes

LEMMA AssignUnknownGoes ==
  ASSUME TablesInv, NEW n \in Nodes, NEW c \in Conns, NEW msg \in PeerMessages,
         msg.type = "EntryAssign", AssignUnknown(n, c, msg)
  PROVE  Goes(n, c, msg)
<1> DEFINE entry == NewEntry(msg.str, msg.val, msg.flags, msg.id, 0)
<1>1. PICK o \in Objs : IsNew(n, o) /\ AddEntry(n, o, entry) /\ AddId(n, o, msg.id)
  BY DEF AssignUnknown
<1>2. ~ IsServer(n) /\ msg.id # Unassigned /\ UNCHANGED <<hand, resume>>
  BY DEF AssignUnknown
<1>3. msg.val \in Values /\ msg.id \in Ids
  BY <1>2, PeerMessageFields, IsId
<1>4. n # Server
  BY <1>2, WhoServes DEF TablesInv
<1>5. entry.val = msg.val /\ entry.name = msg.str
  BY DEF NewEntry
<1>6. SetEntry(n, o, entry) /\ idMap' = [idMap EXCEPT ![n][msg.id] = o]
  BY <1>1 DEF AddEntry, AddId
<1> HIDE DEF entry
<1>7. HasValues(n)'
  BY <1>2, <1>3, <1>5, <1>6, PutValues
<1>8. NamesById(n, msg)
  BY <1>1, <1>3, <1>4, <1>5, <1>6, NamesOfNew
<1> QED BY <1>2, <1>7, <1>8 DEF Goes, Hands

\* What is done, and passed on, with an assignment for an entry that is e.
LEMMA AssignedKeeps ==
  ASSUME NEW msg \in EntryAssigns, NEW e \in Entry, NEW may \in BOOLEAN, NEW rev3 \in BOOLEAN
  PROVE  /\ Assigned(msg, e, may, rev3).name = e.name /\ Assigned(msg, e, may, rev3).id = e.id
         /\ Assigned(msg, e, may, rev3).flags \in BOOLEAN
         /\ Assigned(msg, e, may, rev3).val \in Values \/ Assigned(msg, e, may, rev3).val = e.val
<1>1. msg.val \in Values /\ msg.seq \in SeqNums /\ msg.flags \in BOOLEAN
  BY DEF EntryAssigns, EntryAssign
<1>2. TakenFlags(msg, e, may, rev3) \in BOOLEAN
  BY <1>1 DEF TakenFlags, Entry
<1> QED BY <1>1, <1>2 DEF Assigned, Entry

LEMMA TakeAssignHands ==
  ASSUME TablesInv, NEW n \in Nodes, NEW c \in Conns, NEW msg \in EntryAssigns, NEW e \in Entry,
         NEW may \in BOOLEAN, NEW rev3 \in BOOLEAN, TakeAssign(n, c, msg, e, may, rev3),
         may => e.val \in Values,
         n = Server => /\ e.name \in Names /\ ents'[n][e.name] # Nil
                       /\ heap'[n][ents'[n][e.name]].id = msg.id
  PROVE  Hands(n, c)
<1> DEFINE new == Assigned(msg, e, may, rev3)
           made == EntryAssign(e.name, msg.id, msg.seq, msg.val, new.flags)
           newer == EntryUpdate(e.id, e.seq, e.val)
<1>1. msg.id \in AnyId /\ msg.val \in Values /\ msg.seq \in SeqNums /\ new.flags \in BOOLEAN
  BY AssignedKeeps, PeerMessageFields, MessageKinds
<1>2. CASE Send(n, c, IF may THEN <<Out(newer, Nil)>> ELSE <<>>)
  <2>1. e.id \in AnyId /\ e.seq \in SeqNums
    BY DEF Entry
  <2>2. may => newer \in PeerMessages /\ newer.type # "EntryAssign"
    BY <2>1, MadeForPeers, OtherMessages
  <2> HIDE DEF newer
  <2>3. may => OfEntry(newer)
    BY <2>2 DEF OfEntry
  <2> QED BY <1>2, <2>2, <2>3, SendsOne, SendsNone
<1>3. CASE UNCHANGED hand
  BY <1>3 DEF Hands
<1>4. CASE Relay(n, c, made)
  <2>1. CASE n = Server
    <3>1. made \in PeerMessages /\ made.str = e.name /\ made.id = msg.id
      BY <1>1, <2>1, MadeForPeers, MessageKinds DEF EntryAssign
    <3> HIDE DEF made
    <3>2. OfEntry(made)
      BY <2>1, <3>1 DEF OfEntry
    <3> QED BY <1>4, <3>1, <3>2, RelayHands
  <2>2. CASE n # Server
    <3>1. ~ IsServer(n)
      BY <2>2, WhoServes DEF TablesInv
    <3> QED BY <1>4, <3>1, SendsNone DEF Relay
  <2> QED BY <2>1, <2>2
<1> QED BY <1>2, <1>3, <1>4 DEF TakeAssign

LEMMA AssignKnownGoes ==
  ASSUME TablesInv, NEW n \in Nodes, NEW c \in Conns, NEW msg \in PeerMessages, NEW rev3 \in BOOLEAN,
         msg.type = "EntryAssign", AssignKnown(n, c, msg, rev3)
  PROVE  Goes(n, c, msg)
<1> DEFINE o == Lookup(n, msg.id)
           e == heap[n][o]
           new == Assigned(msg, e, FALSE, rev3)
<1>1. /\ o # Nil /\ SetEntry(n, o, new) /\ TakeAssign(n, c, msg, e, FALSE, rev3)
      /\ UNCHANGED <<ents, idMap, resume>>
  BY DEF AssignKnown
<1>2. o \in Objs /\ e \in Entry /\ msg \in EntryAssigns
  BY <1>1, ResolveTypes, IsAssignment DEF TablesInv
<1>3. new.name = e.name /\ new.id = e.id /\ (new.val \in Values \/ new.val = e.val)
  BY <1>2, AssignedKeeps
<1>4. n = Server => e.name \in Names /\ ents[n][e.name] = o /\ e.id = msg.id
  BY <1>1, ById, WhoServes, PeerMessageFields DEF TablesInv
<1> HIDE DEF o, new
<1>5. HasValues(n)' /\ NamesById(n, msg)
  BY <1>1, <1>2, <1>3, PutValues, NamesStay
<1>6. heap'[n][o] = new
  BY <1>1, <1>2, NodesTables DEF SetEntry, OnNodes
<1>7. Hands(n, c)
  <2>1. n = Server => /\ e.name \in Names /\ ents'[n][e.name] # Nil
                      /\ heap'[n][ents'[n][e.name]].id = msg.id
    BY <1>1, <1>3, <1>4, <1>6
  <2> QED BY <1>1, <1>2, <2>1, TakeAssignHands
<1> QED BY <1>5, <1>7 DEF Goes

LEMMA BindGoes ==
  ASSUME TablesInv, NEW n \in Nodes, NEW c \in Conns, NEW msg \in PeerMessages,
         msg.type = "EntryAssign", Bind(n, c, msg)
  PROVE  Goes(n, c, msg)
<1> DEFINE o == ents[n][msg.str]
           bound == [EntryOf(n, msg.str) EXCEPT !.id = msg.id]
           new == Assigned(msg, bound, TRUE, FALSE)
<1>1. /\ ~ IsServer(n) /\ msg.id # Unassigned /\ Lookup(n, msg.id) = Nil /\ Exists(n, msg.str)
      /\ AddId(n, o, msg.id)
  BY DEF Bind
<1>2. \/ SetEntry(n, o, new) /\ TakeAssign(n, c, msg, bound, TRUE, FALSE) /\ UNCHANGED resume
      \/ /\ SetEntry(n, o, bound) /\ Send(n, c, <<Out(FlagsUpdate(msg.id, bound.flags), Nil)>>)
         /\ resume' = [resume EXCEPT ![n][c] = [msg |-> msg, obj |-> o]]
  BY DEF Bind
<1>3. msg.id \in Ids /\ msg.id \in AnyId /\ msg.str \in Names /\ msg \in EntryAssigns
  BY <1>1, PeerMessageFields, IsId, IsAssignment
<1>4. n # Server
  BY <1>1, WhoServes DEF TablesInv
<1>5. o \in Objs /\ EntryOf(n, msg.str) \in Entry /\ EntryOf(n, msg.str).val \in Values
      /\ EntryOf(n, msg.str).name = msg.str
  BY <1>1, <1>3, EntryValue
<1>6. bound \in Entry /\ bound.val \in Values /\ bound.name = msg.str /\ bound.flags \in BOOLEAN
  BY <1>3, <1>5 DEF Entry
<1> HIDE DEF bound
<1>7. new.val \in Values /\ new.name = msg.str
  BY <1>3, <1>6, AssignedKeeps
<1> HIDE DEF new
<1>8. PICK entry \in {bound, new} : SetEntry(n, o, entry)
  BY <1>2
<1>9. entry.val \in Values /\ entry.name = msg.str
  BY <1>6, <1>7
<1>10. HasValues(n)'
  <2>1. resume[n] = [d \in Conns |-> resume[n][d]]
    BY DEF TablesInv, RInv, Resolves, ReadersOK
  <2>2. CASE UNCHANGED resume
    BY <1>5, <1>8, <1>9, <2>2, PutValues
  <2>3. CASE resume' = [resume EXCEPT ![n][c] = [msg |-> msg, obj |-> o]]
    <3>1. resume'[n] = [resume[n] EXCEPT ![c] = [msg |-> msg, obj |-> o]]
      BY <2>3, NodesTables DEF OnNodes
    <3>2. \A d \in Conns : resume'[n][d] = resume[n][d] \/ resume'[n][d].obj = o
      BY <2>1, <3>1
    <3> QED BY <1>5, <1>8, <1>9, <3>2, PutValues
  <2> QED BY <1>2, <2>2, <2>3
<1>11. NamesById(n, msg)
  <2>1. heap'[n] = [heap[n] EXCEPT ![o] = entry]
    BY <1>8, NodesTables DEF SetEntry, OnNodes
  <2>2. idMap'[n] = [idMap[n] EXCEPT ![msg.id] = o]
    BY <1>1, NodesTables DEF AddId, OnNodes
  <2>3. entry.name = heap[n][o].name
    BY <1>5, <1>9 DEF EntryOf
  <2>4. \A p \in Objs : heap'[n][p].name = heap[n][p].name
    BY <2>1, <2>3, NodesTables
  <2>5. \A id \in Ids : idMap[n][id] # Nil => idMap[n][id] \in Objs
    BY NodesTables
  <2>6. idMap'[n][msg.id] = o /\ \A id \in Ids : id # msg.id => idMap'[n][id] = idMap[n][id]
    BY <1>3, <2>2, NodesTables
  <2>7. heap'[n][o].name = msg.str
    BY <1>5, <1>9, <2>3, <2>4
  <2> HIDE DEF o
  <2> QED BY <1>4, <2>4, <2>5, <2>6, <2>7 DEF NamesById
<1>12. Hands(n, c)
  <2>1. CASE TakeAssign(n, c, msg, bound, TRUE, FALSE)
    BY <1>3, <1>4, <1>6, <2>1, TakeAssignHands
  <2>2. CASE Send(n, c, <<Out(FlagsUpdate(msg.id, bound.flags), Nil)>>)
    <3>1. FlagsUpdate(msg.id, bound.flags) \in PeerMessages
      BY <1>3, <1>6, MadeForPeers
    <3> QED BY <1>4, <2>2, <3>1, SendsOne
  <2> QED BY <1>2, <2>1, <2>2
<1> QED BY <1>10, <1>11, <1>12 DEF Goes

LEMMA TakeUpdateGoes ==
  ASSUME TablesInv, NEW n \in Nodes, NEW c \in Conns, NEW msg \in PeerMessages,
         msg.type = "EntryUpdate", TakeUpdate(n, c, msg)
  PROVE  Goes(n, c, msg)
<1> DEFINE o == Lookup(n, msg.id)
           e == heap[n][o]
           entry == [e EXCEPT !.val = msg.val, !.seq = msg.seq]
<1>1. o # Nil /\ SetEntry(n, o, entry) /\ Relay(n, c, msg) /\ UNCHANGED <<ents, idMap, resume>>
  BY DEF TakeUpdate
<1>2. o \in Objs /\ e \in Entry /\ msg.val \in Values
  BY <1>1, ResolveTypes, PeerMessageFields DEF TablesInv
<1>3. entry.val = msg.val /\ entry.name = e.name
  BY <1>2 DEF Entry
<1> HIDE DEF o, entry
<1>4. HasValues(n)' /\ NamesById(n, msg)
  BY <1>1, <1>2, <1>3, PutValues, NamesStay
<1>5. OfEntry(msg)
  BY DEF OfEntry
<1> QED BY <1>1, <1>4, <1>5, RelayHands DEF Goes

LEMMA TakeFlagsGoes ==
  ASSUME TablesInv, NEW n \in Nodes, NEW c \in Conns, NEW msg \in PeerMessages,
         msg.type = "FlagsUpdate", TakeFlags(n, c, msg)
  PROVE  Goes(n, c, msg)
<1> DEFINE o == Lookup(n, msg.id)
           e == heap[n][o]
           entry == [e EXCEPT !.flags = msg.flags]
<1>1. o # Nil /\ SetEntry(n, o, entry) /\ Relay(n, c, msg) /\ UNCHANGED <<ents, idMap, resume>>
  BY DEF TakeFlags
<1>2. o \in Objs /\ e \in Entry
  BY <1>1, ResolveTypes DEF TablesInv
<1>3. entry.val = e.val /\ entry.name = e.name
  BY <1>2 DEF Entry
<1> HIDE DEF o, entry
<1>4. HasValues(n)' /\ NamesById(n, msg)
  BY <1>1, <1>2, <1>3, PutValues, NamesStay
<1>5. OfEntry(msg)
  BY DEF OfEntry
<1> QED BY <1>1, <1>4, <1>5, RelayHands DEF Goes

LEMMA TakeDeleteGoes ==
  ASSUME TablesInv, NEW n \in Nodes, NEW c \in Conns, NEW msg \in PeerMessages,
         msg.type = "EntryDelete", TakeDelete(n, c, msg)
  PROVE  Goes(n, c, msg)
<1> DEFINE name == heap[n][Lookup(n, msg.id)].name
<1>1. RemoveEntry(n, msg.id, name) /\ Relay(n, c, msg) /\ UNCHANGED resume
  BY DEF TakeDelete
<1> HIDE DEF name
<1>2. HasValues(n)' /\ NamesById(n, msg)
  BY <1>1, RemoveEntryGoes
<1>3. OfEntry(msg)
  BY DEF OfEntry
<1> QED BY <1>1, <1>2, <1>3, RelayHands DEF Goes

LEMMA TakeClearGoes ==
  ASSUME TablesInv, NEW n \in Nodes, NEW c \in Conns, NEW msg \in PeerMessages,
         msg.type = "ClearEntries", TakeClear(n, c, msg)
  PROVE  Goes(n, c, msg)
<1>1. DeleteAllEntriesImpl(n) /\ Relay(n, c, msg)
  BY DEF TakeClear
<1>2. OfEntry(msg)
  BY DEF OfEntry
<1> QED BY <1>1, <1>2, ClearImplGoes, RelayHands DEF Goes

\* Whatever is processed that came by a stream, HelloDone included.
LEMMA ProcessIncomingGoes ==
  ASSUME TablesInv, NEW n \in Nodes, NEW c \in Conns, NEW msg \in WireMessages,
         ProcessIncoming(n, c, msg, TRUE)
  PROVE  Goes(n, c, msg)
<1>1. CASE msg \in PeerMessages /\ ~ Ignored(n, c, msg)
  BY <1>1, AssignNewGoes, AssignUnknownGoes, AssignKnownGoes, BindGoes, TakeUpdateGoes,
     TakeFlagsGoes, TakeDeleteGoes, TakeClearGoes DEF ProcessIncoming
<1>2. CASE Ignored(n, c, msg)
  <2>1. UNCHANGED storageVars
    BY <1>2 DEF Ignored
  <2> QED BY <2>1, StayValues DEF Goes, Hands, storageVars
<1>3. CASE msg = HelloDone
  <2>1. msg.type = "HelloDone"
    BY <1>3, MessageKinds
  <2>2. Ignored(n, c, msg)
    BY <2>1 DEF ProcessIncoming
  <2> QED BY <1>2, <2>2
<1> QED BY <1>1, <1>2, <1>3 DEF WireMessages

\* A client's reader takes up the rest of an assignment, of an object that may be no
\* entry's by then.
LEMMA BindResumedGoes ==
  ASSUME TablesInv, NEW n \in Nodes, NEW c \in Conns, BindResumed(n, c), NEW msg
  PROVE  n # Server /\ Goes(n, c, msg)
<1> DEFINE r == resume[n][c]
           o == r.obj
           e == heap[n][o]
           taken == Assigned(r.msg, e, TRUE, FALSE)
           entry == IF o \in Referenced(ents[n], idMap[n]) THEN taken ELSE FreeEntry
<1>1. /\ r # Nothing /\ SetEntry(n, o, entry) /\ TakeAssign(n, c, r.msg, e, TRUE, FALSE)
      /\ resume' = [resume EXCEPT ![n][c] = Nothing] /\ UNCHANGED <<ents, idMap>>
  BY DEF BindResumed
<1>2. n = c /\ n # Server /\ \A d \in Conns : d # c => resume[n][d] = Nothing
  BY <1>1, ServerIsOne DEF TablesInv, Roles
<1>3. o \in Objs /\ r.msg \in EntryAssigns /\ e.val \in Values
  BY <1>1, ReaderObjects, NodesTables DEF HasValues
<1>4. e \in Entry /\ heap[n] \in [Objs -> Entry] /\ Valued(heap[n])
  BY <1>3, NodesTables DEF HasValues
<1>5. taken.name = e.name /\ (taken.val \in Values \/ taken.val = e.val)
  BY <1>3, <1>4, AssignedKeeps
<1>6. heap'[n] = [heap[n] EXCEPT ![o] = entry]
  BY <1>1, NodesTables DEF SetEntry, OnNodes
<1>7. resume'[n] = [resume[n] EXCEPT ![c] = Nothing]
  BY <1>1, NodesTables DEF OnNodes
<1>8. resume[n] = [d \in Conns |-> resume[n][d]]
  BY DEF TablesInv, RInv, Resolves, ReadersOK
<1>9. \A d \in Conns : resume'[n][d] = Nothing
  BY <1>2, <1>7, <1>8
<1> HIDE DEF o, taken
<1>10. \A p \in Objs : heap'[n][p] = IF p = o THEN entry ELSE heap[n][p]
  BY <1>4, <1>6
<1>11. HasValues(n)'
  <2>1. entry.name \in Names => entry.val \in Values
    BY <1>3, <1>5, MessagesAssumption DEF FreeEntry
  <2> QED BY <1>4, <1>9, <1>10, <2>1 DEF HasValues, Valued
<1>12. NamesById(n, msg)
  <2>1. \A id \in Ids : idMap[n][id] # Nil =>
            idMap[n][id] \in Objs /\ idMap[n][id] \in Referenced(ents[n], idMap[n])
    BY NodesTables DEF Referenced
  <2>2. o \in Referenced(ents[n], idMap[n]) => entry.name = heap[n][o].name
    BY <1>5
  <2> HIDE DEF entry
  <2> QED BY <1>1, <1>10, <2>1, <2>2 DEF NamesById
<1>13. Hands(n, c)
  BY <1>1, <1>2, <1>3, <1>4, TakeAssignHands
<1> QED BY <1>2, <1>11, <1>12, <1>13 DEF Goes
-----------------------------------------------------------------------------
(* A client takes the server's entries *)

\* There is nothing to put into an order.
LEMMA NoOrder == DOMAIN SetToSeq({}) = {}
<1>1. Cardinality({}) = 0
  BY FS_EmptySet
<1>2. <<>> \in [1 .. 0 -> {}] /\ IsInjective(<<>>)
  BY DEF IsInjective
<1>3. SetToSeq({}) \in [1 .. 0 -> {}]
  BY <1>1, <1>2 DEF SetToSeq
<1> QED BY <1>3

\* the whole table of a server that is taken for a new one
TakesAll(n, c, table) == ApplyInitialAssignments(n, c, table, TRUE, TRUE)

\* an entry that has its value from the table, or keeps the one it had
TakenEntry(n, table, name, entry) ==
    /\ entry.name = name
    /\ \/ name \in DOMAIN table /\ entry.val = table[name].val
       \/ name \in KnownNames(n) /\ entry.val = EntryOf(n, name).val

TookAll(n, c, table) ==
    /\ HasValues(n)' /\ UNCHANGED <<role, resume>>
    /\ \E outs \in Seq(Outs) : DOMAIN outs = {} /\ hand' = [hand EXCEPT ![n][c] = outs]
    /\ \A id \in Ids : idMap'[n][id] # Nil =>
          \E name \in DOMAIN table :
             table[name].id = id /\ heap'[n][idMap'[n][id]].name = name
    /\ \A o \in Objs : heap'[n][o] = FreeEntry \/ \E name \in Names : TakenEntry(n, table, name, heap'[n][o])

\* A client that takes a new server's table has ids for the names of the table only,
\* and no values but the table's and its own; and it has nothing to send but the batch.
LEMMA ApplyGoes ==
  ASSUME TablesInv, NEW n \in Nodes, NEW c \in Conns, NEW table \in Presentations,
         Resolves(n)', TakesAll(n, c, table)
  PROVE  TookAll(n, c, table)
<1> DEFINE named == DOMAIN table
           new == named \ KnownNames(n)
           present == named \cup KnownNames(n)
           kept == {name \in named \ new :
                       ~ TRUE /\ NotNewer(table[name].seq, EntryOf(n, name).seq)}
           after(name) ==
               LET e == EntryOf(n, name) IN
               CASE name \notin named -> WithoutId(e)
                 [] name \in new ->
                       NewEntry(name, table[name].val, table[name].flags, table[name].id, table[name].seq)
                 [] name \in kept -> [e EXCEPT !.id = table[name].id]
                 [] OTHER -> [e EXCEPT !.val = table[name].val, !.seq = table[name].seq,
                                       !.id = table[name].id,
                                       !.flags = IF TRUE THEN table[name].flags ELSE @]
           h == [o \in Objs |->
                    LET owner == {name \in present : ents'[n][name] = o}
                    IN IF owner = {} THEN FreeEntry ELSE after(CHOOSE name \in owner : TRUE)]
           m == [id \in Ids |->
                    LET owner == {name \in named : table[name].id = id}
                    IN IF owner = {} THEN Nil ELSE ents'[n][CHOOSE name \in owner : TRUE]]
           order == SetToSeq(kept)
           update(e) == Out(EntryUpdate(Unassigned, e.seq, e.val), Nil)
           outs == [i \in DOMAIN order |-> update(EntryOf(n, order[i]))]
<1>1. UNCHANGED <<role, resume>> /\ \A d \in Conns : resume[n][d] = Nothing
  BY Zenon DEF TakesAll, ApplyInitialAssignments
<1>2. heap' = [heap EXCEPT ![n] = h]
  BY Zenon DEF TakesAll, ApplyInitialAssignments
<1>3. idMap' = [idMap EXCEPT ![n] = m]
  BY Zenon DEF TakesAll, ApplyInitialAssignments
<1>4. Send(n, c, outs) /\ role[n] = "client"
  BY Zenon DEF TakesAll, ApplyInitialAssignments
<1>5. heap'[n] = h /\ idMap'[n] = m
  BY <1>2, <1>3, NodesTables DEF OnNodes
<1>6. /\ named \subseteq Names
      /\ \A name \in named : /\ table[name].id \in Ids /\ table[name].seq \in SeqNums
                             /\ table[name].val \in Values /\ table[name].flags \in BOOLEAN
  BY PresentationFields
<1>7. \A name \in KnownNames(n) :
         /\ EntryOf(n, name) \in Entry /\ EntryOf(n, name).val \in Values
         /\ EntryOf(n, name).name = name /\ name \in Names
  BY EntryValue DEF KnownNames
<1>8. ASSUME NEW name \in present
      PROVE  after(name).val \in Values /\ TakenEntry(n, table, name, after(name))
  <2>1. CASE name \notin named
    BY <1>7, <2>1 DEF WithoutId, Entry, TakenEntry
  <2>2. CASE name \in new
    BY <1>6, <2>2 DEF NewEntry, TakenEntry
  <2>3. CASE name \in named /\ name \notin new
    <3>1. /\ EntryOf(n, name) \in Entry /\ EntryOf(n, name).val \in Values /\ table[name].val \in Values
          /\ EntryOf(n, name).name = name /\ name \in KnownNames(n) /\ name \in DOMAIN table
      BY <1>6, <1>7, <2>3
    <3>2. \/ after(name) = [EntryOf(n, name) EXCEPT !.id = table[name].id]
          \/ after(name) = [EntryOf(n, name) EXCEPT !.val = table[name].val, !.seq = table[name].seq,
                                 !.id = table[name].id,
                                 !.flags = IF TRUE THEN table[name].flags ELSE @]
      BY <2>3
    <3> HIDE DEF after
    <3> QED BY <3>1, <3>2 DEF Entry, TakenEntry
  <2> QED BY <2>1, <2>2, <2>3
<1> HIDE DEF after
<1>9. \A o \in Objs : h[o] = FreeEntry \/ \E name \in present : h[o] = after(name)
  <2> SUFFICES ASSUME NEW o \in Objs
               PROVE  h[o] = FreeEntry \/ \E name \in present : h[o] = after(name)
    OBVIOUS
  <2> DEFINE owner == {name \in present : ents'[n][name] = o}
  <2>1. h[o] = IF owner = {} THEN FreeEntry ELSE after(CHOOSE name \in owner : TRUE)
    OBVIOUS
  <2>2. owner # {} => (CHOOSE name \in owner : TRUE) \in owner
    OBVIOUS
  <2>3. owner \subseteq present
    OBVIOUS
  <2> HIDE DEF owner, h, present
  <2> QED BY <2>1, <2>2, <2>3
<1>10. HasValues(n)'
  <2> HIDE DEF h, present
  <2>1. Valued(h)
    BY <1>8, <1>9, MessagesAssumption DEF Valued, FreeEntry
  <2> QED BY <1>1, <1>5, <2>1 DEF HasValues
<1>11. \E s \in Seq(Outs) : DOMAIN s = {} /\ hand' = [hand EXCEPT ![n][c] = s]
  <2>1. kept = {}
    OBVIOUS
  <2>2. DOMAIN order = {}
    BY <2>1, NoOrder
  <2> HIDE DEF order, update
  <2>3. outs \in [1 .. 0 -> Outs]
    BY <2>2
  <2>4. outs \in Seq(Outs) /\ DOMAIN outs = {}
    BY <2>2, <2>3
  <2> HIDE DEF outs
  <2> QED BY <1>4, <2>4 DEF Send
<1>12. ASSUME NEW id \in Ids, idMap'[n][id] # Nil
       PROVE  \E name \in named : table[name].id = id /\ heap'[n][idMap'[n][id]].name = name
  <2> DEFINE owner == {name \in named : table[name].id = id}
  <2>1. m[id] = IF owner = {} THEN Nil ELSE ents'[n][CHOOSE name \in owner : TRUE]
    OBVIOUS
  <2>2. owner # {} /\ m[id] = ents'[n][CHOOSE name \in owner : TRUE]
    BY <1>5, <1>12, <2>1
  <2>3. PICK name \in owner : m[id] = ents'[n][name]
    BY <2>2
  <2>4. name \in named /\ name \in Names /\ table[name].id = id
    BY <1>6, <2>3
  <2>5. ents'[n][name] # Nil /\ idMap'[n][id] = ents'[n][name]
    BY <1>5, <1>12, <2>3
  <2>6. heap'[n][ents'[n][name]].name = name
    BY <2>4, <2>5 DEF Resolves, ResolveOK, NamesResolve
  <2> QED BY <2>4, <2>5, <2>6
<1>13. ASSUME NEW o \in Objs
       PROVE  heap'[n][o] = FreeEntry \/ \E name \in Names : TakenEntry(n, table, name, heap'[n][o])
  <2>1. \A name \in present : name \in Names
    BY <1>6, <1>7
  <2> HIDE DEF h, present, named
  <2> QED BY <1>5, <1>8, <1>9, <2>1
<1> QED BY <1>1, <1>10, <1>11, <1>12, <1>13 DEF TookAll
-----------------------------------------------------------------------------
(* A step of one thread of one node *)

\* the tables of the node, and what is left to its readers
Steps(n, t) ==
    /\ Safe(n) /\ Resolves(n)' /\ HasValues(n)' /\ UNCHANGED role
    /\ \A d \in Conns : d # n => resume'[n][d] \in {resume[n][d], Nothing}
    /\ UNCHANGED hand \/ \E outs \in Seq(Outs) : hand' = [hand EXCEPT ![n][t] = outs]

\* the threads a node has: a client has one reader
ThreadOf(n, t) == t \in Users \/ (t \in Conns /\ (n = Server \/ t = n))

LEMMA TablesStay ==
  ASSUME TablesInv, hand \in [Nodes -> [Threads -> Seq(Outs)]],
         NEW n \in Nodes, NEW t \in Threads, ThreadOf(n, t), Steps(n, t)
  PROVE  TablesInv' /\ hand' \in [Nodes -> [Threads -> Seq(Outs)]]
<1>1. IInv'
  BY SafeIsEnough DEF TablesInv, Steps
<1>2. \A m \in Nodes \ {n} : /\ heap'[m] = heap[m] /\ ents'[m] = ents[m] /\ idMap'[m] = idMap[m]
                             /\ resume'[m] = resume[m]
  BY DEF Steps, Safe, Elsewhere
<1>3. RInv'
  <2>1. \A m \in Nodes \ {n} : Resolves(m)'
    BY <1>2 DEF TablesInv, RInv, Resolves
  <2> QED BY <2>1 DEF RInv, Steps
<1>4. \A m \in Nodes : HasValues(m)'
  <2>1. \A m \in Nodes \ {n} : HasValues(m)'
    BY <1>2 DEF TablesInv, HasValues, Valued
  <2> QED BY <2>1 DEF Steps
<1>5. hand' \in [Nodes -> [Threads -> Seq(Outs)]]
  <2>1. UNCHANGED hand \/ \E outs \in Seq(Outs) : hand' = [hand EXCEPT ![n][t] = outs]
    BY DEF Steps
  <2> DEFINE Lists == Seq(Outs)
  <2>2. hand \in [Nodes -> [Threads -> Lists]] /\ \A outs \in Seq(Outs) : outs \in Lists
    OBVIOUS
  <2> HIDE DEF Lists
  <2>3. ASSUME NEW outs \in Lists, hand' = [hand EXCEPT ![n][t] = outs]
        PROVE  hand' \in [Nodes -> [Threads -> Lists]]
    <3>1. [hand[n] EXCEPT ![t] = outs] \in [Threads -> Lists]
      BY <2>2
    <3> QED BY <2>2, <2>3, <3>1
  <2>4. hand' \in [Nodes -> [Threads -> Lists]]
    BY <2>1, <2>2, <2>3
  <2> QED BY <2>4 DEF Lists
<1>6. Roles'
  <2>1. role' = [m \in Nodes |-> IF m = Server THEN "server" ELSE "client"]
    BY DEF Steps, TablesInv, Roles
  <2>2. \A m \in Nodes, c \in Conns : m # c => resume'[m][c] = Nothing
    BY <1>2 DEF Steps, TablesInv, Roles
  <2>3. ASSUME NEW m \in Nodes \ {Server}, NEW c \in Conns, m # c
        PROVE  hand'[m][c] = <<>>
    <3>1. hand[m][c] = <<>>
      BY <2>3 DEF TablesInv, Roles
    <3>2. c \in Threads /\ (m = n => c # t)
      BY <2>3, StorageAssumption DEF ThreadOf, Threads
    <3>3. hand'[m][c] = hand[m][c]
      BY <3>2 DEF Steps
    <3> QED BY <3>1, <3>3
  <2> QED BY <2>1, <2>2, <2>3 DEF Roles
<1> QED BY <1>1, <1>3, <1>4, <1>5, <1>6 DEF TablesInv
-----------------------------------------------------------------------------
(* Ids by the next tables of the server *)

FitsThen(id, name) ==
    /\ id < idCount'[Server]
    /\ idMap'[Server][id] # Nil => heap'[Server][idMap'[Server][id]].name = name

HonestThen(msg) == msg.type = "EntryAssign" /\ msg.id \in Ids => FitsThen(msg.id, msg.str)
AllHonestThen(msgs) == \A i \in DOMAIN msgs : HonestThen(msgs[i])

FitsStay == \A id \in Ids : \A name : Fits(id, name) => FitsThen(id, name)

\* what a client has ids for
Bindings(c) == \A id \in Ids : idMap[c][id] # Nil => Fits(id, heap[c][idMap[c][id]].name)
BindingsThen(c) == \A id \in Ids : idMap'[c][id] # Nil => FitsThen(id, heap'[c][idMap'[c][id]].name)

LEMMA HonestStays ==
  ASSUME FitsStay
  PROVE  /\ \A msg : Honest(msg) => HonestThen(msg)
         /\ \A msgs : AllHonest(msgs) => AllHonestThen(msgs)
BY DEF FitsStay, Honest, HonestThen, AllHonest, AllHonestThen

LEMMA HonestyThen ==
  ASSUME NEW c \in Conns,
         AllHonestThen(pend'[c].srv.list), OwnPlaces(pend'[c].srv),
         AllHonestThen(prepared'[c].srv), AllHonestThen(wire'[c].cli),
         state'[c].cli \in {"Synchronized", "Active"} => BindingsThen(c)
  PROVE  Honesty(c)'
BY DEF Honesty, AllHonest, Honest, Fits, AllHonestThen, HonestThen, FitsThen, BindingsThen, OwnPlaces

LEMMA ServerOwns ==
  ASSUME TablesInv
  PROVE  AlwaysServer(Server) /\ NodeOK(Server) /\ idCount[Server] \in Nat
<1>1. AlwaysServer(Server) /\ Server \in Nodes
  BY ServerIsOne, WhoServes DEF TablesInv
<1>2. NodeOK(Server)
  BY <1>1 DEF TablesInv, IInv
<1>3. idCount[Server] \in AnyId
  BY <1>2 DEF NodeOK, TablesOK, TablesType
<1> QED BY <1>1, <1>2, <1>3, MessagesAssumption DEF AnyId

\* An id stays that of its name, whatever node takes a step.
LEMMA FitsStays ==
  ASSUME TablesInv, NEW n \in Nodes, NEW msg, Safe(n), NamesById(n, msg)
  PROVE  FitsStay
<1>1. CASE n = Server
  <2>1. Kept(idMap[Server], idCount[Server], idMap'[Server], idCount'[Server]) /\ NodeOK(Server)'
    BY <1>1, ServerOwns DEF Safe
  <2>2. idCount[Server] \in Nat /\ idCount'[Server] \in Nat /\ idCount'[Server] >= idCount[Server]
    BY <2>1, ServerOwns, MessagesAssumption DEF Kept, NodeOK, TablesOK, TablesType, AnyId
  <2>3. \A id \in Ids : id \in Nat
    BY DEF Ids
  <2>4. \A id \in Ids : id < idCount[Server] /\ idMap'[Server][id] # Nil =>
          idMap[Server][id] # Nil
          /\ heap'[Server][idMap'[Server][id]].name = heap[Server][idMap[Server][id]].name
    BY <1>1, <2>2, <2>3 DEF NamesById
  <2> QED BY <2>2, <2>3, <2>4 DEF FitsStay, Fits, FitsThen
<1>2. CASE n # Server
  <2>1. /\ heap'[Server] = heap[Server] /\ idMap'[Server] = idMap[Server]
        /\ idCount'[Server] = idCount[Server]
    BY <1>2, ServerIsOne DEF Safe, Elsewhere
  <2> QED BY <2>1 DEF FitsStay, Fits, FitsThen
<1> QED BY <1>1, <1>2

\* What the server tells of an entry it has is so.
LEMMA OfEntryHonest ==
  ASSUME TablesInv', NEW msg \in PeerMessages, OfEntry(msg)
  PROVE  HonestThen(msg)
<1>1. NodeOK(Server)'
  <2>1. AlwaysServer(Server)'
    BY ServerIsOne DEF TablesInv, Roles, AlwaysServer
  <2> QED BY <2>1, ServerIsOne DEF TablesInv, IInv
<1>2. NamesHaveIds(heap'[Server], ents'[Server], idMap'[Server], idCount'[Server])
  BY <1>1 DEF NodeOK, TablesOK
<1>3. msg.type = "EntryAssign" => msg.str \in Names
  BY PeerMessageFields
<1> QED BY <1>2, <1>3 DEF OfEntry, HonestThen, FitsThen, NamesHaveIds

\* Nor does the server say anything of an id that is not so.
LEMMA HandsStayHonest ==
  ASSUME TablesInv', HandsHonest, FitsStay, hand \in [Nodes -> [Threads -> Seq(Outs)]],
         NEW n \in Nodes, NEW t \in Threads, Hands(n, t)
  PROVE  HandsHonest'
<1>1. \A u \in Threads : \A i \in DOMAIN hand'[Server][u] : HonestThen(hand'[Server][u][i].msg)
  <2>1. \A u \in Threads : \A i \in DOMAIN hand[Server][u] : HonestThen(hand[Server][u][i].msg)
    BY HonestStays DEF HandsHonest
  <2>2. CASE UNCHANGED hand
    BY <2>1, <2>2
  <2>3. CASE ~ UNCHANGED hand
    <3>1. PICK outs \in Seq(Outs) :
             /\ hand' = [hand EXCEPT ![n][t] = outs]
             /\ n = Server => \A i \in DOMAIN outs : OfEntry(outs[i].msg)
      BY <2>3 DEF Hands
    <3>2. n = Server => \A i \in DOMAIN outs : HonestThen(outs[i].msg)
      <4>1. \A i \in DOMAIN outs : outs[i] \in Outs
        OBVIOUS
      <4>2. \A out \in Outs : out.msg \in PeerMessages
        BY DEF Outs
      <4> QED BY <3>1, <4>1, <4>2, OfEntryHonest
    <3>3. \A u \in Threads :
             hand'[Server][u] = IF n = Server /\ u = t THEN outs ELSE hand[Server][u]
      BY <3>1, ServerIsOne
    <3> QED BY <2>1, <3>2, <3>3
  <2> QED BY <2>2, <2>3
<1> QED BY <1>1 DEF HandsHonest, Honest, Fits, HonestThen, FitsThen

\* The ids a client has stay those of their names, if it is told nothing else.
LEMMA BindingsStay ==
  ASSUME TablesInv, NEW n \in Nodes, NEW msg, Safe(n), NamesById(n, msg), FitsStay,
         NEW c \in Conns, Bindings(c), c = n => Honest(msg)
  PROVE  BindingsThen(c)
<1>1. CASE c # n
  <2>1. heap'[c] = heap[c] /\ idMap'[c] = idMap[c]
    BY <1>1, ServerIsOne DEF Safe, Elsewhere
  <2> QED BY <2>1 DEF Bindings, BindingsThen, FitsStay
<1>2. CASE c = n
  <2> SUFFICES ASSUME NEW id \in Ids, idMap'[c][id] # Nil
               PROVE  FitsThen(id, heap'[c][idMap'[c][id]].name)
    BY DEF BindingsThen
  <2>1. c # Server
    BY ServerIsOne
  <2>2. CASE idMap[c][id] # Nil /\ heap'[c][idMap'[c][id]].name = heap[c][idMap[c][id]].name
    BY <2>2 DEF Bindings, FitsStay
  <2>3. CASE /\ msg.type = "EntryAssign" /\ id = msg.id
             /\ heap'[c][idMap'[c][id]].name = msg.str
    BY <1>2, <2>3 DEF Honest, FitsStay
  <2> QED BY <1>2, <2>1, <2>2, <2>3 DEF NamesById
<1> QED BY <1>1, <1>2
-----------------------------------------------------------------------------
(* What a thread works on at its node *)

Works(n, t, msg) ==
    /\ Safe(n) /\ Resolves(n)' /\ Goes(n, t, msg) /\ UNCHANGED role
    /\ \A d \in Conns : d # n => resume'[n][d] \in {resume[n][d], Nothing}

\* What it owes to all the nodes.
LEMMA WorkDone ==
  ASSUME TablesInv, HandsHonest, hand \in [Nodes -> [Threads -> Seq(Outs)]],
         NEW n \in Nodes, NEW t \in Threads, ThreadOf(n, t), NEW msg, Works(n, t, msg)
  PROVE  /\ TablesInv' /\ hand' \in [Nodes -> [Threads -> Seq(Outs)]]
         /\ FitsStay /\ HandsHonest'
         /\ \A c \in Conns : Bindings(c) /\ (c = n => Honest(msg)) => BindingsThen(c)
<1>1. HasValues(n)' /\ Hands(n, t) /\ NamesById(n, msg)
  BY DEF Works, Goes
<1>2. Steps(n, t)
  BY <1>1 DEF Steps, Works, Hands
<1>3. TablesInv' /\ hand' \in [Nodes -> [Threads -> Seq(Outs)]]
  BY <1>2, TablesStay
<1>4. FitsStay
  BY <1>1, FitsStays DEF Works
<1>5. HandsHonest'
  BY <1>1, <1>3, <1>4, HandsStayHonest
<1>6. ASSUME NEW c \in Conns, Bindings(c), c = n => Honest(msg)
      PROVE  BindingsThen(c)
  BY <1>1, <1>4, <1>6, BindingsStay DEF Works
<1> QED BY <1>3, <1>4, <1>5, <1>6

LEMMA TableCallWorks ==
  ASSUME TablesInv, NEW n \in Nodes, NEW u, TableCall(n, u), NEW msg
  PROVE  Works(n, u, msg)
<1>1. Safe(n) /\ Resolves(n)' /\ Goes(n, u, msg)
  <2>1. UserCall(n, u)
    BY DEF UserCall
  <2> QED BY <2>1, UserCallSafe, TableCallResolves, TableCallGoes, NoneTurns DEF TablesInv
<1>2. UNCHANGED <<role, resume>>
  <2>1. ASSUME NEW name, NEW value, NEW seq, Create(n, u, name, value, seq)
        PROVE  UNCHANGED <<role, resume>>
    BY <2>1, Zenon DEF Create
  <2>2. ASSUME NEW name, NEW value, NEW sameType, ChangeValue(n, u, name, value, sameType)
        PROVE  UNCHANGED <<role, resume>>
    BY <2>2, Zenon DEF ChangeValue
  <2>3. ASSUME NEW name \in Names, NEW value \in Values,
               SetEntryValue(n, u, name, value) \/ SetEntryTypeValue(n, u, name, value)
        PROVE  UNCHANGED <<role, resume>>
    <3>1. \/ \E seq : Create(n, u, name, value, seq)
          \/ \E sameType : ChangeValue(n, u, name, value, sameType)
          \/ KeepValue(n, u, name, value)
      BY <2>3 DEF SetEntryValue, SetEntryTypeValue
    <3>2. KeepValue(n, u, name, value) => UNCHANGED <<role, resume>>
      BY DEF KeepValue
    <3> QED BY <2>1, <2>2, <3>1, <3>2
  <2>4. ASSUME NEW name, NEW flags, SetEntryFlags(n, u, name, flags)
        PROVE  UNCHANGED <<role, resume>>
    BY <2>4, Zenon DEF SetEntryFlags
  <2>5. ASSUME NEW name, DeleteEntry(n, u, name)
        PROVE  UNCHANGED <<role, resume>>
    BY <2>5, Zenon DEF DeleteEntry
  <2>6. ASSUME DeleteAllEntries(n, u)
        PROVE  UNCHANGED <<role, resume>>
    BY <2>6, Zenon DEF DeleteAllEntries, DeleteAllEntriesImpl
  <2> QED BY <2>3, <2>4, <2>5, <2>6 DEF TableCall
<1> QED BY <1>1, <1>2 DEF Works

LEMMA ProcessIncomingWorks ==
  ASSUME TablesInv, NEW n \in Nodes, NEW c \in Conns, n = Server \/ n = c,
         NEW msg \in WireMessages, ProcessIncoming(n, c, msg, TRUE)
  PROVE  Works(n, c, msg)
<1>1. Goes(n, c, msg)
  BY ProcessIncomingGoes
<1>2. Safe(n) /\ Resolves(n)'
  <2>1. CASE msg \in PeerMessages
    BY <2>1, ProcessIncomingSafe, ProcessIncomingResolves, NoneTurns DEF TablesInv
  <2>2. CASE msg = HelloDone
    <3>1. msg.type = "HelloDone"
      BY <2>2, MessageKinds
    <3>2. UNCHANGED storageVars
      BY <3>1 DEF ProcessIncoming, Ignored
    <3> QED BY <3>2, QuietSteps, QuietStepsResolve DEF TablesInv
  <2> QED BY <2>1, <2>2 DEF WireMessages
<1>3. UNCHANGED role
  BY DEF ProcessIncoming, AssignNew, AssignUnknown, AssignKnown, Bind, TakeUpdate, TakeFlags,
     TakeDelete, TakeClear, DeleteAllEntriesImpl, Ignored, storageVars
<1>4. ASSUME NEW d \in Conns, d # n
      PROVE  resume'[n][d] \in {resume[n][d], Nothing}
  <2>1. UNCHANGED resume \/ Bind(n, c, msg)
    BY DEF ProcessIncoming, AssignNew, AssignUnknown, AssignKnown, TakeUpdate, TakeFlags,
       TakeDelete, TakeClear, DeleteAllEntriesImpl, Ignored, storageVars
  <2>2. CASE Bind(n, c, msg)
    <3>1. n = c /\ (UNCHANGED resume \/ \E r : resume' = [resume EXCEPT ![n][c] = r])
      BY <2>2, WhoServes DEF Bind, TablesInv
    <3>2. resume[n] = [e \in Conns |-> resume[n][e]] /\ OnNodes(resume)
      BY NodesTables DEF TablesInv, RInv, Resolves, ReadersOK
    <3>3. resume'[n][d] = resume[n][d]
      BY <1>4, <3>1, <3>2 DEF OnNodes
    <3> QED BY <3>3
  <2> QED BY <2>1, <2>2
<1> QED BY <1>1, <1>2, <1>3, <1>4 DEF Works

LEMMA BindResumedWorks ==
  ASSUME TablesInv, NEW c \in Conns, BindResumed(c, c)
  PROVE  Works(c, c, ClearEntries)
<1>1. c \in Nodes
  BY ServerIsOne
<1>2. Safe(c) /\ Resolves(c)' /\ Goes(c, c, ClearEntries)
  BY <1>1, BindResumedSafe, BindResumedResolves, BindResumedGoes DEF TablesInv
<1>3. UNCHANGED role /\ resume' = [resume EXCEPT ![c][c] = Nothing]
  BY DEF BindResumed
<1>4. resume[c] = [e \in Conns |-> resume[c][e]] /\ OnNodes(resume)
  BY <1>1, NodesTables DEF TablesInv, RInv, Resolves, ReadersOK
<1>5. \A d \in Conns : d # c => resume'[c][d] = resume[c][d]
  BY <1>1, <1>3, <1>4 DEF OnNodes
<1> QED BY <1>2, <1>3, <1>5 DEF Works

\* What no client can take amiss.
LEMMA ClearIsHonest == Honest(ClearEntries)
BY OtherMessages DEF Honest

\* A thread passes on what it has in hand.
LEMMA HandOverDone ==
  ASSUME TablesInv, HandsHonest, hand \in [Nodes -> [Threads -> Seq(Outs)]],
         NEW n \in Nodes, NEW t \in Threads, HandOver(n, t)
  PROVE  /\ TablesInv' /\ hand' \in [Nodes -> [Threads -> Seq(Outs)]]
         /\ FitsStay /\ HandsHonest'
         /\ \A c \in Conns : Bindings(c) => BindingsThen(c)
         /\ Head(hand[n][t]) \in Outs
         /\ n = Server => Honest(Head(hand[n][t]).msg)
<1>1. /\ hand[n][t] # <<>> /\ hand' = [hand EXCEPT ![n][t] = Tail(hand[n][t])]
      /\ UNCHANGED <<role, heap, ents, idMap, idCount, resume>>
  BY DEF HandOver
<1>2. hand[n][t] \in Seq(Outs)
  OBVIOUS
<1>3. Head(hand[n][t]) \in Outs /\ Tail(hand[n][t]) \in Seq(Outs)
  BY <1>1, <1>2
<1>4. ThreadOf(n, t)
  BY <1>1 DEF TablesInv, Roles, ThreadOf, Threads
<1>5. Safe(n) /\ Resolves(n)'
  BY QuietSteps, QuietStepsResolve DEF TablesInv
<1>6. HasValues(n)' /\ NamesById(n, ClearEntries)
  BY <1>1, StayValues
<1>7. Steps(n, t)
  BY <1>1, <1>3, <1>5, <1>6 DEF Steps
<1>8. TablesInv' /\ hand' \in [Nodes -> [Threads -> Seq(Outs)]]
  BY <1>7, <1>4, TablesStay
<1>9. FitsStay
  BY <1>5, <1>6, FitsStays
<1>10. ASSUME NEW c \in Conns, Bindings(c)
       PROVE  BindingsThen(c)
  BY <1>5, <1>6, <1>9, <1>10, BindingsStay, ClearIsHonest
<1>11. n = Server => Honest(Head(hand[n][t]).msg)
  <2>1. 1 \in DOMAIN hand[n][t] /\ Head(hand[n][t]) = hand[n][t][1]
    BY <1>1, <1>2
  <2> QED BY <2>1 DEF HandsHonest
<1>12. \A u \in Threads : \A i \in DOMAIN hand'[Server][u] : HonestThen(hand'[Server][u][i].msg)
  <2>1. \A u \in Threads : \A i \in DOMAIN hand[Server][u] : HonestThen(hand[Server][u][i].msg)
    BY <1>9, HonestStays DEF HandsHonest
  <2>2. \A u \in Threads : hand'[Server][u] =
            IF n = Server /\ u = t THEN Tail(hand[n][t]) ELSE hand[Server][u]
    BY <1>1, ServerIsOne
  <2>3. \A i \in DOMAIN Tail(hand[n][t]) :
            i + 1 \in DOMAIN hand[n][t] /\ Tail(hand[n][t])[i] = hand[n][t][i + 1]
    BY <1>1, <1>2
  <2> QED BY <2>1, <2>2, <2>3
<1>13. HandsHonest'
  BY <1>12 DEF HandsHonest, Honest, Fits, HonestThen, FitsThen
<1> QED BY <1>3, <1>8, <1>9, <1>10, <1>11, <1>13
-----------------------------------------------------------------------------
(* Users, and what is queued for them *)

LEMMA HonestyStays ==
  ASSUME FitsStay, NEW c \in Conns,
         AllHonest(pend'[c].srv.list), OwnPlaces(pend'[c].srv),
         AllHonest(prepared'[c].srv), AllHonest(wire'[c].cli),
         state'[c].cli \in {"Synchronized", "Active"} => BindingsThen(c)
  PROVE  Honesty(c)'
<1>1. /\ AllHonestThen(pend'[c].srv.list) /\ AllHonestThen(prepared'[c].srv)
      /\ AllHonestThen(wire'[c].cli)
  BY HonestStays
<1> QED BY <1>1, HonestyThen

\* A step that leaves the streams and the handshakes alone.
LEMMA LinksStay ==
  ASSUME LinksInv, UNCHANGED <<state, wire, prepared, incoming, stopped>>,
         hand' \in [Nodes -> [Threads -> Seq(Outs)]],
         pend' \in [Conns -> [Ends -> Queues]],
         \A c \in Conns, end \in Ends : PlacesInList(pend'[c][end]),
         displaced' \in SUBSET Conns
  PROVE  LinksInv'
<1>1. LinkTypes'
  BY DEF LinksInv, LinkTypes
<1>2. \A c \in Conns : Phase(c)' /\ Presented(c)'
  BY DEF LinksInv, Phase, Presented
<1> QED BY <1>1, <1>2 DEF LinksInv

\* What a thread works on at its node, and passes on later.
LEMMA WorkKeeps ==
  ASSUME SyncInv, NEW n \in Nodes, NEW t \in Threads, ThreadOf(n, t), Works(n, t, ClearEntries),
         UNCHANGED <<linkVars, displaced>>
  PROVE  SyncInv'
<1>1. UNCHANGED <<state, pend, wire, prepared, incoming, stopped, displaced>>
  BY DEF linkVars
<1>2. /\ TablesInv' /\ hand' \in [Nodes -> [Threads -> Seq(Outs)]] /\ FitsStay /\ HandsHonest'
      /\ \A c \in Conns : Bindings(c) => BindingsThen(c)
  BY WorkDone, ClearIsHonest DEF SyncInv, LinksInv, LinkTypes, HonestInv
<1>3. LinksInv'
  BY <1>1, <1>2, LinksStay DEF SyncInv, LinksInv, LinkTypes
<1>4. ASSUME NEW c \in Conns \ displaced
      PROVE  Honesty(c)'
  <2>1. Honesty(c)
    BY DEF SyncInv, HonestInv
  <2> QED BY <1>1, <1>2, <2>1, HonestyStays DEF Honesty, Bindings
<1>5. HonestInv'
  BY <1>1, <1>2, <1>4 DEF HonestInv
<1> QED BY <1>2, <1>3, <1>5 DEF SyncInv

LEMMA CallKeeps ==
  ASSUME SyncInv, NEW n \in Nodes, NEW u \in Users, Call(n, u)
  PROVE  SyncInv'
<1>1. TableCall(n, u)
  BY Zenon DEF Call, TableCall
<1>2. UNCHANGED <<linkVars, displaced>>
  BY DEF Call
<1>3. Works(n, u, ClearEntries) /\ u \in Threads /\ ThreadOf(n, u)
  BY <1>1, TableCallWorks DEF SyncInv, Threads, ThreadOf
<1> QED BY <1>2, <1>3, WorkKeeps

LEMMA ResumeKeeps ==
  ASSUME SyncInv, NEW c \in Conns, Resume(c)
  PROVE  SyncInv'
<1>1. BindResumed(c, c) /\ UNCHANGED <<linkVars, displaced>>
  BY DEF Resume, historyVars
<1>2. Works(c, c, ClearEntries) /\ c \in Nodes /\ c \in Threads /\ ThreadOf(c, c)
  BY <1>1, BindResumedWorks, ServerIsOne DEF SyncInv, Threads, ThreadOf
<1> QED BY <1>1, <1>2, WorkKeeps

\* A message is put into the queues of some connections, which are then as new says.
Queued(n, msg, conns, new) ==
    /\ \A c \in conns :
          LET q == QueueOutgoing(pend[c][EndOf(n)], msg)
          IN new[c] = q \/ new[c] = [q EXCEPT !.fault = FALSE]
    /\ pend' = [c \in Conns |->
                  IF c \in conns THEN [pend[c] EXCEPT ![EndOf(n)] = new[c]] ELSE pend[c]]
    /\ Displacing(n, msg, conns)

LEMMA QueuesKeep ==
  ASSUME LinkTypes, NEW n \in Nodes, NEW msg \in PeerMessages, n = Server => Honest(msg),
         NEW conns \in SUBSET Conns, NEW new, Queued(n, msg, conns, new)
  PROVE  /\ pend' \in [Conns -> [Ends -> Queues]] /\ displaced' \in SUBSET Conns
         /\ \A c \in Conns, end \in Ends : PlacesInList(pend'[c][end])
         /\ displaced \subseteq displaced'
         /\ \A c \in Conns \ displaced' : Own(pend[c].srv) => Own(pend'[c].srv)
<1> DEFINE end == EndOf(n)
           hit == {c \in conns : n = Server /\ Displaces(pend[c].srv, msg)}
<1>1. displaced' = displaced \cup hit
  BY DEF Queued, Displacing
<1>2. end \in Ends /\ (n = Server <=> end = "srv")
  BY DEF EndOf, Ends
<1>3. \A c \in Conns, e \in Ends : Fine(pend[c][e])
  BY DEF LinkTypes, Fine
<1>4. ASSUME NEW c \in conns
      PROVE  /\ Fine(new[c])
             /\ Own(pend[c][end]) /\ Honest(msg) /\ ~ Displaces(pend[c][end], msg) => Own(new[c])
  <2> DEFINE q == QueueOutgoing(pend[c][end], msg)
  <2>1. /\ Fine(q)
        /\ Own(pend[c][end]) /\ Honest(msg) /\ ~ Displaces(pend[c][end], msg) => Own(q)
    BY <1>2, <1>3, QueueKeeps
  <2>2. new[c] = q \/ new[c] = [q EXCEPT !.fault = FALSE]
    BY DEF Queued
  <2> HIDE DEF q, end
  <2>3. CASE new[c] = q
    BY <2>1, <2>3
  <2>4. CASE new[c] = [q EXCEPT !.fault = FALSE]
    BY <2>1, <2>4, CaughtKeeps
  <2> QED BY <2>2, <2>3, <2>4
<1> HIDE DEF end
<1>5. \A c \in Conns, e \in Ends :
         pend'[c][e] = IF c \in conns /\ e = end THEN new[c] ELSE pend[c][e]
  BY <1>2 DEF LinkTypes, Queued, end
<1>6. \A c \in Conns, e \in Ends : Fine(pend'[c][e])
  BY <1>3, <1>4, <1>5
<1>7. pend' \in [Conns -> [Ends -> Queues]]
  <2>1. \A c \in conns : new[c] \in Queues
    BY <1>4 DEF Fine
  <2>2. \A c \in Conns : pend[c] \in [Ends -> Queues]
    BY DEF LinkTypes
  <2>3. \A c \in conns : [pend[c] EXCEPT ![end] = new[c]] \in [Ends -> Queues]
    BY <2>1, <2>2
  <2> QED BY <2>2, <2>3 DEF Queued, end
<1>8. ASSUME NEW c \in Conns \ displaced', Own(pend[c].srv)
      PROVE  Own(pend'[c].srv)
  <2>1. CASE c \in conns /\ end = "srv"
    <3>1. ~ Displaces(pend[c].srv, msg) /\ Honest(msg)
      BY <1>1, <1>2, <2>1
    <3> QED BY <1>2, <1>4, <1>5, <1>8, <2>1, <3>1
  <2>2. CASE ~ (c \in conns /\ end = "srv")
    BY <1>2, <1>5, <1>8, <2>2 DEF Ends
  <2> QED BY <2>1, <2>2
<1>9. displaced' \in SUBSET Conns
  BY <1>1 DEF LinkTypes
<1> QED BY <1>1, <1>6, <1>7, <1>8, <1>9 DEF Fine

LEMMA QueueToAllKeeps ==
  ASSUME SyncInv, NEW n \in Nodes, NEW t \in Threads, QueueToAll(n, t)
  PROVE  SyncInv'
<1> DEFINE out == Head(hand[n][t])
           conns == Targets(n, out.except)
           new == [c \in conns |-> QueueOutgoing(pend[c][EndOf(n)], out.msg)]
<1>1. HandOver(n, t) /\ Displacing(n, out.msg, conns)
  BY DEF QueueToAll
<1>2. pend' = [c \in Conns |->
                 IF c \in conns THEN [pend[c] EXCEPT ![EndOf(n)] = new[c]] ELSE pend[c]]
  BY DEF QueueToAll
<1>3. UNCHANGED <<state, wire, prepared, incoming, stopped>>
  BY DEF QueueToAll
<1>4. conns \in SUBSET Conns
  <2>1. n # Server => n \in Conns
    BY ServerIsOne
  <2> QED BY <2>1 DEF Targets, ConnsOf
<1>5. /\ TablesInv' /\ hand' \in [Nodes -> [Threads -> Seq(Outs)]] /\ FitsStay /\ HandsHonest'
      /\ \A c \in Conns : Bindings(c) => BindingsThen(c)
      /\ out \in Outs /\ (n = Server => Honest(out.msg))
  BY <1>1, HandOverDone DEF SyncInv, LinksInv, LinkTypes, HonestInv
<1>6. out.msg \in PeerMessages
  BY <1>5 DEF Outs
<1> HIDE DEF out, conns
<1>7. /\ pend' \in [Conns -> [Ends -> Queues]] /\ displaced' \in SUBSET Conns
      /\ \A c \in Conns, end \in Ends : PlacesInList(pend'[c][end])
      /\ displaced \subseteq displaced'
      /\ \A c \in Conns \ displaced' : Own(pend[c].srv) => Own(pend'[c].srv)
  <2>1. LinkTypes
    BY DEF SyncInv, LinksInv
  <2>2. Queued(n, out.msg, conns, new)
    BY <1>1, <1>2 DEF Queued
  <2> HIDE DEF new
  <2> QED BY <1>4, <1>5, <1>6, <2>1, <2>2, QueuesKeep
<1>8. LinksInv'
  BY <1>3, <1>5, <1>7, LinksStay DEF SyncInv
<1>9. ASSUME NEW c \in Conns \ displaced'
      PROVE  Honesty(c)'
  <2>1. Honesty(c)
    BY <1>7 DEF SyncInv, HonestInv
  <2>2. AllHonest(pend'[c].srv.list) /\ OwnPlaces(pend'[c].srv)
    BY <1>7, <2>1 DEF Honesty, Own
  <2> QED BY <1>3, <1>5, <2>1, <2>2, HonestyStays DEF Honesty, Bindings
<1>10. HonestInv'
  BY <1>5, <1>9 DEF HonestInv
<1> QED BY <1>5, <1>8, <1>10 DEF SyncInv
-----------------------------------------------------------------------------
(* A message that a queue refuses *)

\* A reader ends, and what only it referred to is collected.
LEMMA EndedWorks ==
  ASSUME TablesInv, NEW n \in Nodes, NEW t \in Conns, ThreadOf(n, t),
         hand' = [hand EXCEPT ![n][t] = <<>>], resume' = [resume EXCEPT ![n][t] = Nothing],
         heap' = [heap EXCEPT ![n] =
            [o \in Objs |-> IF o \in Referenced(ents[n], idMap[n]) THEN @[o] ELSE FreeEntry]],
         UNCHANGED <<role, ents, idMap, idCount>>
  PROVE  Works(n, t, ClearEntries)
<1> DEFINE h == [o \in Objs |-> IF o \in Referenced(ents[n], idMap[n]) THEN heap[n][o] ELSE FreeEntry]
           r == [resume[n] EXCEPT ![t] = Nothing]
<1>1. heap' = [heap EXCEPT ![n] = h] /\ resume' = [resume EXCEPT ![n] = r]
  OBVIOUS
<1>2. /\ ents' = [ents EXCEPT ![n] = ents[n]] /\ idMap' = [idMap EXCEPT ![n] = idMap[n]]
      /\ idCount' = [idCount EXCEPT ![n] = idCount[n]]
  BY NodesTables DEF OnNodes
<1>3. resume[n] = [d \in Conns |-> resume[n][d]] /\ ReadersOK(resume[n])
  BY DEF TablesInv, RInv, Resolves, ReadersOK
<1>4. heap'[n] = h /\ resume'[n] = r
  BY <1>1, NodesTables DEF OnNodes
<1>5. \A d \in Conns : r[d] = IF d = t THEN Nothing ELSE resume[n][d]
  BY <1>3
<1>6. \A d \in Conns : r[d] = Nothing
  <2>1. CASE n = Server
    <3>1. NothingLeft(n)
      BY <2>1, WhoServes DEF TablesInv, IInv
    <3> QED BY <1>5, <3>1 DEF NothingLeft
  <2>2. CASE n # Server
    <3>1. n = t
      BY <2>2, StorageAssumption DEF ThreadOf
    <3> QED BY <1>5, <3>1 DEF TablesInv, Roles
  <2> QED BY <2>1, <2>2
<1>7. h \in [Objs -> Entry] /\ \A o \in Objs : h[o] = heap[n][o] \/ h[o] = FreeEntry
  BY NodesTables, FreeEntryOK
<1>8. \A o \in Referenced(ents[n], idMap[n]) \cap Objs : h[o] = heap[n][o]
  OBVIOUS
<1> HIDE DEF h
<1>9. Safe(n)
  <2>1. CASE AlwaysServer(n)
    <3>1. TablesOK(heap[n], ents[n], idMap[n], idCount[n]) /\ NothingLeft(n)
      BY <2>1 DEF TablesInv, IInv, NodeOK
    <3>2. ents[n] \in [Names -> Objs \cup {Nil}] /\ idMap[n] \in [Ids -> Objs \cup {Nil}]
      BY NodesTables
    <3>3. TablesOK(h, ents[n], idMap[n], idCount[n]) /\ Kept(idMap[n], idCount[n], idMap[n], idCount[n])
      BY <1>7, <1>8, <3>1, <3>2, RemovalKeepsTables
    <3>4. r = resume[n]
      <4>1. r = [d \in Conns |-> r[d]]
        BY <1>3
      <4>2. \A d \in Conns : r[d] = resume[n][d]
        BY <1>6, <3>1 DEF NothingLeft
      <4> HIDE DEF r
      <4> QED BY <1>3, <4>1, <4>2
    <3>5. UNCHANGED resume
      BY <1>1, <3>4, NodesTables DEF OnNodes
    <3> QED BY <1>1, <1>2, <3>3, <3>5, TablesSafe DEF TablesInv
  <2>2. CASE ~ AlwaysServer(n)
    <3> HIDE DEF r
    <3>1. IInv /\ role' = role
      BY DEF TablesInv
    <3>3. AllOnNodes
      BY <3>1 DEF IInv
    <3>4. AllOnNodes'
      BY <1>1, <3>1, <3>3 DEF AllOnNodes, OnNodes
    <3>5. Elsewhere(n)
      BY <1>1, <3>1, <3>3 DEF Elsewhere, AllOnNodes, OnNodes
    <3> QED BY <2>2, <3>1, <3>4, <3>5 DEF Safe, AlwaysServer
  <2> QED BY <2>1, <2>2
<1>10. Resolves(n)'
  <2>1. ResolveOK(heap[n], ents[n], idMap[n])
    BY DEF TablesInv, RInv, Resolves
  <2>2. ASSUME NEW name \in Names, ents[n][name] # Nil
        PROVE  h[ents[n][name]] = heap[n][ents[n][name]]
    <3>1. ents[n][name] \in Objs /\ ents[n][name] \in Referenced(ents[n], idMap[n])
      BY <2>2, NodesTables DEF Referenced
    <3> QED BY <1>8, <3>1
  <2>3. ResolveOK(h, ents[n], idMap[n])
    BY <1>7, <2>1, <2>2, RemovalResolves DEF ResolveOK
  <2>4. ReadersOK(r)
    BY <1>3, <1>6 DEF ReadersOK
  <2> QED BY <1>4, <2>3, <2>4 DEF Resolves
<1>11. HasValues(n)'
  <2>1. Valued(heap[n])
    BY NodesTables DEF HasValues
  <2>2. Valued(h)
    BY <1>7, <2>1, MessagesAssumption DEF Valued, FreeEntry
  <2> QED BY <1>4, <1>6, <2>2 DEF HasValues
<1>12. NamesById(n, ClearEntries)
  <2>1. \A id \in Ids : idMap[n][id] # Nil =>
            idMap[n][id] \in Objs /\ idMap[n][id] \in Referenced(ents[n], idMap[n])
    BY NodesTables DEF Referenced
  <2> QED BY <1>4, <1>8, <2>1 DEF NamesById
<1>13. Hands(n, t)
  <2>1. <<>> \in Seq(Outs) /\ DOMAIN <<>> = {}
    OBVIOUS
  <2> QED BY <2>1 DEF Hands
<1> HIDE DEF r
<1> QED BY <1>4, <1>6, <1>9, <1>10, <1>11, <1>12, <1>13 DEF Works, Goes

\* A user's call ends.
LEMMA GivenUpWorks ==
  ASSUME TablesInv, NEW n \in Nodes, NEW t, hand' = [hand EXCEPT ![n][t] = <<>>],
         UNCHANGED <<role, heap, ents, idMap, idCount, resume>>
  PROVE  Works(n, t, ClearEntries)
<1>1. Safe(n)
  <2>1. /\ role' = [role EXCEPT ![n] = role[n]]
        /\ role[n] \in {"idle", "server"} => AlwaysServer(n)
    BY DEF TablesInv, IInv, AllOnNodes, OnNodes, AlwaysServer
  <2> QED BY <2>1, QuietSafe DEF TablesInv
<1>2. Resolves(n)'
  BY DEF TablesInv, RInv, Resolves
<1>3. Hands(n, t)
  <2>1. <<>> \in Seq(Outs) /\ DOMAIN <<>> = {}
    OBVIOUS
  <2> QED BY <2>1 DEF Hands
<1> QED BY <1>1, <1>2, <1>3, StayValues DEF Works, Goes

LEMMA RefusedKeeps ==
  ASSUME SyncInv, NEW n \in Nodes, NEW t \in Threads, Refused(n, t)
  PROVE  SyncInv'
<1> DEFINE out == Head(hand[n][t])
           targets == Targets(n, out.except)
           queued(c) == QueueOutgoing(pend[c][EndOf(n)], out.msg)
           faulty == {c \in targets : queued(c).fault}
<1>1. PICK first \in faulty, before \in SUBSET (targets \ faulty) :
         LET got == before \cup {first} IN
         /\ pend' = [c \in Conns |->
                       IF c \in got
                       THEN [pend[c] EXCEPT ![EndOf(n)] = [queued(c) EXCEPT !.fault = FALSE]]
                       ELSE pend[c]]
         /\ Displacing(n, out.msg, got)
  BY Zenon DEF Refused
<1> DEFINE got == before \cup {first}
           new == [c \in got |-> [queued(c) EXCEPT !.fault = FALSE]]
<1>2. /\ hand[n][t] # <<>> /\ hand' = [hand EXCEPT ![n][t] = <<>>]
      /\ UNCHANGED <<role, ents, idMap, idCount, state, wire, prepared>>
  BY DEF Refused
<1>3. \/ /\ t \in Conns
         /\ stopped' = [stopped EXCEPT ![t] = @ \cup {EndOf(n)}]
         /\ resume' = [resume EXCEPT ![n][t] = Nothing]
         /\ incoming' = IF n = Server THEN [incoming EXCEPT ![t] = <<>>] ELSE incoming
         /\ heap' = [heap EXCEPT ![n] =
               [o \in Objs |-> IF o \in Referenced(ents[n], idMap[n]) THEN @[o] ELSE FreeEntry]]
      \/ t \notin Conns /\ UNCHANGED <<stopped, resume, incoming, heap>>
  BY Zenon DEF Refused
<1>4. ThreadOf(n, t)
  BY <1>2 DEF SyncInv, TablesInv, Roles, ThreadOf, Threads
<1>5. out \in Outs /\ (n = Server => Honest(out.msg))
  <2>1. hand[n][t] \in Seq(Outs)
    BY DEF SyncInv, LinksInv, LinkTypes
  <2>2. Head(hand[n][t]) \in Outs /\ 1 \in DOMAIN hand[n][t] /\ Head(hand[n][t]) = hand[n][t][1]
    BY <1>2, <2>1
  <2> QED BY <2>2 DEF SyncInv, HonestInv, HandsHonest
<1>6. /\ TablesInv' /\ hand' \in [Nodes -> [Threads -> Seq(Outs)]] /\ FitsStay /\ HandsHonest'
      /\ \A c \in Conns : Bindings(c) => BindingsThen(c)
  <2>1. Works(n, t, ClearEntries)
    <3>1. TablesInv
      BY DEF SyncInv
    <3> QED BY <1>2, <1>3, <1>4, <3>1, EndedWorks, GivenUpWorks
  <2> QED BY <1>4, <2>1, WorkDone, ClearIsHonest DEF SyncInv, LinksInv, LinkTypes, HonestInv
<1>7. got \in SUBSET Conns
  <2>1. n # Server => n \in Conns
    BY ServerIsOne
  <2>2. targets \subseteq Conns
    BY <2>1 DEF Targets, ConnsOf
  <2> QED BY <2>2
<1>8. out.msg \in PeerMessages
  BY <1>5 DEF Outs
<1>9. Queued(n, out.msg, got, new)
  BY <1>1 DEF Queued
<1> HIDE DEF out, got, new
<1>10. /\ pend' \in [Conns -> [Ends -> Queues]] /\ displaced' \in SUBSET Conns
       /\ \A c \in Conns, end \in Ends : PlacesInList(pend'[c][end])
       /\ displaced \subseteq displaced'
       /\ \A c \in Conns \ displaced' : Own(pend[c].srv) => Own(pend'[c].srv)
  <2>1. LinkTypes
    BY DEF SyncInv, LinksInv
  <2> QED BY <1>5, <1>7, <1>8, <1>9, <2>1, QueuesKeep
<1>11. LinksInv'
  <2>1. LinkTypes
    BY DEF SyncInv, LinksInv
  <2>2. EndOf(n) \in Ends /\ (n = Server => EndOf(n) = "srv")
    BY DEF EndOf, Ends
  <2> DEFINE Lists == Seq(WireMessages)
  <2>3. incoming' \in [Conns -> Lists] /\ stopped' \in [Conns -> SUBSET Ends]
    <3>1. incoming \in [Conns -> Lists] /\ stopped \in [Conns -> SUBSET Ends] /\ <<>> \in Lists
      BY <2>1 DEF LinkTypes
    <3> HIDE DEF Lists
    <3>2. incoming' = incoming \/ \E c \in Conns : incoming' = [incoming EXCEPT ![c] = <<>>]
      BY <1>3
    <3>3. stopped' = stopped \/ \E c \in Conns : stopped' = [stopped EXCEPT ![c] = @ \cup {EndOf(n)}]
      BY <1>3
    <3> QED BY <2>2, <3>1, <3>2, <3>3
  <2>4. LinkTypes'
    BY <1>2, <1>6, <1>10, <2>1, <2>3 DEF LinkTypes
  <2>5. ASSUME NEW c \in Conns
        PROVE  Phase(c)' /\ Presented(c)'
    <3>1. Phase(c) /\ Presented(c)
      BY DEF SyncInv, LinksInv
    <3>2. \/ incoming'[c] = incoming[c]
          \/ incoming'[c] = <<>> /\ "srv" \in stopped'[c]
      <4>1. CASE t \in Conns
        <5>1. stopped'[t] = stopped[t] \cup {EndOf(n)}
          BY <1>3, <2>1, <4>1 DEF LinkTypes
        <5>2. incoming'[c] = IF n = Server /\ c = t THEN <<>> ELSE incoming[c]
          BY <1>3, <2>1, <4>1 DEF LinkTypes
        <5> QED BY <2>2, <5>1, <5>2
      <4> QED BY <1>3, <4>1
    <3>3. stopped[c] \subseteq stopped'[c]
      <4>1. CASE t \in Conns
        <5>1. stopped' = [stopped EXCEPT ![t] = stopped[t] \cup {EndOf(n)}]
          BY <1>3, <4>1
        <5>2. stopped'[c] = IF c = t THEN stopped[t] \cup {EndOf(n)} ELSE stopped[c]
          BY <2>1, <4>1, <5>1 DEF LinkTypes
        <5> QED BY <5>2
      <4> QED BY <1>3, <4>1
    <3> QED BY <1>2, <3>1, <3>2, <3>3 DEF Phase, Presented
  <2> QED BY <2>4, <2>5 DEF LinksInv
<1>12. ASSUME NEW c \in Conns \ displaced'
       PROVE  Honesty(c)'
  <2>1. Honesty(c)
    BY <1>10 DEF SyncInv, HonestInv
  <2>2. AllHonest(pend'[c].srv.list) /\ OwnPlaces(pend'[c].srv)
    BY <1>10, <2>1 DEF Honesty, Own
  <2> QED BY <1>2, <1>6, <2>1, <2>2, HonestyStays DEF Honesty, Bindings
<1>13. HonestInv'
  BY <1>6, <1>12 DEF HonestInv
<1> QED BY <1>6, <1>11, <1>13 DEF SyncInv
-----------------------------------------------------------------------------
(* Streams *)

\* What is posted of a list are messages of it.
LEMMA PostedMessages ==
  ASSUME NEW list \in Seq(PendingMessages), NEW order \in Ascending(Written(list))
  PROVE  LET posted == [i \in DOMAIN order |-> list[order[i]]] IN
         /\ posted \in Seq(WireMessages)
         /\ \A i \in DOMAIN posted : \E j \in DOMAIN list : posted[i] = list[j]
<1> DEFINE k == Cardinality(Written(list))
           posted == [i \in DOMAIN order |-> list[order[i]]]
<1>1. k \in Nat
  <2>1. IsFiniteSet(1 .. Len(list))
    BY FS_Interval
  <2>2. Written(list) \subseteq 1 .. Len(list)
    BY DEF Written
  <2> QED BY <2>1, <2>2, FS_Subset, FS_CardinalityType
<1>2. order \in [1 .. k -> Written(list)]
  BY DEF Ascending
<1> HIDE DEF k
<1>3. ASSUME NEW i \in 1 .. k
      PROVE  order[i] \in DOMAIN list /\ posted[i] = list[order[i]] /\ posted[i] \in WireMessages
  <2>1. order[i] \in DOMAIN list /\ list[order[i]].type # "Unknown"
    BY <1>2 DEF Written
  <2>2. list[order[i]] \in PendingMessages
    BY <2>1
  <2> QED BY <1>2, <2>1, <2>2, MessageKinds DEF PendingMessages, WireMessages
<1>4. DOMAIN posted = 1 .. k
  BY <1>2
<1>5. posted \in [1 .. k -> WireMessages]
  BY <1>3, <1>4
<1> QED BY <1>1, <1>3, <1>4, <1>5

\* An end that is up is up at both ends, or its handshake is still to be processed.
LEMMA ActiveEnds ==
  ASSUME SyncInv, NEW c \in Conns
  PROVE  /\ LinkTypes /\ Phase(c) /\ Presented(c)
         /\ state[c].srv = "Active" => state[c].cli = "Active"
         /\ state[c].cli \in {"Dead", "Handshake", "Synchronized", "Active"}
BY DEF SyncInv, LinksInv, LinkTypes, Phase, Ends

\* A step that leaves the tables and what is in hand alone.
LEMMA TablesAsTheyAre ==
  ASSUME SyncInv, UNCHANGED storageVars
  PROVE  /\ TablesInv' /\ HandsHonest' /\ FitsStay
         /\ hand' \in [Nodes -> [Threads -> Seq(Outs)]]
         /\ \A c \in Conns : Bindings(c) => BindingsThen(c)
<1>1. UNCHANGED <<role, heap, ents, idMap, idCount, hand, resume>>
  BY DEF storageVars
<1>2. TablesInv'
  BY <1>1 DEF SyncInv, TablesInv, IInv, AllOnNodes, OnNodes, AlwaysServer, NodeOK, NothingLeft,
     RInv, Resolves, Roles, HasValues
<1>3. FitsStay
  BY <1>1 DEF FitsStay, Fits, FitsThen
<1>4. HandsHonest'
  BY <1>1 DEF SyncInv, HonestInv, HandsHonest, Honest, Fits
<1>5. \A c \in Conns : Bindings(c) => BindingsThen(c)
  BY <1>1 DEF Bindings, BindingsThen, Fits, FitsThen
<1> QED BY <1>1, <1>2, <1>3, <1>4, <1>5 DEF SyncInv, LinksInv, LinkTypes

LEMMA PostOutgoingKeeps ==
  ASSUME SyncInv, NEW c \in Conns, NEW end \in Ends, PostOutgoing(c, end)
  PROVE  SyncInv'
<1>1. /\ state[c][end] = "Active"
      /\ pend' = [pend EXCEPT ![c][end] = EmptyQueue]
      /\ UNCHANGED <<storageVars, state, prepared, incoming, stopped, displaced>>
  BY DEF PostOutgoing, Post, historyVars
<1>2. PICK order \in Ascending(Written(pend[c][end].list)) :
         wire' = [wire EXCEPT ![c][Other(end)] =
                     @ \o [i \in DOMAIN order |-> pend[c][end].list[order[i]]]]
  BY DEF PostOutgoing, Post
<1> DEFINE list == pend[c][end].list
           posted == [i \in DOMAIN order |-> list[order[i]]]
           other == Other(end)
           longer == wire[c][other] \o posted
<1>3. LinkTypes /\ other \in Ends /\ list \in Seq(PendingMessages)
  BY ActiveEnds, QueueFields DEF LinkTypes, Other, Ends
<1>4. /\ posted \in Seq(WireMessages)
      /\ \A i \in DOMAIN posted : \E j \in DOMAIN list : posted[i] = list[j]
  BY <1>3, PostedMessages
<1>5. wire' = [wire EXCEPT ![c][other] = longer]
  BY <1>2
<1>6. /\ TablesInv' /\ HandsHonest' /\ FitsStay
      /\ hand' \in [Nodes -> [Threads -> Seq(Outs)]]
      /\ \A d \in Conns : Bindings(d) => BindingsThen(d)
  BY <1>1, TablesAsTheyAre
<1> HIDE DEF posted, other
<1>7. wire[c][other] \in Seq(WireMessages) /\ longer \in Seq(WireMessages)
  BY <1>3, <1>4 DEF LinkTypes
<1> HIDE DEF longer
<1>8. /\ \A d \in Conns, e \in Ends : wire'[d][e] = IF d = c /\ e = other THEN longer ELSE wire[d][e]
      /\ \A d \in Conns, e \in Ends : pend'[d][e] = IF d = c /\ e = end THEN EmptyQueue ELSE pend[d][e]
  BY <1>1, <1>3, <1>5 DEF LinkTypes
<1>9. LinkTypes'
  <2> DEFINE Lists == Seq(WireMessages)
  <2>1. wire \in [Conns -> [Ends -> Lists]] /\ longer \in Lists
    BY <1>3, <1>7 DEF LinkTypes
  <2> HIDE DEF Lists
  <2>2. [wire[c] EXCEPT ![other] = longer] \in [Ends -> Lists]
    BY <2>1
  <2>3. wire' \in [Conns -> [Ends -> Lists]]
    BY <1>5, <2>1, <2>2
  <2>4. pend' \in [Conns -> [Ends -> Queues]]
    <3>1. pend \in [Conns -> [Ends -> Queues]]
      BY <1>3 DEF LinkTypes
    <3>2. [pend[c] EXCEPT ![end] = EmptyQueue] \in [Ends -> Queues]
      BY <3>1, EmptyQueueType
    <3> QED BY <1>1, <3>1, <3>2
  <2>5. \A d \in Conns, e \in Ends : PlacesInList(pend'[d][e])
    BY <1>3, <1>8, EmptyQueueType DEF LinkTypes, Fine
  <2> QED BY <1>1, <1>3, <1>6, <2>3, <2>4, <2>5 DEF LinkTypes, Lists
<1>10. ASSUME NEW d \in Conns
       PROVE  Phase(d)' /\ Presented(d)'
  <2>1. Phase(d) /\ Presented(d)
    BY ActiveEnds
  <2>2. CASE d # c
    <3>1. wire'[d].srv = wire[d].srv /\ wire'[d].cli = wire[d].cli
      BY <1>8, <2>2 DEF Ends
    <3> QED BY <1>1, <2>1, <3>1 DEF Phase, Presented
  <2>3. CASE d = c
    <3>1. state[c].cli = "Active" /\ state[c].srv # "Dead"
      BY <1>1, <2>1, <2>3, ActiveEnds DEF Ends, Phase
    <3>2. wire'[c].srv = wire[c].srv \/ (end = "cli" /\ wire'[c].srv = longer /\ other = "srv")
      BY <1>8 DEF Ends, Other, other
    <3>3. Opens(wire[c].srv) => Opens(wire'[c].srv)
      BY <1>4, <1>7, <3>2, OpensWithMore DEF longer
    <3> QED BY <1>1, <2>1, <2>3, <3>1, <3>3 DEF Phase, Presented
  <2> QED BY <2>2, <2>3
<1>11. LinksInv'
  BY <1>9, <1>10 DEF LinksInv
<1>12. ASSUME NEW d \in Conns \ displaced
       PROVE  Honesty(d)'
  <2>1. Honesty(d)
    BY DEF SyncInv, HonestInv
  <2>2. AllHonest(pend'[d].srv.list) /\ OwnPlaces(pend'[d].srv)
    BY <1>8, <2>1, EmptyQueueType DEF Ends, Honesty, Own
  <2>3. AllHonest(wire'[d].cli)
    <3>1. CASE d = c /\ other = "cli"
      <4>1. end = "srv" /\ wire'[d].cli = longer
        BY <1>8, <3>1 DEF Ends, Other, other
      <4>2. AllHonest(posted)
        BY <1>4, <2>1, <3>1, <4>1 DEF Honesty, AllHonest
      <4>3. AllHonest(wire[c].cli) /\ wire[c].cli \in Seq(WireMessages)
        BY <1>7, <2>1, <3>1 DEF Honesty
      <4>4. AllHonest(wire[c].cli \o posted)
        <5>1. \A i \in DOMAIN (wire[c].cli \o posted) :
                 \/ i \in DOMAIN wire[c].cli /\ (wire[c].cli \o posted)[i] = wire[c].cli[i]
                 \/ i - Len(wire[c].cli) \in DOMAIN posted
                    /\ (wire[c].cli \o posted)[i] = posted[i - Len(wire[c].cli)]
          BY <1>4, <4>3
        <5> QED BY <4>2, <4>3, <5>1 DEF AllHonest
      <4> QED BY <3>1, <4>1, <4>4 DEF longer
    <3>2. CASE ~ (d = c /\ other = "cli")
      BY <1>8, <2>1, <3>2 DEF Ends, Honesty
    <3> QED BY <3>1, <3>2
  <2> QED BY <1>1, <1>6, <2>1, <2>2, <2>3, HonestyStays DEF Honesty, Bindings
<1>13. HonestInv'
  BY <1>1, <1>6, <1>12 DEF HonestInv
<1> QED BY <1>6, <1>11, <1>13 DEF SyncInv

\* What is read leaves the stream.
LEMMA ShorterStream ==
  ASSUME NEW s \in Seq(WireMessages), s # <<>>
  PROVE  /\ Head(s) \in WireMessages /\ Tail(s) \in Seq(WireMessages)
         /\ AllHonest(s) => Honest(Head(s)) /\ AllHonest(Tail(s))
<1>1. /\ Head(s) = s[1] /\ 1 \in DOMAIN s /\ Tail(s) \in Seq(WireMessages)
      /\ \A i \in DOMAIN Tail(s) : i + 1 \in DOMAIN s /\ Tail(s)[i] = s[i + 1]
  OBVIOUS
<1> QED BY <1>1 DEF AllHonest

LEMMA ReceiveKeeps ==
  ASSUME SyncInv, NEW c \in Conns, NEW end \in Ends, Receive(c, end)
  PROVE  SyncInv'
<1> DEFINE n == NodeAt(c, end)
           msg == Head(wire[c][end])
<1>1. /\ state[c][end] = "Active" /\ wire[c][end] # <<>>
      /\ ProcessIncoming(n, c, msg, TRUE)
      /\ wire' = [wire EXCEPT ![c][end] = Tail(wire[c][end])]
      /\ UNCHANGED <<state, pend, prepared, incoming, stopped, displaced>>
  BY DEF Receive, historyVars
<1>2. LinkTypes /\ wire[c][end] \in Seq(WireMessages)
  BY ActiveEnds DEF LinkTypes
<1>3. n \in Nodes /\ (n = Server \/ n = c) /\ c \in Threads /\ ThreadOf(n, c) /\ (n = c => end = "cli")
  BY ServerIsOne DEF NodeAt, Threads, ThreadOf, Ends
<1>4. msg \in WireMessages
  BY <1>1, <1>2, ShorterStream
<1>5. Works(n, c, msg)
  BY <1>1, <1>3, <1>4, ProcessIncomingWorks DEF SyncInv
<1>6. /\ TablesInv' /\ hand' \in [Nodes -> [Threads -> Seq(Outs)]] /\ FitsStay /\ HandsHonest'
      /\ \A d \in Conns : Bindings(d) /\ (d = n => Honest(msg)) => BindingsThen(d)
  BY <1>3, <1>5, WorkDone DEF SyncInv, LinksInv, LinkTypes, HonestInv
<1>7. Tail(wire[c][end]) \in Seq(WireMessages)
  BY <1>1, <1>2, ShorterStream
<1>8. \A d \in Conns, e \in Ends :
         wire'[d][e] = IF d = c /\ e = end THEN Tail(wire[c][end]) ELSE wire[d][e]
  BY <1>1, <1>2 DEF LinkTypes
<1> HIDE DEF n, msg
<1>9. LinkTypes'
  <2> DEFINE Lists == Seq(WireMessages)
  <2>1. wire \in [Conns -> [Ends -> Lists]] /\ Tail(wire[c][end]) \in Lists
    BY <1>2, <1>7 DEF LinkTypes
  <2> HIDE DEF Lists
  <2>2. [wire[c] EXCEPT ![end] = Tail(wire[c][end])] \in [Ends -> Lists]
    BY <2>1
  <2>3. wire' \in [Conns -> [Ends -> Lists]]
    BY <1>1, <2>1, <2>2
  <2> QED BY <1>1, <1>2, <1>6, <2>3 DEF LinkTypes, Lists
<1>10. ASSUME NEW d \in Conns
       PROVE  Phase(d)' /\ Presented(d)'
  <2>1. Phase(d) /\ Presented(d)
    BY ActiveEnds
  <2>2. CASE d # c
    <3>1. wire'[d].srv = wire[d].srv /\ wire'[d].cli = wire[d].cli
      BY <1>8, <2>2 DEF Ends
    <3> QED BY <1>1, <2>1, <3>1 DEF Phase, Presented
  <2>3. CASE d = c
    <3>1. state[c].cli = "Active" /\ state[c].srv # "Dead"
      BY <1>1, <2>1, <2>3, ActiveEnds DEF Ends, Phase
    <3>2. wire'[c].srv = wire[c].srv \/ state[c].srv = "Active"
      BY <1>1, <1>8 DEF Ends
    <3> QED BY <1>1, <2>1, <2>3, <3>1, <3>2 DEF Phase, Presented
  <2> QED BY <2>2, <2>3
<1>11. LinksInv'
  BY <1>9, <1>10 DEF LinksInv
<1>12. ASSUME NEW d \in Conns \ displaced
       PROVE  Honesty(d)'
  <2>1. Honesty(d)
    BY DEF SyncInv, HonestInv
  <2>2. AllHonest(wire'[d].cli) /\ (d = n => Honest(msg))
    <3>1. AllHonest(wire[d].cli)
      BY <2>1 DEF Honesty
    <3>2. CASE d = c /\ end = "cli"
      <4>1. Honest(msg) /\ AllHonest(Tail(wire[c][end]))
        BY <1>1, <1>2, <3>1, <3>2, ShorterStream DEF msg
      <4> QED BY <1>8, <3>2, <4>1 DEF Ends
    <3>3. CASE ~ (d = c /\ end = "cli")
      <4>1. d # n
        BY <1>3, <3>3, ServerIsOne
      <4> QED BY <1>8, <3>1, <3>3, <4>1 DEF Ends
    <3> QED BY <3>2, <3>3
  <2> QED BY <1>1, <1>6, <2>1, <2>2, HonestyStays DEF Honesty, Bindings
<1>13. HonestInv'
  BY <1>1, <1>6, <1>12 DEF HonestInv
<1> QED BY <1>6, <1>11, <1>13 DEF SyncInv
-----------------------------------------------------------------------------
(* The server's part of a handshake *)

LEMMA KnownIsFinite ==
  ASSUME TablesInv, NEW n \in Nodes
  PROVE  IsFiniteSet(KnownNames(n))
<1> DEFINE f == [name \in KnownNames(n) |-> ents[n][name]]
<1>1. \A name \in KnownNames(n) : ents[n][name] \in Objs /\ heap[n][ents[n][name]].name = name
  BY EntryValue DEF KnownNames, EntryOf
<1>2. f \in [KnownNames(n) -> Objs]
  BY <1>1
<1>3. IsInjective(f)
  BY <1>1 DEF IsInjective
<1>4. f \in Injection(KnownNames(n), Objs)
  BY <1>2, <1>3 DEF Injection
<1> QED BY <1>4, FS_Injection, StorageAssumption

\* A finite set can be put into an order, in which nothing comes twice.
LEMMA InSomeOrder ==
  ASSUME NEW S, IsFiniteSet(S)
  PROVE  /\ Cardinality(S) \in Nat
         /\ SetToSeq(S) \in [1 .. Cardinality(S) -> S] /\ IsInjective(SetToSeq(S))
<1>1. Cardinality(S) \in Nat /\ ExistsBijection(1 .. Cardinality(S), S)
  BY FS_CardinalityType
<1>2. PICK f \in Bijection(1 .. Cardinality(S), S) : TRUE
  BY <1>1 DEF ExistsBijection
<1>3. f \in [1 .. Cardinality(S) -> S] /\ IsInjective(f)
  BY <1>2 DEF Bijection, Injection
<1> QED BY <1>1, <1>3 DEF SetToSeq

\* Assignments, and the HelloDone that ends them.
LEMMA BatchOf ==
  ASSUME NEW k \in Nat, NEW f \in [1 .. k -> EntryAssigns]
  PROVE  LET s == Append(f, HelloDone) IN
         IsBatch(s) /\ Len(s) = k + 1 /\ \A i \in 1 .. k : s[i] = f[i]
<1> DEFINE s == Append(f, HelloDone)
<1>1. f \in Seq(WireMessages) /\ Len(f) = k /\ HelloDone \in WireMessages
  BY MessageKinds DEF WireMessages
<1>2. /\ s \in Seq(WireMessages) /\ Len(s) = k + 1 /\ s[k + 1] = HelloDone
      /\ \A i \in 1 .. k : s[i] = f[i]
  BY <1>1
<1> HIDE DEF s
<1>3. \A i \in 1 .. k : s[i] \in EntryAssigns
  BY <1>2
<1>4. IsBatch(s)
  <2>1. Len(s) - 1 = k /\ s # <<>>
    BY <1>2
  <2> QED BY <1>2, <1>3, <2>1 DEF IsBatch
<1> QED BY <1>2, <1>4 DEF s

\* What the server presents to a client gives ids to their names.
LEMMA PresentedEntries ==
  ASSUME TablesInv
  PROVE  LET table == InitialAssignments(Server) IN
         /\ DOMAIN table = KnownNames(Server)
         /\ \A name \in KnownNames(Server) :
               /\ table[name] \in EntryAssigns /\ table[name].str = name
               /\ table[name].id \in Ids /\ Honest(table[name])
         /\ \A a, b \in KnownNames(Server) : table[a].id = table[b].id => a = b
<1> DEFINE table == InitialAssignments(Server)
<1>1. NodeOK(Server) /\ Server \in Nodes
  BY ServerOwns, ServerIsOne
<1>2. ASSUME NEW name \in KnownNames(Server)
      PROVE  /\ name \in Names /\ ents[Server][name] # Nil
             /\ EntryOf(Server, name) \in Entry /\ EntryOf(Server, name).val \in Values
             /\ EntryOf(Server, name).name = name
             /\ EntryOf(Server, name).id \in Ids /\ EntryOf(Server, name).id < idCount[Server]
             /\ idMap[Server][EntryOf(Server, name).id] = ents[Server][name]
  <2>1. name \in Names /\ ents[Server][name] # Nil
    BY DEF KnownNames, Exists
  <2>2. EntryOf(Server, name) \in Entry /\ EntryOf(Server, name).val \in Values
    BY <1>1, <2>1, EntryValue DEF Exists
  <2> QED BY <1>1, <2>1, <2>2 DEF NodeOK, TablesOK, NamesHaveIds, EntryOf
<1>3. ASSUME NEW name \in KnownNames(Server)
      PROVE  /\ table[name] \in EntryAssigns /\ table[name].str = name
             /\ table[name].id = EntryOf(Server, name).id
  <2> DEFINE e == EntryOf(Server, name)
  <2>1. table[name] = EntryAssign(name, e.id, e.seq, e.val, e.flags)
    BY DEF InitialAssignments
  <2>2. e \in Entry /\ e.val \in Values /\ name \in Names
    BY <1>2
  <2> HIDE DEF e, table
  <2>3. e.id \in AnyId /\ e.seq \in SeqNums /\ e.flags \in BOOLEAN
    BY <2>2 DEF Entry
  <2>4. table[name] \in EntryAssigns
    BY <2>1, <2>2, <2>3, MadeForPeers
  <2> QED BY <2>1, <2>4 DEF EntryAssign, e
<1>4. DOMAIN table = KnownNames(Server)
  BY DEF InitialAssignments
<1> HIDE DEF table
<1>5. \A name \in KnownNames(Server) : Honest(table[name])
  BY <1>2, <1>3 DEF Honest, Fits, EntryOf
<1>6. \A a, b \in KnownNames(Server) : table[a].id = table[b].id => a = b
  <2> SUFFICES ASSUME NEW a \in KnownNames(Server), NEW b \in KnownNames(Server),
                      table[a].id = table[b].id
               PROVE  a = b
    OBVIOUS
  <2>1. ents[Server][a] = ents[Server][b]
    BY <1>2, <1>3
  <2> QED BY <1>2, <2>1 DEF EntryOf
<1> QED BY <1>2, <1>3, <1>4, <1>5, <1>6 DEF table

LEMMA AcceptKeeps ==
  ASSUME SyncInv, NEW c \in Conns, Accept(c)
  PROVE  SyncInv'
<1> DEFINE table == InitialAssignments(Server)
           order == SetToSeq(DOMAIN table)
           known == KnownNames(Server)
           k == Cardinality(known)
           f == [i \in DOMAIN order |-> table[order[i]]]
           batch == Append(f, HelloDone)
<1>1. /\ state[c] = [srv |-> "Dead", cli |-> "Dead"] /\ incoming[c] = <<>>
      /\ state' = [state EXCEPT ![c] = [srv |-> "Synchronized", cli |-> "Handshake"]]
      /\ prepared' = [prepared EXCEPT ![c].srv = batch]
      /\ stopped' = [stopped EXCEPT ![c] = {}]
      /\ UNCHANGED <<storageVars, pend, wire, incoming, displaced>>
  BY DEF Accept, historyVars
<1>2. LinkTypes /\ Phase(c)
  BY ActiveEnds
<1>3. /\ DOMAIN table = known
      /\ \A name \in known : /\ table[name] \in EntryAssigns /\ table[name].str = name
                             /\ table[name].id \in Ids /\ Honest(table[name])
      /\ \A a, b \in known : table[a].id = table[b].id => a = b
  BY PresentedEntries DEF SyncInv
<1> HIDE DEF table
<1>4. k \in Nat /\ order \in [1 .. k -> known] /\ IsInjective(order)
  BY <1>3, KnownIsFinite, InSomeOrder, ServerIsOne DEF SyncInv
<1> HIDE DEF order, known, k
<1>5. /\ f \in [1 .. k -> EntryAssigns]
      /\ \A i \in 1 .. k : f[i].id \in Ids /\ Honest(f[i])
      /\ \A i, j \in 1 .. k : f[i].str = f[j].str \/ f[i].id = f[j].id => i = j
  <2>1. \A i \in 1 .. k : f[i] = table[order[i]] /\ order[i] \in known
    BY <1>4
  <2>2. DOMAIN f = 1 .. k
    BY <1>4
  <2>3. \A i, j \in 1 .. k : order[i] = order[j] => i = j
    BY <1>4 DEF IsInjective
  <2>4. f = [i \in 1 .. k |-> f[i]]
    BY <2>2
  <2> HIDE DEF f
  <2>5. \A i \in 1 .. k : f[i] \in EntryAssigns /\ f[i].str = order[i] /\ f[i].id \in Ids /\ Honest(f[i])
    BY <1>3, <2>1
  <2>6. f \in [1 .. k -> EntryAssigns]
    BY <2>4, <2>5
  <2>7. ASSUME NEW i \in 1 .. k, NEW j \in 1 .. k, f[i].str = f[j].str \/ f[i].id = f[j].id
        PROVE  i = j
    BY <1>3, <2>1, <2>3, <2>5, <2>7
  <2> QED BY <2>5, <2>6, <2>7
<1> HIDE DEF f
<1>6. IsBatch(batch) /\ Len(batch) = k + 1 /\ \A i \in 1 .. k : batch[i] = f[i]
  BY <1>4, <1>5, BatchOf
<1> HIDE DEF batch
<1>7. batch \in Seq(WireMessages)
  BY <1>6 DEF IsBatch
<1>8. Presents(batch)
  <2>1. Len(batch) - 1 = k
    BY <1>4, <1>6
  <2> QED BY <1>5, <1>6, <2>1 DEF Presents
<1>9. AllHonest(batch)
  <2>1. \A i \in 1 .. k + 1 : i \in 1 .. k \/ i = k + 1
    BY <1>4
  <2>2. batch[k + 1] = HelloDone
    BY <1>6 DEF IsBatch
  <2>3. Honest(HelloDone)
    BY MessageKinds DEF Honest
  <2>4. DOMAIN batch = 1 .. k + 1
    BY <1>6, <1>7
  <2> QED BY <1>5, <1>6, <2>1, <2>2, <2>3, <2>4 DEF AllHonest
<1>10. /\ TablesInv' /\ HandsHonest' /\ FitsStay
       /\ hand' \in [Nodes -> [Threads -> Seq(Outs)]]
       /\ \A d \in Conns : Bindings(d) => BindingsThen(d)
  BY <1>1, TablesAsTheyAre
<1>11. /\ state'[c].srv = "Synchronized" /\ state'[c].cli = "Handshake"
       /\ prepared'[c].srv = batch /\ prepared'[c].cli = prepared[c].cli
       /\ \A d \in Conns : d # c => state'[d] = state[d] /\ prepared'[d] = prepared[d]
                                    /\ stopped'[d] = stopped[d]
  BY <1>1, <1>2 DEF LinkTypes, Ends
<1>12. LinkTypes'
  <2> DEFINE Lists == Seq(WireMessages)
  <2>1. prepared \in [Conns -> [Ends -> Lists]] /\ batch \in Lists
    BY <1>2, <1>7 DEF LinkTypes
  <2> HIDE DEF Lists
  <2>2. [prepared[c] EXCEPT !.srv = batch] \in [Ends -> Lists]
    BY <2>1
  <2>3. prepared' \in [Conns -> [Ends -> Lists]]
    BY <1>1, <2>1, <2>2
  <2>4. state' \in [Conns -> [Ends -> {"Dead", "Handshake", "Synchronized", "Active"}]]
    BY <1>1, <1>2 DEF LinkTypes, Ends
  <2> QED BY <1>1, <1>2, <1>10, <2>3, <2>4 DEF LinkTypes, Lists
<1>13. ASSUME NEW d \in Conns
       PROVE  Phase(d)' /\ Presented(d)'
  <2>1. Phase(d) /\ Presented(d)
    BY ActiveEnds
  <2>2. CASE d # c
    BY <1>1, <1>11, <2>1, <2>2 DEF Phase, Presented
  <2>3. CASE d = c
    <3>1. /\ wire[c].srv = <<>> /\ wire[c].cli = <<>> /\ prepared[c].cli = <<>>
      BY <1>1, <2>1, <2>3 DEF Phase
    <3>2. Presents(<<>>)
      BY DEF Presents
    <3>3. Phase(c)'
      BY <1>1, <1>6, <1>11, <3>1 DEF Phase
    <3>4. Presented(c)'
      BY <1>1, <1>8, <1>11, <3>1, <3>2 DEF Presented
    <3> QED BY <2>3, <3>3, <3>4
  <2> QED BY <2>2, <2>3
<1>14. LinksInv'
  BY <1>12, <1>13 DEF LinksInv
<1>15. ASSUME NEW d \in Conns \ displaced
       PROVE  Honesty(d)'
  <2>1. Honesty(d)
    BY DEF SyncInv, HonestInv
  <2>2. AllHonest(prepared'[d].srv)
    BY <1>9, <1>11, <2>1 DEF Honesty
  <2>3. state'[d].cli \in {"Synchronized", "Active"} => state[d].cli \in {"Synchronized", "Active"}
    BY <1>11
  <2> QED BY <1>1, <1>10, <2>1, <2>2, <2>3, HonestyStays DEF Honesty, Bindings
<1>16. HonestInv'
  BY <1>1, <1>10, <1>15 DEF HonestInv
<1> QED BY <1>10, <1>14, <1>16 DEF SyncInv
-----------------------------------------------------------------------------
(* What the two parts of a handshake send and read *)

LEMMA SendPreparedKeeps ==
  ASSUME SyncInv, NEW c \in Conns, NEW end \in Ends, SendPrepared(c, end)
  PROVE  SyncInv'
<1> DEFINE p == prepared[c][end]
           other == Other(end)
<1>1. /\ p # <<>>
      /\ wire' = [wire EXCEPT ![c][other] = @ \o p]
      /\ prepared' = [prepared EXCEPT ![c][end] = <<>>]
      /\ state' = IF end = "cli" THEN [state EXCEPT ![c].cli = "Active"] ELSE state
      /\ UNCHANGED <<storageVars, pend, incoming, stopped, displaced>>
  BY DEF SendPrepared, historyVars
<1>2. LinkTypes /\ Phase(c) /\ Presented(c)
  BY ActiveEnds
<1>3. /\ other \in Ends /\ (end = "srv" <=> other = "cli") /\ (end = "cli" <=> other = "srv")
      /\ p \in Seq(WireMessages)
  BY <1>2 DEF Other, Ends, LinkTypes
<1>4. /\ state[c].srv = "Synchronized" /\ incoming[c] = <<>>
      /\ wire[c][other] = <<>> /\ IsBatch(p)
      /\ end = "srv" => state[c].cli = "Handshake" /\ wire[c].srv = <<>> /\ prepared[c].cli = <<>>
      /\ end = "cli" => state[c].cli = "Synchronized" /\ wire[c].cli = <<>> /\ prepared[c].srv = <<>>
  <2>1. state[c].cli \in {"Dead", "Handshake", "Synchronized", "Active"}
    BY ActiveEnds
  <2>2. CASE end = "srv"
    <3>1. prepared[c].srv # <<>> /\ other = "cli" /\ p = prepared[c].srv
      BY <1>1, <1>3, <2>2
    <3> HIDE DEF p, other
    <3>2. state[c].cli = "Handshake"
      BY <1>2, <2>1, <3>1 DEF Phase
    <3>3. wire[c].cli = <<>> /\ IsBatch(prepared[c].srv)
      BY <1>2, <3>1, <3>2 DEF Phase
    <3> QED BY <1>2, <2>2, <3>1, <3>2, <3>3 DEF Phase
  <2>3. CASE end = "cli"
    <3>1. prepared[c].cli # <<>> /\ other = "srv" /\ p = prepared[c].cli
      BY <1>1, <1>3, <2>3
    <3> HIDE DEF p, other
    <3>2. state[c].cli = "Synchronized"
      BY <1>2, <2>1, <3>1 DEF Phase
    <3> QED BY <1>2, <2>3, <3>1, <3>2 DEF Phase
  <2> HIDE DEF p, other
  <2> QED BY <2>2, <2>3 DEF Ends
<1>5. wire' = [wire EXCEPT ![c][other] = p]
  <2>1. <<>> \o p = p
    BY <1>3
  <2> QED BY <1>1, <1>4, <2>1
<1> HIDE DEF p, other
<1>6. /\ \A d \in Conns, e \in Ends : wire'[d][e] = IF d = c /\ e = other THEN p ELSE wire[d][e]
      /\ \A d \in Conns, e \in Ends : prepared'[d][e] = IF d = c /\ e = end THEN <<>> ELSE prepared[d][e]
      /\ \A d \in Conns : state'[d].srv = state[d].srv
      /\ \A d \in Conns : state'[d].cli = IF d = c /\ end = "cli" THEN "Active" ELSE state[d].cli
  <2> DEFINE Lists == Seq(WireMessages)
             States == {"Dead", "Handshake", "Synchronized", "Active"}
  <2>1. /\ wire \in [Conns -> [Ends -> Lists]] /\ prepared \in [Conns -> [Ends -> Lists]]
        /\ state \in [Conns -> [Ends -> States]]
    BY <1>2 DEF LinkTypes
  <2> HIDE DEF Lists, States
  <2>2. \A d \in Conns, e \in Ends : wire'[d][e] = IF d = c /\ e = other THEN p ELSE wire[d][e]
    BY <1>3, <1>5, <2>1
  <2>3. \A d \in Conns, e \in Ends : prepared'[d][e] = IF d = c /\ e = end THEN <<>> ELSE prepared[d][e]
    BY <1>1, <2>1
  <2>4. CASE end = "cli"
    <3>1. state' = [state EXCEPT ![c].cli = "Active"]
      BY <1>1, <2>4
    <3>2. \A d \in Conns, e \in Ends :
             state'[d][e] = IF d = c /\ e = "cli" THEN "Active" ELSE state[d][e]
      BY <2>1, <3>1
    <3> QED BY <2>2, <2>3, <2>4, <3>2 DEF Ends
  <2>5. CASE end # "cli"
    BY <1>1, <2>2, <2>3, <2>5
  <2> QED BY <2>4, <2>5
<1>7. /\ TablesInv' /\ HandsHonest' /\ FitsStay
      /\ hand' \in [Nodes -> [Threads -> Seq(Outs)]]
      /\ \A d \in Conns : Bindings(d) => BindingsThen(d)
  BY <1>1, TablesAsTheyAre
<1>8. LinkTypes'
  <2> DEFINE Lists == Seq(WireMessages)
  <2>1. /\ wire \in [Conns -> [Ends -> Lists]] /\ prepared \in [Conns -> [Ends -> Lists]]
        /\ p \in Lists /\ <<>> \in Lists
    BY <1>2, <1>3 DEF LinkTypes
  <2> HIDE DEF Lists
  <2>2. [wire[c] EXCEPT ![other] = p] \in [Ends -> Lists]
        /\ [prepared[c] EXCEPT ![end] = <<>>] \in [Ends -> Lists]
    BY <2>1
  <2>3. wire' \in [Conns -> [Ends -> Lists]] /\ prepared' \in [Conns -> [Ends -> Lists]]
    BY <1>1, <1>5, <2>1, <2>2
  <2>4. state' \in [Conns -> [Ends -> {"Dead", "Handshake", "Synchronized", "Active"}]]
    BY <1>1, <1>2 DEF LinkTypes, Ends
  <2> QED BY <1>1, <1>2, <1>7, <2>3, <2>4 DEF LinkTypes, Lists
<1>9. ASSUME NEW d \in Conns
      PROVE  Phase(d)' /\ Presented(d)'
  <2>1. Phase(d) /\ Presented(d)
    BY ActiveEnds
  <2>2. CASE d # c
    <3>1. /\ wire'[d].srv = wire[d].srv /\ wire'[d].cli = wire[d].cli
          /\ prepared'[d].srv = prepared[d].srv /\ prepared'[d].cli = prepared[d].cli
          /\ state'[d].srv = state[d].srv /\ state'[d].cli = state[d].cli
      BY <1>6, <2>2 DEF Ends
    <3> QED BY <1>1, <2>1, <3>1 DEF Phase, Presented
  <2>3. CASE d = c /\ end = "srv"
    <3>1. /\ wire'[c].srv = <<>> /\ wire'[c].cli = p
          /\ prepared'[c].srv = <<>> /\ prepared'[c].cli = <<>>
          /\ state'[c].srv = "Synchronized" /\ state'[c].cli = "Handshake"
      BY <1>3, <1>4, <1>6, <2>3 DEF Ends
    <3>2. Presents(p) /\ Presents(<<>>)
      BY <1>2, <1>4, <2>3 DEF Presented, Presents, p
    <3>3. Phase(c)'
      BY <1>1, <1>4, <3>1 DEF Phase
    <3>4. Presented(c)'
      BY <3>1, <3>2 DEF Presented
    <3> QED BY <2>3, <3>3, <3>4
  <2>4. CASE d = c /\ end = "cli"
    <3>1. /\ wire'[c].srv = p /\ wire'[c].cli = <<>>
          /\ prepared'[c].srv = <<>> /\ prepared'[c].cli = <<>>
          /\ state'[c].srv = "Synchronized" /\ state'[c].cli = "Active"
      BY <1>3, <1>4, <1>6, <2>4 DEF Ends
    <3>2. Opens(p)
      BY <1>4, BatchIsWhole
    <3> QED BY <1>1, <1>4, <2>4, <3>1, <3>2 DEF Phase, Presented
  <2> QED BY <2>2, <2>3, <2>4 DEF Ends
<1>10. LinksInv'
  BY <1>8, <1>9 DEF LinksInv
<1>11. ASSUME NEW d \in Conns \ displaced
       PROVE  Honesty(d)'
  <2>1. Honesty(d)
    BY DEF SyncInv, HonestInv
  <2>2. AllHonest(wire'[d].cli)
    <3>1. CASE d = c /\ end = "srv"
      BY <1>3, <1>6, <2>1, <3>1 DEF Honesty, Ends, p
    <3>2. CASE ~ (d = c /\ end = "srv")
      BY <1>3, <1>6, <2>1, <3>2 DEF Honesty, Ends
    <3> QED BY <3>1, <3>2
  <2>3. AllHonest(prepared'[d].srv)
    <3>1. AllHonest(<<>>)
      BY DEF AllHonest
    <3> QED BY <1>6, <2>1, <3>1 DEF Honesty, Ends
  <2>4. state'[d].cli \in {"Synchronized", "Active"} => BindingsThen(d)
    BY <1>4, <1>6, <1>7, <2>1 DEF Honesty, Bindings
  <2> QED BY <1>1, <1>7, <2>1, <2>2, <2>3, <2>4, HonestyStays DEF Honesty
<1>12. HonestInv'
  BY <1>1, <1>7, <1>11 DEF HonestInv
<1> QED BY <1>7, <1>10, <1>12 DEF SyncInv

LEMMA ServerHandshakeKeeps ==
  ASSUME SyncInv, NEW c \in Conns, ServerHandshake(c)
  PROVE  SyncInv'
<1> DEFINE w == wire[c].srv
           done == BatchLength(w)
           read == SubSeq(w, 1, done)
           rest == SubSeq(w, done + 1, Len(w))
<1>1. /\ state[c].srv = "Synchronized" /\ incoming[c] = <<>> /\ "srv" \notin stopped[c] /\ done # 0
      /\ incoming' = [incoming EXCEPT ![c] = read]
      /\ wire' = [wire EXCEPT ![c].srv = rest]
      /\ UNCHANGED <<storageVars, state, pend, prepared, stopped, displaced>>
  BY DEF ServerHandshake, historyVars
<1>2. LinkTypes /\ Phase(c) /\ w \in Seq(WireMessages)
  BY ActiveEnds DEF LinkTypes, Ends
<1>3. state[c].cli = "Active"
  <2>1. state[c].cli \in {"Dead", "Handshake", "Synchronized", "Active"}
    BY ActiveEnds
  <2>2. w # <<>>
    BY <1>1, NoBatchEnds
  <2> QED BY <1>1, <1>2, <2>1, <2>2 DEF Phase
<1>4. PICK k \in 1 .. Len(w) : w[k] = HelloDone /\ \A i \in 1 .. k - 1 : w[i] \in EntryAssigns
  BY <1>1, <1>2, <1>3 DEF Phase, Opens
<1>5. done = k
  BY <1>2, <1>4, BatchEnds
<1> HIDE DEF w, done
<1>6. /\ read \in Seq(WireMessages) /\ rest \in Seq(WireMessages)
      /\ Len(read) = k /\ \A i \in 1 .. k : read[i] = w[i]
  <2>1. 1 \in Int /\ k + 1 \in 1 .. Len(w) + 1 /\ k \in 1 .. Len(w) /\ Len(w) \in Nat
    BY <1>2
  <2> QED BY <1>2, <1>5, <2>1
<1> HIDE DEF read, rest
<1>7. IsBatch(read)
  BY <1>4, <1>6 DEF IsBatch
<1>8. /\ TablesInv' /\ HandsHonest' /\ FitsStay
      /\ hand' \in [Nodes -> [Threads -> Seq(Outs)]]
      /\ \A d \in Conns : Bindings(d) => BindingsThen(d)
  BY <1>1, TablesAsTheyAre
<1>9. /\ incoming'[c] = read
      /\ \A d \in Conns : wire'[d].cli = wire[d].cli
      /\ \A d \in Conns : d # c => incoming'[d] = incoming[d] /\ wire'[d].srv = wire[d].srv
  BY <1>1, <1>2 DEF LinkTypes, Ends
<1>10. LinkTypes'
  <2> DEFINE Lists == Seq(WireMessages)
  <2>1. /\ wire \in [Conns -> [Ends -> Lists]] /\ incoming \in [Conns -> Lists]
        /\ read \in Lists /\ rest \in Lists
    BY <1>2, <1>6 DEF LinkTypes
  <2> HIDE DEF Lists
  <2>2. [wire[c] EXCEPT !.srv = rest] \in [Ends -> Lists]
    BY <2>1
  <2>3. wire' \in [Conns -> [Ends -> Lists]] /\ incoming' \in [Conns -> Lists]
    BY <1>1, <2>1, <2>2
  <2> QED BY <1>1, <1>2, <1>8, <2>3 DEF LinkTypes, Lists
<1>11. ASSUME NEW d \in Conns
       PROVE  Phase(d)' /\ Presented(d)'
  <2>1. Phase(d) /\ Presented(d)
    BY ActiveEnds
  <2>2. CASE d # c
    BY <1>1, <1>9, <2>1, <2>2 DEF Phase, Presented
  <2>3. CASE d = c
    <3>1. read # <<>>
      BY <1>7 DEF IsBatch
    <3> QED BY <1>1, <1>3, <1>7, <1>9, <2>1, <2>3, <3>1 DEF Phase, Presented
  <2> QED BY <2>2, <2>3
<1>12. LinksInv'
  BY <1>10, <1>11 DEF LinksInv
<1>13. ASSUME NEW d \in Conns \ displaced
       PROVE  Honesty(d)'
  <2>1. Honesty(d)
    BY DEF SyncInv, HonestInv
  <2> QED BY <1>1, <1>8, <1>9, <2>1, HonestyStays DEF Honesty, Bindings
<1>14. HonestInv'
  BY <1>1, <1>8, <1>13 DEF HonestInv
<1> QED BY <1>8, <1>12, <1>14 DEF SyncInv

LEMMA BatchShorter ==
  ASSUME NEW s, IsBatch(s)
  PROVE  /\ Head(s) = HelloDone => Tail(s) = <<>>
         /\ Head(s) # HelloDone => IsBatch(Tail(s))
<1> DEFINE l == Len(s)
           t == Tail(s)
<1>1. s \in Seq(WireMessages) /\ s # <<>>
  BY DEF IsBatch
<1>2. /\ l \in Nat \ {0} /\ Head(s) = s[1]
      /\ t \in Seq(WireMessages) /\ Len(t) = l - 1 /\ \A i \in 1 .. l - 1 : t[i] = s[i + 1]
  BY <1>1
<1>3. /\ s[l] = HelloDone
      /\ \A i \in 1 .. l - 1 : s[i] \in EntryAssigns
  BY DEF IsBatch
<1>4. Len(t) = 0 => t = <<>>
  <2>1. \A u \in Seq(WireMessages) : Len(u) = 0 => u = <<>>
    OBVIOUS
  <2> QED BY <1>2, <2>1
<1> HIDE DEF l, t
<1>5. CASE l = 1
  BY <1>2, <1>3, <1>4, <1>5 DEF t
<1>6. CASE l > 1
  <2>1. s[1] \in EntryAssigns /\ Head(s) # HelloDone
    BY <1>2, <1>3, <1>6, MessageKinds
  <2>2. l - 1 \in 1 .. l - 1 /\ (l - 1) + 1 = l
    BY <1>2, <1>6
  <2>3. t[Len(t)] = HelloDone
    BY <1>2, <1>3, <2>2
  <2>4. t # <<>>
    BY <1>2, <1>6, <2>2
  <2>5. \A i \in 1 .. Len(t) - 1 : t[i] \in EntryAssigns
    BY <1>2, <1>3
  <2>6. IsBatch(t)
    BY <1>2, <2>3, <2>4, <2>5 DEF IsBatch
  <2> QED BY <2>1, <2>6 DEF t
<1> QED BY <1>2, <1>5, <1>6

LEMMA ProcessInitialKeeps ==
  ASSUME SyncInv, NEW c \in Conns, ProcessInitial(c)
  PROVE  SyncInv'
<1> DEFINE s == incoming[c]
           msg == Head(s)
<1>1. /\ s # <<>> /\ ProcessIncoming(Server, c, msg, TRUE)
      /\ incoming' = [incoming EXCEPT ![c] = Tail(s)]
      /\ state' = IF msg = HelloDone /\ state[c].srv # "Dead"
                  THEN [state EXCEPT ![c].srv = "Active"] ELSE state
      /\ UNCHANGED <<pend, wire, prepared, stopped, displaced>>
  BY DEF ProcessInitial, historyVars
<1>2. LinkTypes /\ Phase(c) /\ s \in Seq(WireMessages) /\ IsBatch(s)
  BY <1>1, ActiveEnds DEF LinkTypes, Phase
<1>3. msg \in WireMessages /\ Tail(s) \in Seq(WireMessages)
  BY <1>1, <1>2, ShorterStream
<1>4. Server \in Nodes /\ c \in Threads /\ ThreadOf(Server, c) /\ Server # c
      /\ \A d \in Conns : d # Server
  BY ServerIsOne DEF Threads, ThreadOf
<1>5. Works(Server, c, msg)
  BY <1>1, <1>3, <1>4, ProcessIncomingWorks DEF SyncInv
<1>6. /\ TablesInv' /\ hand' \in [Nodes -> [Threads -> Seq(Outs)]] /\ FitsStay /\ HandsHonest'
      /\ \A d \in Conns : Bindings(d) => BindingsThen(d)
  BY <1>4, <1>5, WorkDone DEF SyncInv, LinksInv, LinkTypes, HonestInv
<1>7. msg = HelloDone \/ IsBatch(Tail(s))
  BY <1>2, BatchShorter
<1>8. msg = HelloDone => Tail(s) = <<>>
  BY <1>2, BatchShorter
<1> HIDE DEF s, msg
<1>9. /\ incoming'[c] = Tail(s)
      /\ \A d \in Conns : state'[d].cli = state[d].cli
      /\ \A d \in Conns : d # c => incoming'[d] = incoming[d] /\ state'[d].srv = state[d].srv
      /\ state'[c].srv = IF msg = HelloDone /\ state[c].srv # "Dead" THEN "Active" ELSE state[c].srv
  BY <1>1, <1>2 DEF LinkTypes, Ends
<1>10. LinkTypes'
  <2> DEFINE Lists == Seq(WireMessages)
  <2>1. incoming \in [Conns -> Lists] /\ Tail(s) \in Lists
    BY <1>2, <1>3 DEF LinkTypes
  <2> HIDE DEF Lists
  <2>2. incoming' \in [Conns -> Lists]
    BY <1>1, <2>1
  <2>3. state' \in [Conns -> [Ends -> {"Dead", "Handshake", "Synchronized", "Active"}]]
    BY <1>1, <1>2 DEF LinkTypes, Ends
  <2> QED BY <1>1, <1>2, <1>6, <2>2, <2>3 DEF LinkTypes, Lists
<1>11. ASSUME NEW d \in Conns
       PROVE  Phase(d)' /\ Presented(d)'
  <2>1. Phase(d) /\ Presented(d)
    BY ActiveEnds
  <2>2. CASE d # c
    BY <1>1, <1>9, <2>1, <2>2 DEF Phase, Presented
  <2>3. CASE d = c
    <3>1. state[c].cli \in {"Dead", "Active"}
      BY <1>1, <2>1, <2>3, ActiveEnds DEF Phase, s
    <3>2. CASE msg = HelloDone
      BY <1>1, <1>8, <1>9, <2>1, <2>3, <3>1, <3>2 DEF Phase, Presented
    <3>3. CASE msg # HelloDone
      <4>1. IsBatch(Tail(s)) /\ Tail(s) # <<>>
        BY <1>7, <3>3 DEF IsBatch
      <4> QED BY <1>1, <1>9, <2>1, <2>3, <3>1, <3>3, <4>1 DEF Phase, Presented
    <3> QED BY <3>2, <3>3
  <2> QED BY <2>2, <2>3
<1>12. LinksInv'
  BY <1>10, <1>11 DEF LinksInv
<1>13. ASSUME NEW d \in Conns \ displaced
       PROVE  Honesty(d)'
  <2>1. Honesty(d)
    BY DEF SyncInv, HonestInv
  <2> QED BY <1>1, <1>6, <1>9, <2>1, HonestyStays DEF Honesty, Bindings
<1>14. HonestInv'
  BY <1>1, <1>6, <1>13 DEF HonestInv
<1> QED BY <1>6, <1>12, <1>14 DEF SyncInv

LEMMA DropKeeps ==
  ASSUME SyncInv, NEW c \in Conns, Drop(c)
  PROVE  SyncInv'
<1>1. /\ state' = [state EXCEPT ![c] = [srv |-> "Dead", cli |-> "Dead"]]
      /\ pend' = [pend EXCEPT ![c] = [srv |-> EmptyQueue, cli |-> EmptyQueue]]
      /\ wire' = [wire EXCEPT ![c] = [srv |-> <<>>, cli |-> <<>>]]
      /\ prepared' = [prepared EXCEPT ![c] = [srv |-> <<>>, cli |-> <<>>]]
      /\ stopped' = [stopped EXCEPT ![c] = {}]
      /\ displaced' = displaced \ {c}
      /\ UNCHANGED <<storageVars, incoming>>
  BY DEF Drop, Gone
<1>2. LinkTypes
  BY ActiveEnds
<1>3. /\ TablesInv' /\ HandsHonest' /\ FitsStay
      /\ hand' \in [Nodes -> [Threads -> Seq(Outs)]]
      /\ \A d \in Conns : Bindings(d) => BindingsThen(d)
  BY <1>1, TablesAsTheyAre
<1>4. /\ state'[c].srv = "Dead" /\ state'[c].cli = "Dead"
      /\ wire'[c].srv = <<>> /\ wire'[c].cli = <<>>
      /\ prepared'[c].srv = <<>> /\ prepared'[c].cli = <<>>
      /\ pend'[c].srv = EmptyQueue /\ pend'[c].cli = EmptyQueue
      /\ \A d \in Conns : d # c => /\ state'[d] = state[d] /\ wire'[d] = wire[d]
                                   /\ prepared'[d] = prepared[d] /\ pend'[d] = pend[d]
                                   /\ stopped'[d] = stopped[d]
  BY <1>1, <1>2 DEF LinkTypes
<1>5. LinkTypes'
  <2> DEFINE Lists == Seq(WireMessages)
             none == [srv |-> <<>>, cli |-> <<>>]
             queues == [srv |-> EmptyQueue, cli |-> EmptyQueue]
  <2>1. /\ wire \in [Conns -> [Ends -> Lists]] /\ prepared \in [Conns -> [Ends -> Lists]]
        /\ <<>> \in Lists
    BY <1>2 DEF LinkTypes
  <2> HIDE DEF Lists
  <2>2. none \in [Ends -> Lists] /\ queues \in [Ends -> Queues]
    BY <2>1, EmptyQueueType DEF Ends
  <2> HIDE DEF none, queues
  <2>3. wire' \in [Conns -> [Ends -> Lists]] /\ prepared' \in [Conns -> [Ends -> Lists]]
    BY <1>1, <2>1, <2>2 DEF none
  <2>4. pend' \in [Conns -> [Ends -> Queues]]
    BY <1>1, <1>2, <2>2 DEF LinkTypes, queues
  <2>5. \A d \in Conns, e \in Ends : PlacesInList(pend'[d][e])
    BY <1>2, <1>4, EmptyQueueType DEF LinkTypes, Ends, Fine
  <2>6. state' \in [Conns -> [Ends -> {"Dead", "Handshake", "Synchronized", "Active"}]]
    BY <1>1, <1>2 DEF LinkTypes, Ends
  <2> QED BY <1>1, <1>2, <1>3, <2>3, <2>4, <2>5, <2>6 DEF LinkTypes, Lists
<1>6. ASSUME NEW d \in Conns
      PROVE  Phase(d)' /\ Presented(d)'
  <2>1. Phase(d) /\ Presented(d)
    BY ActiveEnds
  <2> QED BY <1>1, <1>4, <2>1 DEF Phase, Presented
<1>7. LinksInv'
  BY <1>5, <1>6 DEF LinksInv
<1>8. ASSUME NEW d \in Conns \ displaced'
      PROVE  Honesty(d)'
  <2>1. CASE d = c
    <3>1. AllHonest(<<>>)
      BY DEF AllHonest
    <3>2. AllHonest(EmptyQueue.list) /\ OwnPlaces(EmptyQueue)
      BY EmptyQueueType DEF Own
    <3> QED BY <1>3, <1>4, <2>1, <3>1, <3>2, HonestyStays
  <2>2. CASE d # c
    <3>1. Honesty(d)
      BY <1>1, <2>2 DEF SyncInv, HonestInv
    <3> QED BY <1>3, <1>4, <2>2, <3>1, HonestyStays DEF Honesty, Bindings
  <2> QED BY <2>1, <2>2
<1>9. HonestInv'
  BY <1>3, <1>8 DEF HonestInv
<1> QED BY <1>3, <1>7, <1>9 DEF SyncInv
-----------------------------------------------------------------------------
(* The client's part of a handshake *)

\* the assignments of a batch, and the table they make
Listed(w) == SubSeq(w, 1, BatchLength(w) - 1)

TableOf(w) ==
    [name \in {Listed(w)[i].str : i \in DOMAIN Listed(w)} |->
        Listed(w)[SelectInSeq(Listed(w), LAMBDA msg : msg.str = name)]]

\* A message that is the only one of its name is found by the name.
LEMMA FoundByName ==
  ASSUME NEW s \in Seq(EntryAssigns), NEW i \in 1 .. Len(s),
         \A j \in 1 .. Len(s) : s[j].str = s[i].str => j = i
  PROVE  SelectInSeq(s, LAMBDA msg : msg.str = s[i].str) = i
<1> DEFINE I == {j \in 1 .. Len(s) : s[j].str = s[i].str}
<1>1. SelectInSeq(s, LAMBDA msg : msg.str = s[i].str) = IF I # {} THEN Min(I) ELSE 0
  BY DEF SelectInSeq
<1>2. I = {i}
  OBVIOUS
<1>3. i \in Int /\ i <= i
  OBVIOUS
<1>4. Min({i}) = i
  BY <1>3 DEF Min
<1> QED BY <1>1, <1>2, <1>4

\* What a message is made of.
LEMMA AssignmentFields ==
  ASSUME NEW msg \in EntryAssigns
  PROVE  /\ msg.str \in Names /\ msg.id \in AnyId /\ msg.seq \in SeqNums
         /\ msg.val \in Values /\ msg.flags \in BOOLEAN
         /\ msg = EntryAssign(msg.str, msg.id, msg.seq, msg.val, msg.flags)
<1>1. PICK name \in Names, id \in AnyId, seq \in SeqNums, value \in Values, flags \in BOOLEAN :
         msg = EntryAssign(name, id, seq, value, flags)
  BY DEF EntryAssigns
<1> QED BY <1>1 DEF EntryAssign

\* A table is one a server presents, if its messages are of their names and have
\* ids of their own.
LEMMA IsPresentation ==
  ASSUME NEW named \in SUBSET Names, NEW table, table = [name \in named |-> table[name]],
         \A name \in named : /\ table[name] \in EntryAssigns /\ table[name].str = name
                             /\ table[name].id \in Ids,
         \A a, b \in named : table[a].id = table[b].id => a = b
  PROVE  table \in Presentations
<1> DEFINE columns == [id : Ids, seq : SeqNums, val : Values, flags : BOOLEAN]
           present(q) == [name \in DOMAIN q |->
                             EntryAssign(name, q[name].id, q[name].seq, q[name].val, q[name].flags)]
           distinct(q) == \A x, y \in DOMAIN q : q[x].id = q[y].id => x = y
           maps == UNION {[known -> columns] : known \in SUBSET Names}
           p == [name \in named |-> [id |-> table[name].id, seq |-> table[name].seq,
                                     val |-> table[name].val, flags |-> table[name].flags]]
<1>1. \A name \in named : p[name] \in columns /\ p[name].id = table[name].id
  BY AssignmentFields
<1>2. p \in [named -> columns]
  BY <1>1
<1>3. p \in maps /\ distinct(p)
  BY <1>1, <1>2
<1>4. \A name \in named :
         table[name] = EntryAssign(name, p[name].id, p[name].seq, p[name].val, p[name].flags)
  BY AssignmentFields
<1>5. present(p) = table
  BY <1>4
<1>6. Presentations = {present(q) : q \in {r \in maps : distinct(r)}}
  BY DEF Presentations
<1> HIDE DEF maps, p, present, distinct
<1> QED BY <1>3, <1>5, <1>6

\* What a client takes from a batch is a table a server presents.
LEMMA TakenTable ==
  ASSUME NEW w, IsBatch(w), Presents(w)
  PROVE  /\ BatchLength(w) = Len(w) /\ BatchLength(w) # 0
         /\ SubSeq(w, BatchLength(w) + 1, Len(w)) = <<>>
         /\ TableOf(w) \in Presentations
         /\ \A name \in DOMAIN TableOf(w) :
               /\ TableOf(w)[name].str = name /\ TableOf(w)[name].type = "EntryAssign"
               /\ \E i \in DOMAIN w : TableOf(w)[name] = w[i]
<1> DEFINE s == Listed(w)
           named == {s[i].str : i \in DOMAIN s}
           table == TableOf(w)
           l == Len(w)
<1>1. w \in Seq(WireMessages) /\ l \in Nat \ {0} /\ BatchLength(w) = l
  BY BatchIsWhole
<1>2. SubSeq(w, BatchLength(w) + 1, l) = <<>>
  <2>1. SubSeq(w, l + 1, l) \in Seq(WireMessages) /\ Len(SubSeq(w, l + 1, l)) = 0
    BY <1>1
  <2>2. \A u \in Seq(WireMessages) : Len(u) = 0 => u = <<>>
    OBVIOUS
  <2> QED BY <1>1, <2>1, <2>2
<1>3. /\ s \in Seq(EntryAssigns) /\ Len(s) = l - 1
      /\ \A i \in 1 .. l - 1 : s[i] = w[i] /\ s[i] \in EntryAssigns
  <2>1. s = [i \in 1 .. l - 1 |-> w[i]]
    BY <1>1 DEF Listed
  <2>2. \A i \in 1 .. l - 1 : w[i] \in EntryAssigns
    BY DEF IsBatch
  <2> HIDE DEF s, l
  <2>3. s \in [1 .. l - 1 -> EntryAssigns] /\ l - 1 \in Nat
    BY <1>1, <2>1, <2>2
  <2> QED BY <2>1, <2>2, <2>3
<1>4. \A i, j \in 1 .. l - 1 :
         s[i].id \in Ids /\ (s[i].str = s[j].str \/ s[i].id = s[j].id => i = j)
  BY <1>3 DEF Presents
<1>5. table = [name \in named |-> s[SelectInSeq(s, LAMBDA msg : msg.str = name)]]
  BY DEF TableOf
<1>6. DOMAIN s = 1 .. l - 1
  BY <1>3
<1> HIDE DEF s, l, table
<1>7. ASSUME NEW name \in named
      PROVE  \E i \in 1 .. l - 1 : table[name] = s[i] /\ s[i].str = name
  <2>1. PICK i \in 1 .. l - 1 : s[i].str = name
    BY <1>6
  <2>2. i \in 1 .. Len(s) /\ \A j \in 1 .. Len(s) : s[j].str = s[i].str => j = i
    BY <1>3, <1>4
  <2>3. SelectInSeq(s, LAMBDA msg : msg.str = s[i].str) = i
    BY <1>3, <2>2, FoundByName
  <2>4. SelectInSeq(s, LAMBDA msg : msg.str = name) = i
    BY <2>1, <2>3
  <2>5. table[name] = s[i]
    BY <1>5, <2>4
  <2> QED BY <2>1, <2>5
<1>8. named \subseteq Names
  BY <1>3, <1>6, AssignmentFields
<1>9. table = [name \in named |-> table[name]]
  BY <1>5
<1> HIDE DEF named
<1>10. \A name \in named : /\ table[name] \in EntryAssigns /\ table[name].str = name
                           /\ table[name].id \in Ids
  BY <1>3, <1>4, <1>7
<1>11. ASSUME NEW a \in named, NEW b \in named, table[a].id = table[b].id
       PROVE  a = b
  <2>1. PICK i \in 1 .. l - 1 : table[a] = s[i] /\ s[i].str = a
    BY <1>7
  <2>2. PICK j \in 1 .. l - 1 : table[b] = s[j] /\ s[j].str = b
    BY <1>7
  <2> QED BY <1>4, <1>11, <2>1, <2>2
<1>12. table \in Presentations
  BY <1>8, <1>9, <1>10, <1>11, IsPresentation
<1>13. ASSUME NEW name \in named
       PROVE  \E i \in DOMAIN w : table[name] = w[i]
  <2>1. PICK i \in 1 .. l - 1 : table[name] = s[i]
    BY <1>7
  <2>2. i \in DOMAIN w /\ s[i] = w[i]
    BY <1>1, <1>3 DEF l
  <2> QED BY <2>1, <2>2
<1>14. DOMAIN table = named
  BY <1>9
<1>15. \A name \in named : table[name].type = "EntryAssign"
  BY <1>10, MessageKinds
<1> QED BY <1>1, <1>2, <1>10, <1>12, <1>13, <1>14, <1>15 DEF l, table

\* A client has a finite part of its own to send.
LEMMA UnsentEntries ==
  ASSUME TablesInv, NEW n \in Nodes, NEW table
  PROVE  IsFiniteSet(Unsent(n, table)) /\ Unsent(n, table) \subseteq EntryAssigns
         /\ \A msg \in Unsent(n, table) : msg.id = Unassigned
<1> DEFINE own == KnownNames(n) \ DOMAIN table
           sent(name) == [InitialAssignments(n)[name] EXCEPT !.id = Unassigned]
           f == [name \in own |-> sent(name)]
<1>1. IsFiniteSet(own)
  BY KnownIsFinite, FS_Subset
<1>2. Unsent(n, table) = {sent(name) : name \in own}
  BY DEF Unsent
<1>3. ASSUME NEW name \in own
      PROVE  sent(name) \in EntryAssigns /\ sent(name).id = Unassigned
  <2> DEFINE e == EntryOf(n, name)
  <2>1. name \in Names /\ e \in Entry /\ e.val \in Values
    BY EntryValue DEF KnownNames
  <2>2. InitialAssignments(n)[name] = EntryAssign(name, e.id, e.seq, e.val, e.flags)
    BY DEF InitialAssignments
  <2> HIDE DEF e
  <2>3. sent(name) = EntryAssign(name, Unassigned, e.seq, e.val, e.flags)
    BY <2>2 DEF EntryAssign
  <2>4. e.seq \in SeqNums /\ e.flags \in BOOLEAN /\ Unassigned \in AnyId
    BY <2>1, MessagesAssumption DEF Entry, AnyId
  <2>5. EntryAssign(name, Unassigned, e.seq, e.val, e.flags) \in EntryAssigns
    BY <2>1, <2>4, MadeForPeers
  <2> HIDE DEF sent
  <2> QED BY <2>3, <2>5 DEF EntryAssign
<1> HIDE DEF own, sent
<1>4. f \in Surjection(own, {sent(name) : name \in own})
  BY DEF Surjection
<1>5. IsFiniteSet({sent(name) : name \in own})
  BY <1>1, <1>4, FS_Surjection
<1> QED BY <1>2, <1>3, <1>5
-----------------------------------------------------------------------------

\* A client that takes the server's table leaves the server's as it is.
LEMMA TakesTable ==
  ASSUME SyncInv, NEW c \in Conns, NEW table \in Presentations,
         TakesAll(c, c, table),
         \A name \in DOMAIN table : table[name].str = name /\ table[name].type = "EntryAssign"
  PROVE  /\ TablesInv' /\ HandsHonest' /\ FitsStay
         /\ hand' \in [Nodes -> [Threads -> Seq(Outs)]]
         /\ (\A name \in DOMAIN table : Honest(table[name])) => BindingsThen(c)
         /\ \A d \in Conns \ {c} : Bindings(d) => BindingsThen(d)
<1>1. TablesInv /\ hand \in [Nodes -> [Threads -> Seq(Outs)]] /\ HandsHonest
  BY DEF SyncInv, LinksInv, LinkTypes, HonestInv
<1>2. c \in Nodes /\ c # Server /\ Server \in Nodes /\ c \in Threads /\ ThreadOf(c, c)
  BY ServerIsOne DEF ThreadOf, Threads
<1>3. Safe(c)
  BY <1>1, <1>2, ApplyInitialAssignmentsSafe DEF TablesInv, TakesAll
<1>4. Resolves(c)'
  BY <1>1, <1>2, ApplyInitialAssignmentsResolves DEF TablesInv, TakesAll
<1>5. /\ HasValues(c)' /\ UNCHANGED <<role, resume>>
      /\ \E outs \in Seq(Outs) : hand' = [hand EXCEPT ![c][c] = outs]
      /\ \A id \in Ids : idMap'[c][id] # Nil =>
            \E name \in DOMAIN table :
               table[name].id = id /\ heap'[c][idMap'[c][id]].name = name
  <2>1. TookAll(c, c, table)
    BY <1>1, <1>2, <1>4, ApplyGoes
  <2> QED BY <2>1 DEF TookAll
<1>6. Steps(c, c)
  BY <1>3, <1>4, <1>5 DEF Steps
<1>7. TablesInv' /\ hand' \in [Nodes -> [Threads -> Seq(Outs)]]
  BY <1>1, <1>2, <1>6, TablesStay
<1>8. /\ heap'[Server] = heap[Server] /\ idMap'[Server] = idMap[Server]
      /\ idCount'[Server] = idCount[Server]
      /\ \A d \in Conns \ {c} : heap'[d] = heap[d] /\ idMap'[d] = idMap[d]
  BY <1>2, <1>3, ServerIsOne DEF Safe, Elsewhere
<1>9. FitsStay
  BY <1>8 DEF FitsStay, Fits, FitsThen
<1>10. HandsHonest'
  <2>1. Hands(c, c)
    BY <1>2, <1>5 DEF Hands
  <2> QED BY <1>1, <1>2, <1>7, <1>9, <2>1, HandsStayHonest
<1>11. ASSUME \A name \in DOMAIN table : Honest(table[name])
       PROVE  BindingsThen(c)
  <2> SUFFICES ASSUME NEW id \in Ids, idMap'[c][id] # Nil
               PROVE  FitsThen(id, heap'[c][idMap'[c][id]].name)
    BY DEF BindingsThen
  <2>1. PICK name \in DOMAIN table :
           table[name].id = id /\ heap'[c][idMap'[c][id]].name = name
    BY <1>5
  <2>2. Fits(id, name)
    BY <1>11, <2>1 DEF Honest
  <2> QED BY <1>9, <2>1, <2>2 DEF FitsStay
<1>12. ASSUME NEW d \in Conns \ {c}, Bindings(d)
       PROVE  BindingsThen(d)
  BY <1>8, <1>9, <1>12 DEF Bindings, BindingsThen, FitsStay
<1> QED BY <1>7, <1>9, <1>10, <1>11, <1>12

LEMMA ClientHandshakeKeeps ==
  ASSUME SyncInv, NEW c \in Conns, ClientHandshake(c)
  PROVE  SyncInv'
<1> DEFINE w == wire[c].cli
           done == BatchLength(w)
           rest == SubSeq(w, done + 1, Len(w))
           table == TableOf(w)
           unsent == Unsent(c, table)
           k == Cardinality(unsent)
<1>1. /\ state[c].cli = "Handshake" /\ done # 0
      /\ TakesAll(c, c, table)
      /\ wire' = [wire EXCEPT ![c].cli = rest]
      /\ state' = [state EXCEPT ![c].cli = "Synchronized"]
      /\ UNCHANGED <<pend, incoming, stopped, displaced>>
  BY Zenon DEF ClientHandshake, TableOf, Listed, TakesAll
<1>2. PICK order \in SetToSeqs(unsent) :
         prepared' = [prepared EXCEPT ![c].cli = Append(order, HelloDone)]
  BY Zenon DEF ClientHandshake, TableOf, Listed
<1>3. LinkTypes /\ Phase(c) /\ Presented(c) /\ TablesInv
  BY ActiveEnds DEF SyncInv
<1>4. w # <<>>
  BY <1>1, NoBatchEnds
<1>5. /\ IsBatch(w) /\ Presents(w)
      /\ state[c].srv = "Synchronized" /\ incoming[c] = <<>>
      /\ wire[c].srv = <<>> /\ prepared[c].srv = <<>>
  <2> HIDE DEF w
  <2>1. w = <<>> \/ (prepared[c].srv = <<>> /\ IsBatch(w))
    BY <1>1, <1>3 DEF Phase, w
  <2>2. Presents(w)
    BY <1>1, <1>3 DEF Presented, w
  <2> QED BY <1>1, <1>3, <1>4, <2>1, <2>2 DEF Phase
<1>6. /\ rest = <<>> /\ table \in Presentations
      /\ \A name \in DOMAIN table :
            /\ table[name].str = name /\ table[name].type = "EntryAssign"
            /\ \E i \in DOMAIN w : table[name] = w[i]
  BY <1>5, TakenTable
<1> HIDE DEF done, rest
<1>7. /\ unsent \subseteq EntryAssigns /\ IsFiniteSet(unsent)
      /\ \A msg \in unsent : msg.id = Unassigned
  BY <1>3, ServerIsOne, UnsentEntries
<1> HIDE DEF w, table, unsent
<1>8. k \in Nat /\ order \in [1 .. k -> EntryAssigns]
  BY <1>2, <1>7, FS_CardinalityType DEF SetToSeqs
<1> DEFINE batch == Append(order, HelloDone)
<1>9. IsBatch(batch)
  BY <1>8, BatchOf
<1> HIDE DEF k, batch
<1>10. batch \in Seq(WireMessages)
  BY <1>9 DEF IsBatch
<1>11. /\ \A d \in Conns, e \in Ends :
             /\ wire'[d][e] = IF d = c /\ e = "cli" THEN <<>> ELSE wire[d][e]
             /\ prepared'[d][e] = IF d = c /\ e = "cli" THEN batch ELSE prepared[d][e]
             /\ state'[d][e] = IF d = c /\ e = "cli" THEN "Synchronized" ELSE state[d][e]
       /\ wire' \in [Conns -> [Ends -> Seq(WireMessages)]]
       /\ prepared' \in [Conns -> [Ends -> Seq(WireMessages)]]
       /\ state' \in [Conns -> [Ends -> {"Dead", "Handshake", "Synchronized", "Active"}]]
  <2> DEFINE Lists == Seq(WireMessages)
             States == {"Dead", "Handshake", "Synchronized", "Active"}
  <2>1. /\ wire \in [Conns -> [Ends -> Lists]] /\ prepared \in [Conns -> [Ends -> Lists]]
        /\ state \in [Conns -> [Ends -> States]] /\ <<>> \in Lists /\ batch \in Lists
        /\ "Synchronized" \in States
    BY <1>3, <1>10 DEF LinkTypes
  <2>2. /\ wire' = [wire EXCEPT ![c].cli = <<>>]
        /\ prepared' = [prepared EXCEPT ![c].cli = batch]
        /\ state' = [state EXCEPT ![c].cli = "Synchronized"]
    BY <1>1, <1>2, <1>6 DEF batch
  <2> HIDE DEF Lists, States
  <2>3. /\ [wire[c] EXCEPT !.cli = <<>>] \in [Ends -> Lists]
        /\ [prepared[c] EXCEPT !.cli = batch] \in [Ends -> Lists]
        /\ [state[c] EXCEPT !.cli = "Synchronized"] \in [Ends -> States]
    BY <2>1
  <2>4. /\ wire' \in [Conns -> [Ends -> Lists]] /\ prepared' \in [Conns -> [Ends -> Lists]]
        /\ state' \in [Conns -> [Ends -> States]]
    BY <2>1, <2>2, <2>3
  <2>5. \A d \in Conns, e \in Ends : wire'[d][e] = IF d = c /\ e = "cli" THEN <<>> ELSE wire[d][e]
    BY <2>1, <2>2
  <2>6. \A d \in Conns, e \in Ends : prepared'[d][e] = IF d = c /\ e = "cli" THEN batch ELSE prepared[d][e]
    BY <2>1, <2>2
  <2>7. \A d \in Conns, e \in Ends : state'[d][e] = IF d = c /\ e = "cli" THEN "Synchronized" ELSE state[d][e]
    BY <2>1, <2>2
  <2> QED BY <2>4, <2>5, <2>6, <2>7 DEF Lists, States
<1>12. /\ wire'[c].srv = <<>> /\ wire'[c].cli = <<>>
       /\ prepared'[c].srv = <<>> /\ prepared'[c].cli = batch
       /\ state'[c].srv = "Synchronized" /\ state'[c].cli = "Synchronized"
       /\ \A d \in Conns : d # c => /\ wire'[d].srv = wire[d].srv /\ wire'[d].cli = wire[d].cli
                                    /\ prepared'[d].srv = prepared[d].srv
                                    /\ prepared'[d].cli = prepared[d].cli
                                    /\ state'[d].srv = state[d].srv /\ state'[d].cli = state[d].cli
  BY <1>5, <1>11 DEF Ends
<1>13. ASSUME NEW d \in Conns
       PROVE  Phase(d)' /\ Presented(d)'
  <2>1. Phase(d) /\ Presented(d)
    BY ActiveEnds
  <2>2. CASE d # c
    BY <1>1, <1>12, <2>1, <2>2 DEF Phase, Presented
  <2>3. CASE d = c
    BY <1>1, <1>5, <1>9, <1>12, <2>3 DEF Phase, Presented
  <2> QED BY <2>2, <2>3
<1>14. /\ TablesInv' /\ HandsHonest' /\ FitsStay
       /\ hand' \in [Nodes -> [Threads -> Seq(Outs)]]
       /\ (\A name \in DOMAIN table : Honest(table[name])) => BindingsThen(c)
       /\ \A d \in Conns \ {c} : Bindings(d) => BindingsThen(d)
  BY <1>1, <1>6, TakesTable
<1>15. LinksInv'
  <2>1. LinkTypes'
    BY <1>1, <1>3, <1>11, <1>14 DEF LinkTypes
  <2> QED BY <1>13, <2>1 DEF LinksInv
<1>16. ASSUME NEW d \in Conns \ displaced
       PROVE  Honesty(d)'
  <2>1. Honesty(d) /\ AllHonest(<<>>)
    BY DEF SyncInv, HonestInv, AllHonest
  <2>2. CASE d = c
    <3>1. AllHonest(w)
      BY <2>1, <2>2 DEF Honesty, w
    <3>2. BindingsThen(c)
      BY <1>6, <1>14, <3>1 DEF AllHonest
    <3> QED BY <1>1, <1>5, <1>12, <1>14, <2>1, <2>2, <3>2, HonestyStays DEF Honesty
  <2>3. CASE d # c
    BY <1>1, <1>12, <1>14, <2>1, <2>3, HonestyStays DEF Honesty, Bindings
  <2> QED BY <2>2, <2>3
<1>17. HonestInv'
  BY <1>1, <1>14, <1>16 DEF HonestInv
<1> QED BY <1>14, <1>15, <1>17 DEF SyncInv
-----------------------------------------------------------------------------
(* Starting, once and again *)

LEMMA EmptyIsFine ==
  LET h == [o \in Objs |-> FreeEntry]
      e == [name \in Names |-> Nil]
      m == [id \in Ids |-> Nil]
  IN TablesOK(h, e, m, 0) /\ ResolveOK(h, e, m) /\ Valued(h)
<1> DEFINE h == [o \in Objs |-> FreeEntry]
           e == [name \in Names |-> Nil]
           m == [id \in Ids |-> Nil]
<1>1. h \in [Objs -> Entry] /\ 0 \in AnyId
  BY FreeEntryOK, MessagesAssumption DEF AnyId
<1>2. e \in [Names -> Objs \cup {Nil}] /\ m \in [Ids -> Objs \cup {Nil}]
  OBVIOUS
<1>3. TablesOK(h, e, m, 0)
  BY <1>1, <1>2 DEF TablesOK, TablesType, NamesHaveIds, IdsHaveNames
<1>4. ResolveOK(h, e, m)
  BY <1>1, <1>2 DEF ResolveOK, NamesResolve
<1>5. Valued(h)
  BY MessagesAssumption DEF Valued, FreeEntry
<1> QED BY <1>3, <1>4, <1>5

\* A connection that is not there.
LEMMA NoConnection ==
  ASSUME NEW c \in Conns, state[c] = [srv |-> "Dead", cli |-> "Dead"],
         pend[c] = [srv |-> EmptyQueue, cli |-> EmptyQueue],
         wire[c] = [srv |-> <<>>, cli |-> <<>>], prepared[c] = [srv |-> <<>>, cli |-> <<>>],
         incoming[c] = <<>>
  PROVE  Phase(c) /\ Presented(c) /\ Honesty(c)
<1>1. AllHonest(<<>>) /\ AllHonest(EmptyQueue.list) /\ OwnPlaces(EmptyQueue)
  BY EmptyQueueType DEF AllHonest, Own
<1> QED BY <1>1 DEF Phase, Presented, Honesty

NoLinks ==
    /\ state = [c \in Conns |-> [srv |-> "Dead", cli |-> "Dead"]]
    /\ pend = [c \in Conns |-> [srv |-> EmptyQueue, cli |-> EmptyQueue]]
    /\ wire = [c \in Conns |-> [srv |-> <<>>, cli |-> <<>>]]
    /\ prepared = [c \in Conns |-> [srv |-> <<>>, cli |-> <<>>]]
    /\ incoming = [c \in Conns |-> <<>>]
    /\ stopped = [c \in Conns |-> {}] /\ displaced = {}

NothingSent == hand \in [Nodes -> [Threads -> Seq(Outs)]] /\ HandsHonest

LEMMA NoConnections == NoLinks /\ NothingSent => LinksInv /\ HonestInv
<1> SUFFICES ASSUME NoLinks, NothingSent PROVE LinksInv /\ HonestInv
  OBVIOUS
<1> DEFINE Lists == Seq(WireMessages)
           none == [srv |-> <<>>, cli |-> <<>>]
           queues == [srv |-> EmptyQueue, cli |-> EmptyQueue]
           dead == [srv |-> "Dead", cli |-> "Dead"]
<1>1. \A c \in Conns : Phase(c) /\ Presented(c) /\ Honesty(c)
  BY NoConnection DEF NoLinks
<1>2. <<>> \in Lists
  OBVIOUS
<1> HIDE DEF Lists
<1>3. none \in [Ends -> Lists] /\ queues \in [Ends -> Queues]
      /\ dead \in [Ends -> {"Dead", "Handshake", "Synchronized", "Active"}]
  BY <1>2, EmptyQueueType DEF Ends
<1>4. \A c \in Conns, end \in Ends : pend[c][end] = EmptyQueue
  BY DEF NoLinks, Ends
<1>5. \A c \in Conns, end \in Ends : PlacesInList(pend[c][end])
  BY <1>4, EmptyQueueType DEF Fine
<1> HIDE DEF none, queues, dead
<1>6. /\ wire \in [Conns -> [Ends -> Lists]] /\ prepared \in [Conns -> [Ends -> Lists]]
      /\ pend \in [Conns -> [Ends -> Queues]] /\ incoming \in [Conns -> Lists]
      /\ state \in [Conns -> [Ends -> {"Dead", "Handshake", "Synchronized", "Active"}]]
  BY <1>2, <1>3 DEF NoLinks, none, queues, dead
<1>7. LinkTypes
  BY <1>5, <1>6 DEF NoLinks, NothingSent, LinkTypes, Lists
<1> QED BY <1>1, <1>7 DEF LinksInv, HonestInv, NothingSent

LEMMA InitSyncInv == SyncInit => SyncInv
<1> SUFFICES ASSUME SyncInit PROVE SyncInv
  OBVIOUS
<1>1. /\ EmptyTables /\ role = [n \in Nodes |-> IF n = Server THEN "server" ELSE "client"]
      /\ state = [c \in Conns |-> [srv |-> "Dead", cli |-> "Dead"]]
      /\ pend = [c \in Conns |-> [srv |-> EmptyQueue, cli |-> EmptyQueue]]
      /\ wire = [c \in Conns |-> [srv |-> <<>>, cli |-> <<>>]]
      /\ prepared = [c \in Conns |-> [srv |-> <<>>, cli |-> <<>>]]
      /\ incoming = [c \in Conns |-> <<>>]
      /\ stopped = [c \in Conns |-> {}] /\ displaced = {}
  BY DEF SyncInit
<1>2. ASSUME NEW n \in Nodes
      PROVE  /\ heap[n] = [o \in Objs |-> FreeEntry] /\ ents[n] = [name \in Names |-> Nil]
             /\ idMap[n] = [id \in Ids |-> Nil] /\ idCount[n] = 0
             /\ hand[n] = [t \in Threads |-> <<>>] /\ resume[n] = [c \in Conns |-> Nothing]
  BY <1>1 DEF EmptyTables
<1>3. AllOnNodes
  BY <1>1 DEF EmptyTables, AllOnNodes, OnNodes
<1>4. IInv
  BY <1>2, <1>3, EmptyIsFine DEF IInv, NodeOK, NothingLeft
<1>5. RInv
  BY <1>2, EmptyIsFine DEF RInv, Resolves, ReadersOK
<1>6. \A n \in Nodes : HasValues(n)
  BY <1>2, EmptyIsFine DEF HasValues
<1>7. Roles
  BY <1>1, <1>2, ServerIsOne DEF Roles, Threads
<1>8. hand \in [Nodes -> [Threads -> Seq(Outs)]] /\ HandsHonest
  <2> DEFINE Lists == Seq(Outs)
  <2>1. <<>> \in Lists
    OBVIOUS
  <2> HIDE DEF Lists
  <2>2. hand \in [Nodes -> [Threads -> Lists]]
    BY <1>1, <2>1 DEF EmptyTables
  <2>3. \A t \in Threads : hand[Server][t] = <<>>
    BY <1>2, ServerIsOne
  <2> QED BY <2>2, <2>3 DEF Lists, HandsHonest
<1>9. LinksInv /\ HonestInv
  BY <1>1, <1>8, NoConnections DEF NoLinks, NothingSent
<1> QED BY <1>4, <1>5, <1>6, <1>7, <1>9 DEF SyncInv, TablesInv

LEMMA RestartKeeps ==
  ASSUME SyncInv, Restart
  PROVE  SyncInv'
<1>1. /\ heap' = [heap EXCEPT ![Server] = [o \in Objs |-> FreeEntry]]
      /\ ents' = [ents EXCEPT ![Server] = [name \in Names |-> Nil]]
      /\ idMap' = [idMap EXCEPT ![Server] = [id \in Ids |-> Nil]]
      /\ idCount' = [idCount EXCEPT ![Server] = 0]
      /\ hand' = [hand EXCEPT ![Server] = [t \in Threads |-> <<>>]]
      /\ UNCHANGED <<role, resume>>
  BY DEF Restart
<1>2. /\ state' = [c \in Conns |-> [srv |-> "Dead", cli |-> "Dead"]]
      /\ pend' = [c \in Conns |-> [srv |-> EmptyQueue, cli |-> EmptyQueue]]
      /\ wire' = [c \in Conns |-> [srv |-> <<>>, cli |-> <<>>]]
      /\ prepared' = [c \in Conns |-> [srv |-> <<>>, cli |-> <<>>]]
      /\ incoming' = [c \in Conns |-> <<>>]
      /\ stopped' = [c \in Conns |-> {}] /\ displaced' = {}
  BY DEF Restart
<1>3. TablesInv /\ hand \in [Nodes -> [Threads -> Seq(Outs)]] /\ Server \in Nodes
  BY ServerIsOne DEF SyncInv, LinksInv, LinkTypes
<1>4. AllOnNodes /\ IInv /\ RInv /\ Roles /\ \A n \in Nodes : HasValues(n)
  BY <1>3 DEF TablesInv, IInv
<1>5. /\ heap'[Server] = [o \in Objs |-> FreeEntry] /\ ents'[Server] = [name \in Names |-> Nil]
      /\ idMap'[Server] = [id \in Ids |-> Nil] /\ idCount'[Server] = 0
      /\ \A n \in Nodes \ {Server} : /\ heap'[n] = heap[n] /\ ents'[n] = ents[n]
                                     /\ idMap'[n] = idMap[n] /\ idCount'[n] = idCount[n]
  BY <1>1, <1>3, <1>4 DEF AllOnNodes, OnNodes
<1>6. AllOnNodes'
  BY <1>1, <1>4 DEF AllOnNodes, OnNodes
<1>7. IInv'
  <2>1. ASSUME NEW n \in Nodes, AlwaysServer(n)'
        PROVE  NodeOK(n)' /\ NothingLeft(n)'
    <3>1. AlwaysServer(n) /\ n = Server
      BY <1>1, <1>4, <2>1, WhoServes DEF AlwaysServer
    <3>2. NothingLeft(n)'
      BY <1>1, <1>4, <3>1 DEF IInv, NothingLeft
    <3>3. NodeOK(n)'
      BY <1>5, <3>1, EmptyIsFine DEF NodeOK
    <3> QED BY <3>2, <3>3
  <2> QED BY <1>6, <2>1 DEF IInv
<1>8. RInv'
  <2>1. ASSUME NEW n \in Nodes
        PROVE  Resolves(n)'
    <3>1. Resolves(n)
      BY <1>4 DEF RInv
    <3>2. CASE n = Server
      BY <1>1, <1>5, <3>1, <3>2, EmptyIsFine DEF Resolves
    <3>3. CASE n # Server
      BY <1>1, <1>5, <3>1, <3>3 DEF Resolves
    <3> QED BY <3>2, <3>3
  <2> QED BY <2>1 DEF RInv
<1>9. ASSUME NEW n \in Nodes
      PROVE  HasValues(n)'
  <2>1. CASE n = Server
    <3>1. Valued(heap'[Server])
      BY <1>5, EmptyIsFine
    <3>2. \A c \in Conns : resume'[Server][c] = Nothing
      BY <1>1, <1>3, <1>4, ServerIsOne DEF Roles
    <3> QED BY <2>1, <3>1, <3>2 DEF HasValues
  <2>2. CASE n # Server
    BY <1>1, <1>4, <1>5, <2>2 DEF HasValues
  <2> QED BY <2>1, <2>2
<1>10. Roles'
  BY <1>1, <1>3, <1>4 DEF Roles
<1>11. hand' \in [Nodes -> [Threads -> Seq(Outs)]] /\ HandsHonest'
  <2> DEFINE Lists == Seq(Outs)
  <2>1. <<>> \in Lists /\ hand \in [Nodes -> [Threads -> Lists]]
    BY <1>3
  <2> HIDE DEF Lists
  <2>2. hand' \in [Nodes -> [Threads -> Lists]]
    BY <1>1, <2>1
  <2>3. \A t \in Threads : hand'[Server][t] = <<>>
    BY <1>1, <1>3
  <2> QED BY <2>2, <2>3 DEF Lists, HandsHonest
<1>12. LinksInv' /\ HonestInv'
  <2>1. NoLinks' /\ NothingSent'
    BY <1>2, <1>11 DEF NoLinks, NothingSent
  <2> QED BY <2>1, NoConnections, PTL
<1> QED BY <1>7, <1>8, <1>9, <1>10, <1>12 DEF SyncInv, TablesInv
-----------------------------------------------------------------------------
LEMMA NextSyncInv == SyncInv /\ [SyncNext]_syncVars => SyncInv'
<1> SUFFICES ASSUME SyncInv, [SyncNext]_syncVars PROVE SyncInv'
  OBVIOUS
<1>1. ASSUME NEW n \in Nodes, NEW u \in Users, Call(n, u)
      PROVE  SyncInv'
  BY <1>1, CallKeeps
<1>2. ASSUME NEW n \in Nodes, NEW t \in Threads, QueueToAll(n, t) \/ Refused(n, t)
      PROVE  SyncInv'
  BY <1>2, QueueToAllKeeps, RefusedKeeps
<1>3. ASSUME NEW c \in Conns, NEW end \in Ends,
             PostOutgoing(c, end) \/ Receive(c, end) \/ SendPrepared(c, end)
      PROVE  SyncInv'
  BY <1>3, PostOutgoingKeeps, ReceiveKeeps, SendPreparedKeeps
<1>4. ASSUME NEW c \in Conns,
             \/ Resume(c) \/ Accept(c) \/ ClientHandshake(c)
             \/ ServerHandshake(c) \/ ProcessInitial(c) \/ Drop(c)
      PROVE  SyncInv'
  BY <1>4, ResumeKeeps, AcceptKeeps, ClientHandshakeKeeps, ServerHandshakeKeeps,
     ProcessInitialKeeps, DropKeeps
<1>5. CASE Restart
  BY <1>5, RestartKeeps
<1>6. CASE UNCHANGED syncVars
  <2>1. UNCHANGED <<storageVars, linkVars, displaced>>
    BY <1>6 DEF syncVars, historyVars
  <2>2. /\ TablesInv' /\ HandsHonest' /\ FitsStay
        /\ \A c \in Conns : Bindings(c) => BindingsThen(c)
    BY <2>1, TablesAsTheyAre
  <2>3. LinksInv'
    BY <2>1, LinksStay DEF SyncInv, LinksInv, LinkTypes, linkVars, storageVars
  <2>4. HonestInv'
    BY <2>1, <2>2, HonestyStays DEF SyncInv, HonestInv, Honesty, Bindings, linkVars
  <2> QED BY <2>2, <2>3, <2>4 DEF SyncInv
<1> QED BY <1>1, <1>2, <1>3, <1>4, <1>5, <1>6 DEF SyncNext

\* The server and its clients keep what each has and what is between them as it
\* is described above, whatever users call, messages are lost with their connection
\* and however often the server starts again.
THEOREM SyncInvariance == SyncSpec => []SyncInv
BY InitSyncInv, NextSyncInv, PTL DEF SyncSpec

\* An end that is in its handshake reads nothing but assignments up to the HelloDone
\* (ReceiveInitial and ServerHandshake in DispatcherBase.cs hang up at anything else).
THEOREM HandshakeUndisturbedHolds == SyncSpec => []HandshakeUndisturbed
<1>1. SyncInv => HandshakeUndisturbed
  <2> SUFFICES ASSUME SyncInv, NEW c \in Conns, NEW end \in Ends, Waiting(c, end)
               PROVE  LET done == BatchLength(wire[c][end])
                          before == IF done = 0 THEN Len(wire[c][end]) ELSE done - 1
                      IN \A i \in 1 .. before : wire[c][end][i].type = "EntryAssign"
    BY DEF HandshakeUndisturbed
  <2> DEFINE w == wire[c][end]
             done == BatchLength(w)
             before == IF done = 0 THEN Len(w) ELSE done - 1
  <2>1. LinkTypes /\ Phase(c) /\ state[c].cli \in {"Dead", "Handshake", "Synchronized", "Active"}
    BY ActiveEnds
  <2>2. w \in Seq(WireMessages)
    BY <2>1 DEF LinkTypes
  <2>3. w = <<>> \/ Opens(w)
    <3>1. CASE end = "cli"
      <4>1. wire[c].cli = <<>> \/ IsBatch(wire[c].cli)
        BY <2>1, <3>1 DEF Waiting, Phase
      <4> QED BY <3>1, <4>1, BatchIsWhole
    <3>2. CASE end = "srv"
      BY <2>1, <3>2 DEF Waiting, Phase
    <3> QED BY <3>1, <3>2 DEF Ends
  <2> HIDE DEF w
  <2>4. \A i \in 1 .. before : w[i].type = "EntryAssign"
    <3>1. CASE w = <<>>
      BY <3>1, NoBatchEnds
    <3>2. CASE Opens(w)
      <4>1. PICK k \in 1 .. Len(w) : w[k] = HelloDone /\ \A i \in 1 .. k - 1 : w[i] \in EntryAssigns
        BY <3>2 DEF Opens
      <4>2. done = k
        BY <2>2, <4>1, BatchEnds
      <4> HIDE DEF done
      <4>3. k \in Nat \ {0}
        BY <2>2
      <4> QED BY <4>1, <4>2, <4>3, MessageKinds
    <3> QED BY <2>3, <3>1, <3>2
  <2> QED BY <2>4 DEF w
<1> QED BY <1>1, SyncInvariance, PTL

\* While a connection is up, an id that both of its ends have an entry for is the
\* id of the same entry at both (AssignEntryId in Storage.cs gives the ids, and
\* messages carry them alone), but for a queue that has displaced a message.
THEOREM IdAgreementHolds == SyncSpec => []IdAgreement
<1>1. SyncInv => IdAgreement
  <2> SUFFICES ASSUME SyncInv, NEW c \in Conns \ displaced, NEW id \in Ids,
                      state[c].cli \in {"Synchronized", "Active"},
                      Lookup(c, id) # Nil, Lookup(Server, id) # Nil
               PROVE  heap[c][Lookup(c, id)].name = heap[Server][Lookup(Server, id)].name
    BY DEF IdAgreement
  <2>1. Lookup(c, id) = idMap[c][id] /\ Lookup(Server, id) = idMap[Server][id]
    BY DEF Lookup
  <2>2. Fits(id, heap[c][idMap[c][id]].name)
    BY <2>1 DEF SyncInv, HonestInv, Honesty
  <2> QED BY <2>1, <2>2 DEF Fits
<1> QED BY <1>1, SyncInvariance, PTL
-----------------------------------------------------------------------------
(* What names, ids and values go together *)

AnyMessages == PeerMessages \cup {HelloDone, Blank}

\* Each id that a server gives is that of one name from then on, whether or not the
\* entry is still there: an assignment of ids to names is what the proof carries, the
\* first k of them given.
Owners == [Ids -> Names \cup {Nil}]
Owns(k, w, id, name) == name \in Names /\ id < k /\ w[id] = name

\* What may be sent: the value of a message is one that was given to the name the
\* receiver takes it for, which is the message's if it has no id, or else the id's.
Upward(k, g, w) ==
    {msg \in AnyMessages :
        /\ msg.type = "EntryAssign" /\ msg.id = Unassigned => msg.val \in g[msg.str]
        /\ msg.type \in {"EntryAssign", "EntryUpdate"} /\ msg.id \in Ids =>
              \E name \in Names : Owns(k, w, msg.id, name) /\ msg.val \in g[name]}

\* A client takes the name from the message.
Downward(k, g, w) ==
    {msg \in Upward(k, g, w) :
        msg.type = "EntryAssign" /\ msg.id \in Ids => w[msg.id] = msg.str}

Consists(s, S) == \A i \in DOMAIN s : s[i] \in S

\* A node's entries, and what its readers have left to do.
Worthy(h, r, g) ==
    /\ \A o \in Objs : h[o].name \in Names => h[o].val \in g[h[o].name]
    /\ \A c \in Conns : r[c] # Nothing =>
          /\ r[c].msg.val \in g[r[c].msg.str]
          /\ h[r[c].obj].id = r[c].msg.id /\ h[r[c].obj].name = r[c].msg.str

Known(h, m, k, w) == \A id \in Ids : m[id] # Nil => Owns(k, w, id, h[m[id]].name)

HasTo(r, S) == \A c \in Conns : r[c] # Nothing => r[c].msg \in S
Holds(hd, S) == \A t \in Threads : \A i \in DOMAIN hd[t] : hd[t][i].msg \in S

\* A connection's messages, from its server and from its client.
Carries(p, r, s, i, U, D) ==
    /\ Consists(p.srv.list, D) /\ Consists(r.srv, D) /\ Consists(s.cli, D)
    /\ Consists(p.cli.list, U) /\ Consists(r.cli, U) /\ Consists(s.srv, U) /\ Consists(i, U)

\* The server has the ids it gives; a client has those of its server while it is
\* connected.
Up(n) == n = Server \/ state[n].cli \in {"Synchronized", "Active"}

NodesTalk(k, g, w) ==
    \A n \in Nodes :
        /\ Worthy(heap[n], resume[n], g)
        /\ Up(n) => /\ Known(heap[n], idMap[n], k, w)
                    /\ HasTo(resume[n], Downward(k, g, w)) /\ Holds(hand[n], Downward(k, g, w))

LinksTalk(k, g, w) ==
    \A c \in Conns :
        Carries(pend[c], prepared[c], wire[c], incoming[c], Upward(k, g, w), Downward(k, g, w))

Talk == \E w \in Owners : NodesTalk(idCount[Server], given, w) /\ LinksTalk(idCount[Server], given, w)

TalkInv ==
    /\ given \in [Names -> SUBSET Values]
    /\ ~ stale => displaced = {} /\ Talk
-----------------------------------------------------------------------------
(* More is known as time goes by *)

Extends(k, g, w, kk, gg, ww) ==
    /\ k \in Nat /\ kk \in Nat /\ k <= kk
    /\ \A name \in Names : g[name] \subseteq gg[name]
    /\ \A id \in Ids : id < k => ww[id] = w[id]

LEMMA Grown ==
  ASSUME NEW k, NEW g, NEW w, NEW kk, NEW gg, NEW ww, Extends(k, g, w, kk, gg, ww)
  PROVE  /\ \A id \in Ids : \A name : Owns(k, w, id, name) => Owns(kk, ww, id, name)
         /\ Upward(k, g, w) \subseteq Upward(kk, gg, ww)
         /\ Downward(k, g, w) \subseteq Downward(kk, gg, ww)
<1>1. ASSUME NEW id \in Ids, NEW name, Owns(k, w, id, name)
      PROVE  Owns(kk, ww, id, name)
  BY <1>1, MessagesAssumption DEF Extends, Owns, Ids
<1>2. ASSUME NEW msg \in Upward(k, g, w)
      PROVE  msg \in Upward(kk, gg, ww)
  <2>1. CASE msg.type = "EntryAssign" /\ msg.id = Unassigned
    <3>1. msg.id \notin Ids
      BY <2>1, MessagesAssumption DEF Ids
    <3>2. msg \in PeerMessages
      BY <2>1, MessageKinds DEF Upward, AnyMessages
    <3>3. msg.str \in Names
      BY <2>1, <3>2, PeerMessageFields
    <3> QED BY <2>1, <3>1, <3>3 DEF Extends, Upward
  <2>2. CASE ~ (msg.type = "EntryAssign" /\ msg.id = Unassigned)
    BY <1>1, <2>2 DEF Extends, Upward
  <2> QED BY <2>1, <2>2
<1>3. ASSUME NEW msg \in Downward(k, g, w)
      PROVE  msg \in Downward(kk, gg, ww)
  <2>1. msg \in Upward(kk, gg, ww) /\ msg \in Upward(k, g, w)
    BY <1>2 DEF Downward
  <2>2. CASE msg.type = "EntryAssign" /\ msg.id \in Ids
    <3>1. \E name \in Names : Owns(k, w, msg.id, name)
      BY <2>1, <2>2 DEF Upward
    <3>2. ww[msg.id] = w[msg.id]
      BY <2>2, <3>1 DEF Extends, Owns
    <3> QED BY <2>1, <2>2, <3>2 DEF Downward
  <2>3. CASE ~ (msg.type = "EntryAssign" /\ msg.id \in Ids)
    BY <2>1, <2>3 DEF Downward
  <2> QED BY <2>2, <2>3
<1> QED BY <1>1, <1>2, <1>3
-----------------------------------------------------------------------------
(* Messages *)

\* What says nothing of a value may always be sent.
LEMMA SaysNoValue ==
  ASSUME NEW k, NEW g, NEW w, NEW msg \in AnyMessages, msg.type \notin {"EntryAssign", "EntryUpdate"}
  PROVE  msg \in Downward(k, g, w)
BY DEF Upward, Downward

LEMMA ValuelessMessages ==
  ASSUME NEW k, NEW g, NEW w
  PROVE  /\ Blank \in Downward(k, g, w) /\ HelloDone \in Downward(k, g, w)
         /\ ClearEntries \in Downward(k, g, w)
         /\ \A id \in AnyId : EntryDelete(id) \in Downward(k, g, w)
         /\ \A id \in AnyId, flags \in BOOLEAN : FlagsUpdate(id, flags) \in Downward(k, g, w)
<1>1. Blank \in Downward(k, g, w) /\ HelloDone \in Downward(k, g, w)
  BY SaysNoValue, MessageKinds DEF AnyMessages
<1>2. ClearEntries \in PeerMessages /\ ClearEntries.type = "ClearEntries"
  BY DEF PeerMessages, ClearEntries, Blank
<1>3. ASSUME NEW id \in AnyId
      PROVE  EntryDelete(id) \in Downward(k, g, w)
  <2>1. EntryDelete(id) \in PeerMessages /\ EntryDelete(id).type = "EntryDelete"
    BY MadeForPeers DEF EntryDelete, Blank
  <2> QED BY <2>1, SaysNoValue DEF AnyMessages
<1>4. ASSUME NEW id \in AnyId, NEW flags \in BOOLEAN
      PROVE  FlagsUpdate(id, flags) \in Downward(k, g, w)
  <2>1. FlagsUpdate(id, flags) \in PeerMessages /\ FlagsUpdate(id, flags).type = "FlagsUpdate"
    BY MadeForPeers DEF FlagsUpdate, Blank
  <2> QED BY <2>1, SaysNoValue DEF AnyMessages
<1> QED BY <1>1, <1>2, <1>3, <1>4, SaysNoValue DEF AnyMessages

\* What says a value of an entry, under its name or under the id of its name.
LEMMA SaysOwnValue ==
  ASSUME NEW k, NEW g, NEW w, NEW id \in AnyId, NEW name \in Names, NEW seq \in SeqNums,
         NEW value \in Values, value \in g[name], id # Unassigned => Owns(k, w, id, name)
  PROVE  /\ \A flags \in BOOLEAN : EntryAssign(name, id, seq, value, flags) \in Downward(k, g, w)
         /\ EntryUpdate(id, seq, value) \in Downward(k, g, w)
<1>1. id \in Ids <=> id # Unassigned
  BY IsId, MessagesAssumption DEF Ids
<1>2. ASSUME NEW flags \in BOOLEAN
      PROVE  EntryAssign(name, id, seq, value, flags) \in Downward(k, g, w)
  <2> DEFINE msg == EntryAssign(name, id, seq, value, flags)
  <2>1. msg \in AnyMessages
    BY MadeForPeers, MessageKinds DEF AnyMessages
  <2>2. msg.type = "EntryAssign" /\ msg.id = id /\ msg.str = name /\ msg.val = value
    BY DEF EntryAssign
  <2> HIDE DEF msg
  <2>3. msg \in Upward(k, g, w)
    BY <1>1, <2>1, <2>2 DEF Upward
  <2>4. msg.id \in Ids => w[msg.id] = msg.str
    BY <1>1, <2>2 DEF Owns
  <2>5. msg \in Downward(k, g, w)
    BY <2>3, <2>4 DEF Downward
  <2> QED BY <2>5 DEF msg
<1>3. EntryUpdate(id, seq, value) \in Downward(k, g, w)
  <2> DEFINE msg == EntryUpdate(id, seq, value)
  <2>1. msg \in AnyMessages
    BY MadeForPeers DEF AnyMessages
  <2>2. msg.type = "EntryUpdate" /\ msg.id = id /\ msg.val = value
    BY DEF EntryUpdate, Blank
  <2> HIDE DEF msg
  <2>3. msg \in Downward(k, g, w)
    BY <1>1, <2>1, <2>2 DEF Upward, Downward
  <2> QED BY <2>3 DEF msg
<1> QED BY <1>2, <1>3
-----------------------------------------------------------------------------
(* Queues *)

LEMMA AppendedConsists ==
  ASSUME NEW T, NEW s \in Seq(T), NEW x, NEW S, Consists(s, S), x \in S
  PROVE  Consists(Append(s, x), S)
BY DEF Consists

LEMMA JoinedConsists ==
  ASSUME NEW T, NEW s \in Seq(T), NEW r \in Seq(T), NEW S, Consists(s, S), Consists(r, S)
  PROVE  Consists(s \o r, S)
<1>1. ASSUME NEW i \in DOMAIN (s \o r)
      PROVE  (s \o r)[i] \in S
  <2>1. i \in 1 .. Len(s) + Len(r)
    OBVIOUS
  <2>2. CASE i <= Len(s)
    BY <2>1, <2>2 DEF Consists
  <2>3. CASE i > Len(s)
    <3>1. i - Len(s) \in DOMAIN r /\ (s \o r)[i] = r[i - Len(s)]
      BY <2>1, <2>3
    <3> QED BY <3>1 DEF Consists
  <2> QED BY <2>1, <2>2, <2>3
<1> QED BY <1>1 DEF Consists

LEMMA ShorterConsists ==
  ASSUME NEW T, NEW s \in Seq(T), s # <<>>, NEW S, Consists(s, S)
  PROVE  Head(s) \in S /\ Consists(Tail(s), S)
BY DEF Consists

\* A queue holds what it held, and the message or what it is merged into.
LEMMA QueueConsists ==
  ASSUME NEW q, Fine(q), NEW msg \in PeerMessages, NEW S, Consists(q.list, S), Blank \in S, msg \in S,
         Meets(q, msg) => Merged(q, msg.id, msg) \in S
  PROVE  Consists(QueueOutgoing(q, msg).list, S)
<1> DEFINE id == msg.id
<1>1. /\ q \in Queues /\ q.list \in Seq(PendingMessages) /\ Len(q.list) \in Nat /\ id \in AnyId
      /\ id + 1 \in Nat /\ q.update \in [Ids -> Places]
      /\ id # Unassigned => id \in Ids
  BY QueueFields, PeerMessageFields, IsId, MessagesAssumption DEF Fine, AnyId
<1>2. Add(q, msg) \in Queues /\ Add(q, msg).list = Append(q.list, msg)
  BY <1>1, AddType
<1>3. Consists(Append(q.list, msg), S)
  BY <1>1, AppendedConsists
<1>4. CASE msg.type = "ClearEntries"
  <2> DEFINE list == [i \in DOMAIN q.list |->
                         IF q.list[i].type \in EntryTypes THEN Blank ELSE q.list[i]]
             b == [EmptyQueue EXCEPT !.list = list]
  <2>1. list \in Seq(PendingMessages) /\ Consists(list, S)
    BY <1>1 DEF Consists, PendingMessages
  <2>2. QueueOutgoing(q, msg) = Add(b, msg)
    BY <1>4 DEF QueueOutgoing, AddClear
  <2> HIDE DEF list
  <2>3. b \in Queues /\ b.list = list
    BY <2>1, EmptyQueueType DEF Queues
  <2> HIDE DEF b
  <2>4. Add(b, msg).list = Append(list, msg)
    BY <2>3, AddType
  <2> QED BY <2>1, <2>2, <2>4, AppendedConsists
<1>5. CASE id # Unassigned /\ msg.type \in {"EntryAssign", "EntryUpdate"}
  <2> DEFINE added == Resized(Add(q, msg), id + 1)
             place == [q.update[id] EXCEPT !.first = Len(q.list) + 1]
  <2>1. QueueOutgoing(q, msg) = AddValue(q, msg)
    BY <1>5 DEF QueueOutgoing
  <2>2. added \in Queues /\ added.list = Append(q.list, msg) /\ added.update = q.update
    <3>1. Add(q, msg).update = q.update
      BY <1>1, AddType
    <3> QED BY <1>1, <1>2, <3>1, ResizedType
  <2>3. CASE q.update[id].first = 0
    <3>1. AddValue(q, msg) = [added EXCEPT !.update[id] = place]
      BY <2>2, <2>3 DEF AddValue
    <3> HIDE DEF added, place
    <3>2. [added EXCEPT !.update[id] = place].list = added.list
      BY <2>2 DEF Queues
    <3> QED BY <1>3, <2>1, <2>2, <3>1, <3>2
  <2>4. CASE q.update[id].first # 0 /\ MergeIndex(q, id) \in 1 .. Len(q.list)
    <3> DEFINE new == Merged(q, id, msg)
               at == MergeIndex(q, id)
               r == Replace(q, at, new)
    <3>1. AddValue(q, msg) = r
      BY <2>4 DEF AddValue
    <3>2. Meets(q, msg)
      BY <1>5, <2>4 DEF Meets
    <3>3. new \in PeerMessages /\ new \in S
      BY <3>2, MergedIsOwn
    <3>4. at \in 1 .. Len(q.list)
      BY <2>4
    <3> HIDE DEF new, at
    <3>5. r.list = [q.list EXCEPT ![at] = new]
      BY <1>1, <3>3, <3>4, ReplaceType
    <3> HIDE DEF r
    <3>6. Consists(r.list, S)
      BY <1>1, <3>3, <3>4, <3>5 DEF Consists
    <3> QED BY <2>1, <3>1, <3>6
  <2>5. CASE q.update[id].first # 0 /\ MergeIndex(q, id) \notin 1 .. Len(q.list)
    <3>1. QueueOutgoing(q, msg) = [q EXCEPT !.fault = TRUE]
      BY <2>1, <2>5 DEF AddValue, Fault
    <3> QED BY <1>1, <3>1, FaultType
  <2> QED BY <2>3, <2>4, <2>5
<1>6. CASE id # Unassigned /\ msg.type = "EntryDelete"
  <2> DEFINE gone == {q.update[id].first, q.update[id].second} \ {0}
             list == [i \in DOMAIN q.list |-> IF i \in gone THEN Blank ELSE q.list[i]]
             b == BlankPending(q, id)
  <2>1. QueueOutgoing(q, msg) = Add(b, msg)
    BY <1>6 DEF QueueOutgoing, AddDelete
  <2>2. b \in Queues
    BY <1>1, <1>6, BlankKeeps DEF Fine
  <2>3. list \in Seq(PendingMessages) /\ Consists(list, S)
    BY <1>1 DEF Consists, PendingMessages
  <2> HIDE DEF gone
  <2>4. b.list = list
    BY <1>1 DEF BlankPending, gone, Queues
  <2> HIDE DEF b, list
  <2>5. Add(b, msg).list = Append(list, msg)
    BY <2>2, <2>4, AddType
  <2> QED BY <2>1, <2>3, <2>5, AppendedConsists
<1>7. CASE id # Unassigned /\ msg.type = "FlagsUpdate"
  <2> DEFINE resized == IF id > q.count THEN Resized(Add(q, msg), id + 1) ELSE Add(q, msg)
             place == [q.update[id] EXCEPT !.second = Len(q.list) + 1]
  <2>1. QueueOutgoing(q, msg) = AddFlags(q, msg)
    BY <1>7 DEF QueueOutgoing
  <2>2. resized \in Queues /\ resized.list = Append(q.list, msg)
    BY <1>1, <1>2, ResizedType
  <2>3. CASE q.update[id].second # 0
    <3> DEFINE at == q.update[id].second
    <3>1. AddFlags(q, msg) = Replace(q, at, msg)
      BY <2>3 DEF AddFlags
    <3>2. at \in 1 .. Len(q.list)
      BY <1>1, <1>7, <2>3, QueueFields DEF Fine, PlacesInList
    <3> HIDE DEF at
    <3>3. Replace(q, at, msg).list = [q.list EXCEPT ![at] = msg]
      BY <1>1, <3>2, ReplaceType
    <3>4. Consists([q.list EXCEPT ![at] = msg], S)
      BY <1>1, <3>2 DEF Consists
    <3> QED BY <2>1, <3>1, <3>3, <3>4
  <2>4. CASE q.update[id].second = 0 /\ id < resized.count
    <3>1. AddFlags(q, msg) = [resized EXCEPT !.update[id].second = Len(q.list) + 1]
      BY <2>4 DEF AddFlags
    <3> HIDE DEF resized
    <3>2. AddFlags(q, msg).list = resized.list
      BY <2>2, <3>1 DEF Queues
    <3> QED BY <1>3, <2>1, <2>2, <3>2
  <2>5. CASE q.update[id].second = 0 /\ ~ (id < resized.count)
    <3>1. AddFlags(q, msg) = [resized EXCEPT !.fault = TRUE]
      BY <2>5 DEF AddFlags, Fault
    <3> HIDE DEF resized
    <3> QED BY <1>3, <2>1, <2>2, <3>1, FaultType
  <2> QED BY <2>3, <2>4, <2>5
<1>8. CASE /\ msg.type # "ClearEntries"
           /\ ~ (id # Unassigned /\ msg.type \in {"EntryAssign", "EntryUpdate", "EntryDelete", "FlagsUpdate"})
  BY <1>2, <1>3, <1>8 DEF QueueOutgoing
<1> QED BY <1>4, <1>5, <1>6, <1>7, <1>8

\* A merged message says what the last of its parts does; and of the right name, if
\* it is put together from parts about one entry.
LEMMA MergedTells ==
  ASSUME NEW k, NEW g, NEW w, NEW q, Fine(q), NEW msg \in PeerMessages, Meets(q, msg)
  PROVE  /\ msg \in Upward(k, g, w) => Merged(q, msg.id, msg) \in Upward(k, g, w)
         /\ msg \in Downward(k, g, w) /\ OwnPlaces(q) /\ Consists(q.list, Downward(k, g, w)) =>
               Merged(q, msg.id, msg) \in Downward(k, g, w)
<1> DEFINE id == msg.id
           old == q.list[PreviousIndex(q, id)]
           new == EntryAssign(old.str, id, msg.seq, msg.val, old.flags)
<1>1. id \in Ids /\ q.update[id].first # 0 /\ msg.type \in {"EntryAssign", "EntryUpdate"}
  BY PeerMessageFields, IsId DEF Meets
<1>2. Merged(q, id, msg) \in PeerMessages
  BY MergedIsOwn
<1>3. PreviousIndex(q, id) \in DOMAIN q.list
  BY <1>1, QueueFields DEF Fine, PlacesInList, PreviousIndex
<1>4. CASE old.type = "EntryAssign" /\ msg.type = "EntryUpdate"
  <2>1. Merged(q, id, msg) = new
    BY <1>4 DEF Merged
  <2>2. new.type = "EntryAssign" /\ new.id = id /\ new.val = msg.val /\ new.str = old.str
    BY DEF EntryAssign
  <2>3. new \in AnyMessages /\ id # Unassigned
    BY <1>1, <1>2, <2>1, MessagesAssumption DEF AnyMessages, Ids
  <2>4. msg \in Upward(k, g, w) => new \in Upward(k, g, w)
    <3> HIDE DEF new
    <3> QED BY <1>1, <2>2, <2>3 DEF Upward
  <2>5. ASSUME OwnPlaces(q), Consists(q.list, Downward(k, g, w))
        PROVE  w[id] = old.str
    <3>1. q.update[id].first \in {q.update[id].first, q.update[id].second} \ {0}
      BY <1>1
    <3>2. old.id = id
      BY <1>1, <2>5, <3>1 DEF OwnPlaces, PreviousIndex
    <3>3. old \in Downward(k, g, w)
      BY <1>3, <2>5 DEF Consists
    <3> QED BY <1>1, <1>4, <3>2, <3>3 DEF Downward
  <2>6. msg \in Downward(k, g, w) => msg \in Upward(k, g, w)
    BY DEF Downward
  <2>7. new \in Upward(k, g, w) /\ w[id] = old.str => new \in Downward(k, g, w)
    <3> HIDE DEF new
    <3> QED BY <2>2 DEF Downward
  <2> QED BY <2>1, <2>4, <2>5, <2>6, <2>7
<1>5. CASE ~ (old.type = "EntryAssign" /\ msg.type = "EntryUpdate")
  BY <1>5 DEF Merged
<1> QED BY <1>4, <1>5
-----------------------------------------------------------------------------
(* What an operation says *)

\* A node that knows its ids, and has only what it may say left to do.
Informed(n, k, g, w) == Known(heap[n], idMap[n], k, w) /\ HasTo(resume[n], Downward(k, g, w))

\* Where an operation starts from: the server knows the ids it gives.
Fair(n, k, g, w) ==
    Worthy(heap[n], resume[n], g) /\ (n = Server => Known(heap'[n], idMap'[n], k, w))

Sends(n, t, S) ==
    \/ UNCHANGED hand
    \/ \E outs : hand' = [hand EXCEPT ![n][t] = outs] /\ \A i \in DOMAIN outs : outs[i].msg \in S

\* What it comes to.
Vouches(n, t, k, g, w) ==
    /\ Worthy(heap'[n], resume'[n], g)
    /\ Informed(n, k, g, w) =>
          Sends(n, t, Downward(k, g, w)) /\ HasTo(resume'[n], Downward(k, g, w))

LEMMA SaysOne ==
  ASSUME NEW n, NEW t, NEW msg, NEW except, Send(n, t, <<Out(msg, except)>>), NEW S, msg \in S
  PROVE  Sends(n, t, S)
<1> DEFINE outs == <<Out(msg, except)>>
<1>1. \A i \in DOMAIN outs : outs[i].msg = msg
  BY DEF Out
<1>2. Send(n, t, outs)
  OBVIOUS
<1> HIDE DEF outs
<1> QED BY <1>1, <1>2 DEF Send, Sends

LEMMA SaysNone ==
  ASSUME NEW n, NEW t, Send(n, t, <<>>), NEW S
  PROVE  Sends(n, t, S)
<1> DEFINE outs == <<>>
<1>1. \A i \in DOMAIN outs : outs[i].msg \in S
  OBVIOUS
<1>2. Send(n, t, outs)
  OBVIOUS
<1> HIDE DEF outs
<1> QED BY <1>1, <1>2 DEF Send, Sends

LEMMA SaysAgain ==
  ASSUME NEW n, NEW c, NEW msg, Relay(n, c, msg), NEW S, msg \in S
  PROVE  Sends(n, c, S)
<1>1. CASE IsServer(n)
  BY <1>1, SaysOne DEF Relay
<1>2. CASE ~ IsServer(n)
  BY <1>2, SaysNone DEF Relay
<1> QED BY <1>1, <1>2

\* One object gets a value that is its name's; it goes on being what a reader's
\* assignment is about.
LEMMA PutWorthy ==
  ASSUME TablesInv, NEW n \in Nodes, NEW o \in Objs, NEW entry, SetEntry(n, o, entry),
         NEW g, Worthy(heap[n], resume[n], g),
         entry.name \in Names => entry.val \in g[entry.name],
         \A d \in Conns :
            \/ resume'[n][d] = Nothing
            \/ /\ resume'[n][d] = resume[n][d]
               /\ resume[n][d].obj = o => entry.id = heap[n][o].id /\ entry.name = heap[n][o].name
            \/ /\ resume'[n][d].obj = o /\ resume'[n][d].msg.id = entry.id
               /\ resume'[n][d].msg.str = entry.name /\ resume'[n][d].msg.val \in g[entry.name]
  PROVE  Worthy(heap'[n], resume'[n], g)
<1>1. heap'[n] = [heap[n] EXCEPT ![o] = entry] /\ heap[n] \in [Objs -> Entry]
  BY NodesTables DEF SetEntry, OnNodes
<1>2. heap'[n][o] = entry /\ \A p \in Objs : p # o => heap'[n][p] = heap[n][p]
  BY <1>1
<1>3. \A p \in Objs : heap'[n][p].name \in Names => heap'[n][p].val \in g[heap'[n][p].name]
  BY <1>2 DEF Worthy
<1>4. ASSUME NEW d \in Conns, resume'[n][d] # Nothing
      PROVE  LET r == resume'[n][d] IN
             /\ r.msg.val \in g[r.msg.str]
             /\ heap'[n][r.obj].id = r.msg.id /\ heap'[n][r.obj].name = r.msg.str
  <2>1. CASE /\ resume'[n][d].obj = o /\ resume'[n][d].msg.id = entry.id
             /\ resume'[n][d].msg.str = entry.name /\ resume'[n][d].msg.val \in g[entry.name]
    BY <1>2, <2>1
  <2>2. CASE /\ resume'[n][d] = resume[n][d]
             /\ resume[n][d].obj = o => entry.id = heap[n][o].id /\ entry.name = heap[n][o].name
    <3>1. resume[n][d] # Nothing /\ resume[n][d].obj \in Objs
      BY <1>4, <2>2, ReaderObjects
    <3>2. /\ heap'[n][resume[n][d].obj].id = heap[n][resume[n][d].obj].id
          /\ heap'[n][resume[n][d].obj].name = heap[n][resume[n][d].obj].name
      BY <1>2, <2>2, <3>1
    <3> QED BY <2>2, <3>1, <3>2 DEF Worthy
  <2> QED BY <1>4, <2>1, <2>2
<1> QED BY <1>3, <1>4 DEF Worthy

LEMMA RemoveWorthy ==
  ASSUME TablesInv, NEW n \in Nodes, NEW e, NEW m,
         heap' = [heap EXCEPT ![n] = Collected(n, heap[n], e, m)], UNCHANGED resume,
         NEW g, Worthy(heap[n], resume[n], g)
  PROVE  Worthy(heap'[n], resume'[n], g)
<1>1. heap'[n] = Collected(n, heap[n], e, m)
  BY NodesTables DEF OnNodes
<1>2. \A p \in Objs : heap'[n][p] = heap[n][p] \/ heap'[n][p] = FreeEntry
  BY <1>1 DEF Collected
<1>3. \A p \in Objs : heap'[n][p].name \in Names => heap'[n][p].val \in g[heap'[n][p].name]
  BY <1>2, MessagesAssumption DEF Worthy, FreeEntry
<1>4. ASSUME NEW d \in Conns, resume[n][d] # Nothing
      PROVE  heap'[n][resume[n][d].obj] = heap[n][resume[n][d].obj]
  <2>1. resume[n][d].obj \in Objs
    BY <1>4, ReaderObjects
  <2> QED BY <1>1, <2>1 DEF Collected
<1> QED BY <1>3, <1>4 DEF Worthy

\* The id an entry has is the id of its name.
LEMMA OwnIds ==
  ASSUME TablesInv, NEW n \in Nodes, NEW name \in Names, Exists(n, name),
         NEW k, NEW w, Known(heap[n], idMap[n], k, w), EntryOf(n, name).id # Unassigned
  PROVE  Owns(k, w, EntryOf(n, name).id, name)
<1>1. EntryOf(n, name) \in Entry /\ EntryOf(n, name).name = name
  BY EntryValue
<1>2. EntryOf(n, name).id \in Ids
  BY <1>1, IsId DEF Entry
<1>3. idMap[n][EntryOf(n, name).id] = ents[n][name]
  BY <1>2 DEF TablesInv, RInv, Resolves, ResolveOK, NamesResolve, Exists, EntryOf
<1> QED BY <1>1, <1>2, <1>3 DEF Known, Exists, EntryOf

\* The ids a node has are those of its entries' names.
LEMMA IdsOwned ==
  ASSUME TablesInv, NEW n \in Nodes, NEW id, Lookup(n, id) # Nil,
         NEW k, NEW w, Known(heap[n], idMap[n], k, w)
  PROVE  /\ id \in Ids /\ Lookup(n, id) \in Objs /\ heap[n][Lookup(n, id)] \in Entry
         /\ Owns(k, w, id, heap[n][Lookup(n, id)].name)
BY ResolveTypes DEF TablesInv, Known, Lookup

\* What is told of an id is of its name's value.
LEMMA ToldOfName ==
  ASSUME NEW k, NEW g, NEW w, NEW msg \in Upward(k, g, w), msg.type \in {"EntryAssign", "EntryUpdate"},
         msg.id \in Ids, NEW name, Owns(k, w, msg.id, name)
  PROVE  msg.val \in g[name]
BY DEF Upward, Owns

\* A client is told the name as well.
LEMMA ToldName ==
  ASSUME NEW k, NEW g, NEW w, NEW msg \in Downward(k, g, w), msg.type = "EntryAssign", msg.id \in Ids
  PROVE  Owns(k, w, msg.id, msg.str) /\ msg.val \in g[msg.str]
BY DEF Upward, Downward, Owns

LEMMA CreateVouches ==
  ASSUME TablesInv, NEW n \in Nodes, NEW u, NEW name \in Names, NEW value \in Values,
         NEW seq \in SeqNums, Create(n, u, name, value, seq),
         NEW k, NEW g, NEW w, Fair(n, k, g, w), value \in g[name]
  PROVE  Vouches(n, u, k, g, w)
<1> DEFINE id == IF IsServer(n) THEN NextId(n) ELSE Unassigned
           entry == NewEntry(name, value, FALSE, id, seq)
<1>1. PICK o \in Objs : /\ IsNew(n, o) /\ AddEntry(n, o, entry)
                        /\ IF IsServer(n) THEN AddId(n, o, id) ELSE NoNewId
  BY DEF Create
<1>2. /\ IsServer(n) => id < Unassigned
      /\ Send(n, u, <<Out(EntryAssign(name, id, seq, value, FALSE), Nil)>>)
      /\ UNCHANGED resume
  BY DEF Create
<1>3. id \in AnyId /\ (IsServer(n) => id \in Ids)
  <2>1. IsServer(n) => NextId(n) \in AnyId
    BY NoneTurns DEF NextId, Granted
  <2>2. Unassigned \in AnyId
    BY MessagesAssumption DEF AnyId
  <2> QED BY <1>2, <2>1, <2>2, MessagesAssumption DEF AnyId, Ids, NextId
<1>4. IsServer(n) <=> n = Server
  BY WhoServes DEF TablesInv
<1>5. entry.val = value /\ entry.name = name
  BY DEF NewEntry
<1>6. SetEntry(n, o, entry) /\ o # Nil
  BY <1>1, NodesTables DEF AddEntry
<1>7. n # Server => id = Unassigned
  BY <1>4
<1> HIDE DEF id, entry
<1>8. Worthy(heap'[n], resume'[n], g)
  <2>1. \A d \in Conns : resume[n][d].obj # o
    BY <1>1 DEF IsNew, InUse
  <2> QED BY <1>2, <1>5, <1>6, <2>1, PutWorthy DEF Fair
<1>9. id # Unassigned => Owns(k, w, id, name)
  <2>1. CASE n = Server
    <3>1. idMap'[n][id] = o
      BY <1>1, <1>3, <1>4, <2>1, NodesTables DEF AddId, OnNodes
    <3>2. heap'[n][o] = entry
      BY <1>6, NodesTables DEF SetEntry, OnNodes
    <3> QED BY <1>3, <1>4, <1>5, <1>6, <2>1, <3>1, <3>2 DEF Fair, Known
  <2>2. CASE n # Server
    BY <1>7, <2>2
  <2> QED BY <2>1, <2>2
<1>10. Sends(n, u, Downward(k, g, w))
  <2>1. EntryAssign(name, id, seq, value, FALSE) \in Downward(k, g, w)
    BY <1>3, <1>9, SaysOwnValue
  <2> QED BY <1>2, <2>1, SaysOne
<1> QED BY <1>2, <1>8, <1>10 DEF Vouches, Informed, HasTo

LEMMA ChangeValueVouches ==
  ASSUME TablesInv, NEW n \in Nodes, NEW u, NEW name \in Names, NEW value \in Values,
         NEW sameType \in BOOLEAN, ChangeValue(n, u, name, value, sameType),
         NEW k, NEW g, NEW w, Fair(n, k, g, w), value \in g[name]
  PROVE  Vouches(n, u, k, g, w)
<1> DEFINE o == ents[n][name]
           old == EntryOf(n, name)
           seq == IF role[n] = "idle" THEN old.seq ELSE Inc(old.seq)
           entry == [old EXCEPT !.val = value, !.seq = seq]
           made == IF sameType THEN EntryUpdate(old.id, seq, value)
                               ELSE EntryAssign(name, old.id, seq, value, old.flags)
<1>1. /\ Exists(n, name) /\ SetEntry(n, o, entry)
      /\ Send(n, u, IF sameType /\ old.id = Unassigned THEN <<>> ELSE <<Out(made, Nil)>>)
      /\ UNCHANGED <<ents, idMap, resume>>
  <2>1. Exists(n, name)
    BY DEF ChangeValue
  <2> QED BY <2>1, ValueChanges
<1>2. o \in Objs /\ old \in Entry /\ old.name = name
  BY <1>1, EntryValue
<1>3. old.id \in AnyId /\ old.flags \in BOOLEAN /\ old.seq \in SeqNums
  BY <1>2 DEF Entry
<1>4. seq \in SeqNums
  BY <1>3, HalfRangeAssumption DEF Inc, SeqNums
<1> HIDE DEF seq
<1>5. /\ entry.val = value /\ entry.name = heap[n][o].name /\ entry.id = heap[n][o].id
      /\ entry.name = name
  BY <1>2 DEF Entry, EntryOf
<1> HIDE DEF entry
<1>6. Worthy(heap'[n], resume'[n], g)
  BY <1>1, <1>2, <1>5, PutWorthy DEF Fair
<1>7. ASSUME Informed(n, k, g, w)
      PROVE  Sends(n, u, Downward(k, g, w))
  <2>1. old.id # Unassigned => Owns(k, w, old.id, name)
    BY <1>1, <1>7, OwnIds DEF Informed
  <2>2. made \in Downward(k, g, w)
    BY <1>3, <1>4, <2>1, SaysOwnValue
  <2> HIDE DEF made
  <2> QED BY <1>1, <2>2, SaysOne, SaysNone
<1> QED BY <1>1, <1>6, <1>7 DEF Vouches, Informed, HasTo

LEMMA SetEntryFlagsVouches ==
  ASSUME TablesInv, NEW n \in Nodes, NEW u, NEW name \in Names, NEW flags \in BOOLEAN,
         SetEntryFlags(n, u, name, flags), NEW k, NEW g, NEW w, Fair(n, k, g, w)
  PROVE  Vouches(n, u, k, g, w)
<1> DEFINE o == ents[n][name]
           old == EntryOf(n, name)
           entry == [old EXCEPT !.flags = flags]
           made == FlagsUpdate(old.id, flags)
<1>1. /\ Exists(n, name) /\ SetEntry(n, o, entry)
      /\ Send(n, u, IF old.id = Unassigned THEN <<>> ELSE <<Out(made, Nil)>>)
      /\ UNCHANGED resume
  BY DEF SetEntryFlags
<1>2. o \in Objs /\ old \in Entry /\ old.name = name
  BY <1>1, EntryValue
<1>3. /\ entry.val = heap[n][o].val /\ entry.name = heap[n][o].name /\ entry.id = heap[n][o].id
      /\ old.id \in AnyId
  BY <1>2 DEF Entry, EntryOf
<1> HIDE DEF entry
<1>4. Worthy(heap'[n], resume'[n], g)
  <2>1. entry.name \in Names => entry.val \in g[entry.name]
    BY <1>2, <1>3 DEF Fair, Worthy
  <2> QED BY <1>1, <1>2, <1>3, <2>1, PutWorthy DEF Fair
<1>5. made \in Downward(k, g, w)
  BY <1>3, ValuelessMessages
<1> HIDE DEF made
<1>6. Sends(n, u, Downward(k, g, w))
  BY <1>1, <1>5, SaysOne, SaysNone
<1> QED BY <1>1, <1>4, <1>6 DEF Vouches, Informed, HasTo

LEMMA RemoveEntryWorthy ==
  ASSUME TablesInv, NEW n \in Nodes, NEW id, NEW name, RemoveEntry(n, id, name), UNCHANGED resume,
         NEW g, Worthy(heap[n], resume[n], g)
  PROVE  Worthy(heap'[n], resume'[n], g)
<1> DEFINE e == IF name \in Names THEN [ents[n] EXCEPT ![name] = Nil] ELSE ents[n]
           m == IF id \in Ids THEN [idMap[n] EXCEPT ![id] = Nil] ELSE idMap[n]
<1>1. heap' = [heap EXCEPT ![n] = Collected(n, heap[n], e, m)]
  BY DEF RemoveEntry
<1> HIDE DEF e, m
<1> QED BY <1>1, RemoveWorthy

LEMMA ClearImplWorthy ==
  ASSUME TablesInv, NEW n \in Nodes, DeleteAllEntriesImpl(n), NEW g, Worthy(heap[n], resume[n], g)
  PROVE  Worthy(heap'[n], resume'[n], g) /\ UNCHANGED resume
<1> DEFINE gone == {name \in Names : Exists(n, name) /\ ~ IsPersistent(EntryOf(n, name))}
           ids == {EntryOf(n, name).id : name \in gone}
           e == [name \in Names |-> IF name \in gone THEN Nil ELSE ents[n][name]]
           m == [id \in Ids |-> IF id \in ids THEN Nil ELSE idMap[n][id]]
<1>1. heap' = [heap EXCEPT ![n] = Collected(n, heap[n], e, m)] /\ UNCHANGED resume
  BY Zenon DEF DeleteAllEntriesImpl
<1> HIDE DEF e, m
<1> QED BY <1>1, RemoveWorthy

LEMMA DeleteEntryVouches ==
  ASSUME TablesInv, NEW n \in Nodes, NEW u, NEW name \in Names, DeleteEntry(n, u, name),
         NEW k, NEW g, NEW w, Fair(n, k, g, w)
  PROVE  Vouches(n, u, k, g, w)
<1> DEFINE old == EntryOf(n, name)
           made == EntryDelete(old.id)
<1>1. /\ Exists(n, name) /\ RemoveEntry(n, old.id, name) /\ UNCHANGED resume
      /\ Send(n, u, IF old.id = Unassigned THEN <<>> ELSE <<Out(made, Nil)>>)
  BY DEF DeleteEntry
<1>2. old.id \in AnyId
  BY <1>1, EntryValue DEF Entry
<1>3. made \in Downward(k, g, w)
  BY <1>2, ValuelessMessages
<1> HIDE DEF made
<1>4. Sends(n, u, Downward(k, g, w))
  BY <1>1, <1>3, SaysOne, SaysNone
<1> QED BY <1>1, <1>4, RemoveEntryWorthy DEF Vouches, Informed, HasTo, Fair

LEMMA DeleteAllEntriesVouches ==
  ASSUME TablesInv, NEW n \in Nodes, NEW u, DeleteAllEntries(n, u),
         NEW k, NEW g, NEW w, Fair(n, k, g, w)
  PROVE  Vouches(n, u, k, g, w)
<1>1. DeleteAllEntriesImpl(n) /\ Send(n, u, <<Out(ClearEntries, Nil)>>)
  BY DEF DeleteAllEntries
<1>2. ClearEntries \in Downward(k, g, w)
  BY ValuelessMessages
<1>3. Sends(n, u, Downward(k, g, w))
  BY <1>1, <1>2, SaysOne
<1> QED BY <1>1, <1>3, ClearImplWorthy DEF Vouches, Informed, HasTo, Fair

\* Whatever a user calls, with a value that counts as given to the name.
LEMMA TableCallVouches ==
  ASSUME TablesInv, NEW n \in Nodes, NEW u, NEW k, NEW g, NEW w, Fair(n, k, g, w),
         \/ \E name \in Names, value \in Values :
               /\ SetEntryValue(n, u, name, value) \/ SetEntryTypeValue(n, u, name, value)
               /\ value \in g[name]
         \/ \E name \in Names, flags \in BOOLEAN : SetEntryFlags(n, u, name, flags)
         \/ \E name \in Names : DeleteEntry(n, u, name)
         \/ DeleteAllEntries(n, u)
  PROVE  Vouches(n, u, k, g, w)
<1>1. ASSUME NEW name \in Names, NEW value \in Values, value \in g[name],
             SetEntryValue(n, u, name, value) \/ SetEntryTypeValue(n, u, name, value)
      PROVE  Vouches(n, u, k, g, w)
  <2>1. 0 \in SeqNums /\ (IF role[n] = "idle" THEN 0 ELSE 1) \in SeqNums
    BY HalfRangeAssumption DEF SeqNums
  <2>2. \/ \E seq \in SeqNums : Create(n, u, name, value, seq)
        \/ \E sameType \in BOOLEAN : ChangeValue(n, u, name, value, sameType)
        \/ Exists(n, name) /\ KeepValue(n, u, name, value)
    BY <1>1, <2>1 DEF SetEntryValue, SetEntryTypeValue, KeepValue
  <2> QED BY <1>1, <2>2, CreateVouches, ChangeValueVouches, ValueChanges
<1> QED BY <1>1, SetEntryFlagsVouches, DeleteEntryVouches, DeleteAllEntriesVouches

\* What a reader needs to know to take what it is sent.
Heeds(n, msg, k, g, w) ==
    /\ Fair(n, k, g, w) /\ Informed(n, k, g, w)
    /\ msg \in Upward(k, g, w) /\ (n # Server => msg \in Downward(k, g, w))

LEMMA AssignNewVouches ==
  ASSUME TablesInv, NEW n \in Nodes, NEW c \in Conns, NEW msg \in PeerMessages,
         msg.type = "EntryAssign", AssignNew(n, c, msg), NEW k, NEW g, NEW w, Heeds(n, msg, k, g, w)
  PROVE  Vouches(n, c, k, g, w)
<1> DEFINE id == NextId(n)
           entry == NewEntry(msg.str, msg.val, msg.flags, id, 0)
           made == EntryAssign(entry.name, id, entry.seq, entry.val, entry.flags)
<1>1. PICK o \in Objs : IsNew(n, o) /\ AddEntry(n, o, entry) /\ AddId(n, o, id)
  BY DEF AssignNew
<1>2. /\ IsServer(n) /\ id < Unassigned /\ UNCHANGED resume /\ msg.id = Unassigned
      /\ Send(n, c, <<Out(made, Nil)>>)
  BY DEF AssignNew
<1>3. msg.str \in Names /\ msg.val \in Values /\ msg.flags \in BOOLEAN
  BY PeerMessageFields
<1>4. id \in AnyId /\ id \in Ids
  <2>1. id \in AnyId
    BY <1>2, NoneTurns DEF NextId, Granted
  <2> QED BY <1>2, <2>1, MessagesAssumption DEF AnyId, Ids
<1>5. n = Server
  BY <1>2, WhoServes DEF TablesInv
<1>6. msg.val \in g[msg.str]
  BY <1>2 DEF Heeds, Upward
<1>7. /\ entry.val = msg.val /\ entry.name = msg.str /\ entry.seq = 0 /\ entry.flags = msg.flags
  BY DEF NewEntry
<1>8. SetEntry(n, o, entry) /\ idMap' = [idMap EXCEPT ![n][id] = o] /\ o # Nil
  BY <1>1, NodesTables DEF AddEntry, AddId
<1> HIDE DEF id, entry
<1>9. Worthy(heap'[n], resume'[n], g)
  <2>1. \A d \in Conns : resume[n][d].obj # o
    BY <1>1 DEF IsNew, InUse
  <2> QED BY <1>2, <1>6, <1>7, <1>8, <2>1, PutWorthy DEF Heeds, Fair
<1>10. Owns(k, w, id, msg.str)
  <2>1. idMap'[n][id] = o
    BY <1>4, <1>8, NodesTables DEF OnNodes
  <2>2. heap'[n][o] = entry
    BY <1>8, NodesTables DEF SetEntry, OnNodes
  <2> QED BY <1>4, <1>5, <1>7, <1>8, <2>1, <2>2 DEF Heeds, Fair, Known
<1>11. made \in Downward(k, g, w)
  <2>1. 0 \in SeqNums
    BY HalfRangeAssumption DEF SeqNums
  <2> QED BY <1>3, <1>4, <1>6, <1>7, <1>10, <2>1, SaysOwnValue
<1> HIDE DEF made
<1>12. Sends(n, c, Downward(k, g, w))
  BY <1>2, <1>11, SaysOne
<1> QED BY <1>2, <1>9, <1>12 DEF Vouches, Informed, HasTo

LEMMA AssignUnknownVouches ==
  ASSUME TablesInv, NEW n \in Nodes, NEW c \in Conns, NEW msg \in PeerMessages,
         msg.type = "EntryAssign", AssignUnknown(n, c, msg),
         NEW k, NEW g, NEW w, Heeds(n, msg, k, g, w)
  PROVE  Vouches(n, c, k, g, w)
<1> DEFINE entry == NewEntry(msg.str, msg.val, msg.flags, msg.id, 0)
<1>1. PICK o \in Objs : IsNew(n, o) /\ AddEntry(n, o, entry)
  BY DEF AssignUnknown
<1>2. ~ IsServer(n) /\ msg.id # Unassigned /\ UNCHANGED <<hand, resume>>
  BY DEF AssignUnknown
<1>3. msg.id \in Ids /\ n # Server
  BY <1>2, PeerMessageFields, IsId, WhoServes DEF TablesInv
<1>4. msg.val \in g[msg.str]
  BY <1>3, ToldName DEF Heeds
<1>5. entry.val = msg.val /\ entry.name = msg.str
  BY DEF NewEntry
<1>6. SetEntry(n, o, entry) /\ o # Nil
  BY <1>1, NodesTables DEF AddEntry
<1> HIDE DEF entry
<1>7. Worthy(heap'[n], resume'[n], g)
  <2>1. \A d \in Conns : resume[n][d].obj # o
    BY <1>1 DEF IsNew, InUse
  <2> QED BY <1>2, <1>4, <1>5, <1>6, <2>1, PutWorthy DEF Heeds, Fair
<1> QED BY <1>2, <1>7 DEF Vouches, Informed, HasTo, Sends

\* What is done, and told, with an assignment to an entry that is e.
LEMMA AssignedWorth ==
  ASSUME NEW msg \in EntryAssigns, NEW e \in Entry, NEW may \in BOOLEAN, NEW rev3 \in BOOLEAN,
         NEW g, e.name \in Names => msg.val \in g[e.name] /\ e.val \in g[e.name]
  PROVE  LET new == Assigned(msg, e, may, rev3) IN new.name \in Names => new.val \in g[new.name]
<1>1. /\ Assigned(msg, e, may, rev3).name = e.name
      /\ Assigned(msg, e, may, rev3).val \in {msg.val, e.val}
  BY DEF Assigned, Entry
<1> QED BY <1>1

LEMMA TakeAssignSends ==
  ASSUME NEW n \in Nodes, NEW c \in Conns, NEW msg \in EntryAssigns, NEW e \in Entry,
         NEW may \in BOOLEAN, NEW rev3 \in BOOLEAN, TakeAssign(n, c, msg, e, may, rev3),
         NEW k, NEW g, NEW w, e.name \in Names, msg.val \in g[e.name],
         msg.id # Unassigned => Owns(k, w, msg.id, e.name),
         may => e.id = msg.id /\ e.val \in Values /\ e.val \in g[e.name]
  PROVE  Sends(n, c, Downward(k, g, w))
<1> DEFINE new == Assigned(msg, e, may, rev3)
           made == EntryAssign(e.name, msg.id, msg.seq, msg.val, new.flags)
           newer == EntryUpdate(e.id, e.seq, e.val)
<1>1. /\ msg.id \in AnyId /\ msg.val \in Values /\ msg.seq \in SeqNums /\ new.flags \in BOOLEAN
  BY AssignedKeeps, PeerMessageFields, MessageKinds
<1>2. CASE Send(n, c, IF may THEN <<Out(newer, Nil)>> ELSE <<>>)
  <2>1. e.id \in AnyId /\ e.seq \in SeqNums
    BY DEF Entry
  <2>2. may => newer \in Downward(k, g, w)
    BY <1>1, <2>1, SaysOwnValue
  <2> HIDE DEF newer
  <2> QED BY <1>2, <2>2, SaysOne, SaysNone
<1>3. CASE UNCHANGED hand
  BY <1>3 DEF Sends
<1>4. CASE Relay(n, c, made)
  <2>1. made \in Downward(k, g, w)
    BY <1>1, SaysOwnValue
  <2> HIDE DEF made
  <2> QED BY <1>4, <2>1, SaysAgain
<1> QED BY <1>2, <1>3, <1>4 DEF TakeAssign

LEMMA AssignKnownVouches ==
  ASSUME TablesInv, NEW n \in Nodes, NEW c \in Conns, NEW msg \in PeerMessages, NEW rev3 \in BOOLEAN,
         msg.type = "EntryAssign", AssignKnown(n, c, msg, rev3),
         NEW k, NEW g, NEW w, Heeds(n, msg, k, g, w)
  PROVE  Vouches(n, c, k, g, w)
<1> DEFINE o == Lookup(n, msg.id)
           e == heap[n][o]
           new == Assigned(msg, e, FALSE, rev3)
<1>1. /\ o # Nil /\ SetEntry(n, o, new) /\ TakeAssign(n, c, msg, e, FALSE, rev3)
      /\ UNCHANGED resume
  BY DEF AssignKnown
<1>2. /\ msg.id \in Ids /\ o \in Objs /\ e \in Entry /\ msg \in EntryAssigns
      /\ Owns(k, w, msg.id, e.name)
  BY <1>1, IdsOwned, IsAssignment DEF Heeds, Informed
<1>3. msg.val \in g[e.name]
  BY <1>2, ToldOfName DEF Heeds
<1>4. new.name = e.name /\ new.id = e.id
  BY <1>2, AssignedKeeps
<1>5. new.name \in Names => new.val \in g[new.name]
  <2>1. e.name \in Names => e.val \in g[e.name]
    BY <1>2 DEF Heeds, Fair, Worthy
  <2> HIDE DEF o
  <2> QED BY <1>2, <1>3, <2>1, AssignedWorth
<1> HIDE DEF o, new
<1>6. Worthy(heap'[n], resume'[n], g)
  BY <1>1, <1>2, <1>4, <1>5, PutWorthy DEF Heeds, Fair
<1>7. Sends(n, c, Downward(k, g, w))
  BY <1>1, <1>2, <1>3, TakeAssignSends DEF Owns
<1> QED BY <1>1, <1>6, <1>7 DEF Vouches, Informed, HasTo

LEMMA BindVouches ==
  ASSUME TablesInv, NEW n \in Nodes, NEW c \in Conns, n = Server \/ n = c, NEW msg \in PeerMessages,
         msg.type = "EntryAssign", Bind(n, c, msg), NEW k, NEW g, NEW w, Heeds(n, msg, k, g, w)
  PROVE  Vouches(n, c, k, g, w)
<1> DEFINE o == ents[n][msg.str]
           bound == [EntryOf(n, msg.str) EXCEPT !.id = msg.id]
           new == Assigned(msg, bound, TRUE, FALSE)
           left == [msg |-> msg, obj |-> o]
<1>1. ~ IsServer(n) /\ msg.id # Unassigned /\ Exists(n, msg.str) /\ Free(n, c)
  BY DEF Bind
<1>2. \/ SetEntry(n, o, new) /\ TakeAssign(n, c, msg, bound, TRUE, FALSE) /\ UNCHANGED resume
      \/ /\ SetEntry(n, o, bound) /\ Send(n, c, <<Out(FlagsUpdate(msg.id, bound.flags), Nil)>>)
         /\ resume' = [resume EXCEPT ![n][c] = left]
  BY DEF Bind
<1>3. msg.id \in Ids /\ msg.id \in AnyId /\ msg.str \in Names /\ msg \in EntryAssigns
  BY <1>1, PeerMessageFields, IsId, IsAssignment
<1>4. n # Server /\ n = c
  BY <1>1, WhoServes DEF TablesInv
<1>5. o \in Objs /\ EntryOf(n, msg.str) \in Entry /\ EntryOf(n, msg.str).val \in Values
      /\ EntryOf(n, msg.str).name = msg.str
  BY <1>1, <1>3, EntryValue
<1>6. Owns(k, w, msg.id, msg.str) /\ msg.val \in g[msg.str] /\ msg \in Downward(k, g, w)
  BY <1>3, <1>4, ToldName DEF Heeds
<1>7. EntryOf(n, msg.str).val \in g[msg.str]
  BY <1>3, <1>5 DEF Heeds, Fair, Worthy, EntryOf
<1>8. /\ bound \in Entry /\ bound.val = EntryOf(n, msg.str).val /\ bound.name = msg.str
      /\ bound.flags \in BOOLEAN /\ bound.id = msg.id
  BY <1>3, <1>5 DEF Entry
<1> HIDE DEF bound
<1>9. new.name = msg.str /\ new.id = msg.id /\ new.val \in g[msg.str]
  <2>1. new.name = bound.name /\ new.id = bound.id
    BY <1>3, <1>8, AssignedKeeps
  <2>2. new.name \in Names => new.val \in g[new.name]
    BY <1>3, <1>6, <1>7, <1>8, AssignedWorth
  <2> QED BY <1>3, <1>8, <2>1, <2>2
<1> HIDE DEF new
<1>10. \A d \in Conns : resume[n][d] = Nothing
  BY <1>1, <1>4 DEF TablesInv, Roles, Free
<1>11. CASE SetEntry(n, o, new) /\ TakeAssign(n, c, msg, bound, TRUE, FALSE) /\ UNCHANGED resume
  <2>1. Worthy(heap'[n], resume'[n], g)
    BY <1>5, <1>9, <1>10, <1>11, PutWorthy DEF Heeds, Fair
  <2>2. Sends(n, c, Downward(k, g, w))
    BY <1>3, <1>5, <1>6, <1>7, <1>8, <1>11, TakeAssignSends
  <2> QED BY <1>11, <2>1, <2>2 DEF Vouches, Informed, HasTo
<1>12. CASE /\ SetEntry(n, o, bound) /\ Send(n, c, <<Out(FlagsUpdate(msg.id, bound.flags), Nil)>>)
            /\ resume' = [resume EXCEPT ![n][c] = left]
  <2>1. resume'[n] = [resume[n] EXCEPT ![c] = left]
    BY <1>12, NodesTables DEF OnNodes
  <2>2. resume[n] = [d \in Conns |-> resume[n][d]]
    BY DEF TablesInv, RInv, Resolves, ReadersOK
  <2>3. left.obj = o /\ left.msg = msg
    OBVIOUS
  <2> HIDE DEF left
  <2>4. \A d \in Conns : resume'[n][d] = IF d = c THEN left ELSE Nothing
    BY <1>10, <2>1, <2>2
  <2> HIDE DEF o
  <2>5. Worthy(heap'[n], resume'[n], g)
    <3>1. bound.name \in Names => bound.val \in g[bound.name]
      BY <1>7, <1>8
    <3>2. \A d \in Conns :
             \/ resume'[n][d] = Nothing
             \/ /\ resume'[n][d].obj = o /\ resume'[n][d].msg.id = bound.id
                /\ resume'[n][d].msg.str = bound.name /\ resume'[n][d].msg.val \in g[bound.name]
      BY <1>6, <1>8, <2>3, <2>4
    <3> QED BY <1>5, <1>12, <3>1, <3>2, PutWorthy DEF Heeds, Fair
  <2>6. FlagsUpdate(msg.id, bound.flags) \in Downward(k, g, w)
    BY <1>3, <1>8, ValuelessMessages
  <2>7. Sends(n, c, Downward(k, g, w))
    BY <1>12, <2>6, SaysOne
  <2>8. HasTo(resume'[n], Downward(k, g, w))
    BY <1>6, <2>3, <2>4 DEF HasTo
  <2> QED BY <2>5, <2>7, <2>8 DEF Vouches
<1> QED BY <1>2, <1>11, <1>12

LEMMA BindResumedVouches ==
  ASSUME TablesInv, NEW c \in Conns, BindResumed(c, c), NEW k, NEW g, NEW w, Fair(c, k, g, w)
  PROVE  Vouches(c, c, k, g, w)
<1> DEFINE r == resume[c][c]
           o == r.obj
           e == heap[c][o]
           taken == Assigned(r.msg, e, TRUE, FALSE)
           entry == IF o \in Referenced(ents[c], idMap[c]) THEN taken ELSE FreeEntry
<1>1. /\ r # Nothing /\ SetEntry(c, o, entry) /\ TakeAssign(c, c, r.msg, e, TRUE, FALSE)
      /\ resume' = [resume EXCEPT ![c][c] = Nothing]
  BY DEF BindResumed
<1>2. c \in Nodes /\ \A d \in Conns : d # c => resume[c][d] = Nothing
  BY ServerIsOne DEF TablesInv, Roles
<1>3. o \in Objs /\ r.msg \in EntryAssigns
  BY <1>1, <1>2, ReaderObjects
<1>4. e \in Entry /\ Valued(heap[c])
  BY <1>2, <1>3, NodesTables DEF HasValues
<1>5. /\ r.msg.val \in g[r.msg.str] /\ e.id = r.msg.id /\ e.name = r.msg.str /\ r.msg.str \in Names
  BY <1>1, <1>3, AssignmentFields DEF Fair, Worthy
<1>6. e.val \in g[e.name] /\ e.val \in Values
  BY <1>3, <1>4, <1>5 DEF Fair, Worthy, Valued
<1>7. entry.name \in Names => entry.val \in g[entry.name]
  <2>1. taken.name \in Names => taken.val \in g[taken.name]
    BY <1>3, <1>4, <1>5, <1>6, AssignedWorth
  <2> QED BY <2>1, MessagesAssumption DEF FreeEntry
<1>8. resume'[c] = [resume[c] EXCEPT ![c] = Nothing] /\ resume[c] = [d \in Conns |-> resume[c][d]]
  BY <1>1, <1>2, NodesTables DEF OnNodes, TablesInv, RInv, Resolves, ReadersOK
<1>9. \A d \in Conns : resume'[c][d] = Nothing
  BY <1>2, <1>8
<1>10. Worthy(heap'[c], resume'[c], g)
  <2> HIDE DEF entry, o
  <2> QED BY <1>1, <1>2, <1>3, <1>7, <1>9, PutWorthy DEF Fair
<1>11. ASSUME Informed(c, k, g, w)
       PROVE  Sends(c, c, Downward(k, g, w))
  <2>1. r.msg \in Downward(k, g, w)
    BY <1>1, <1>11 DEF Informed, HasTo
  <2>2. r.msg.id # Unassigned => Owns(k, w, r.msg.id, r.msg.str)
    <3>1. r.msg.id \in AnyId
      BY <1>3, AssignmentFields
    <3> QED BY <1>3, <2>1, <3>1, IsId, ToldName, MessageKinds
  <2> HIDE DEF r, o, e
  <2> QED BY <1>1, <1>2, <1>3, <1>4, <1>5, <1>6, <2>2, TakeAssignSends
<1> QED BY <1>9, <1>10, <1>11 DEF Vouches, HasTo

LEMMA TakeUpdateVouches ==
  ASSUME TablesInv, NEW n \in Nodes, NEW c \in Conns, NEW msg \in PeerMessages,
         msg.type = "EntryUpdate", TakeUpdate(n, c, msg),
         NEW k, NEW g, NEW w, Heeds(n, msg, k, g, w)
  PROVE  Vouches(n, c, k, g, w)
<1> DEFINE o == Lookup(n, msg.id)
           e == heap[n][o]
           entry == [e EXCEPT !.val = msg.val, !.seq = msg.seq]
<1>1. o # Nil /\ SetEntry(n, o, entry) /\ Relay(n, c, msg) /\ UNCHANGED resume
  BY DEF TakeUpdate
<1>2. msg.id \in Ids /\ o \in Objs /\ e \in Entry /\ Owns(k, w, msg.id, e.name)
  BY <1>1, IdsOwned DEF Heeds, Informed
<1>3. msg.val \in g[e.name]
  BY <1>2, ToldOfName DEF Heeds
<1>4. entry.val = msg.val /\ entry.name = e.name /\ entry.id = e.id
  BY <1>2 DEF Entry
<1> HIDE DEF o, entry
<1>5. Worthy(heap'[n], resume'[n], g)
  BY <1>1, <1>2, <1>3, <1>4, PutWorthy DEF Heeds, Fair
<1>6. msg \in Downward(k, g, w)
  BY DEF Heeds, Downward
<1>7. Sends(n, c, Downward(k, g, w))
  BY <1>1, <1>6, SaysAgain
<1> QED BY <1>1, <1>5, <1>7 DEF Vouches, Informed, HasTo

LEMMA TakeFlagsVouches ==
  ASSUME TablesInv, NEW n \in Nodes, NEW c \in Conns, NEW msg \in PeerMessages,
         msg.type = "FlagsUpdate", TakeFlags(n, c, msg),
         NEW k, NEW g, NEW w, Heeds(n, msg, k, g, w)
  PROVE  Vouches(n, c, k, g, w)
<1> DEFINE o == Lookup(n, msg.id)
           e == heap[n][o]
           entry == [e EXCEPT !.flags = msg.flags]
<1>1. o # Nil /\ SetEntry(n, o, entry) /\ Relay(n, c, msg) /\ UNCHANGED resume
  BY DEF TakeFlags
<1>2. o \in Objs /\ e \in Entry
  BY <1>1, ResolveTypes DEF TablesInv
<1>3. entry.val = e.val /\ entry.name = e.name /\ entry.id = e.id
  BY <1>2 DEF Entry
<1>4. e.name \in Names => e.val \in g[e.name]
  BY <1>2 DEF Heeds, Fair, Worthy
<1> HIDE DEF o, entry
<1>5. Worthy(heap'[n], resume'[n], g)
  BY <1>1, <1>2, <1>3, <1>4, PutWorthy DEF Heeds, Fair
<1>6. msg \in Downward(k, g, w)
  BY SaysNoValue DEF AnyMessages
<1>7. Sends(n, c, Downward(k, g, w))
  BY <1>1, <1>6, SaysAgain
<1> QED BY <1>1, <1>5, <1>7 DEF Vouches, Informed, HasTo

LEMMA TakeDeleteVouches ==
  ASSUME TablesInv, NEW n \in Nodes, NEW c \in Conns, NEW msg \in PeerMessages,
         \/ msg.type = "EntryDelete" /\ TakeDelete(n, c, msg)
         \/ msg.type = "ClearEntries" /\ TakeClear(n, c, msg),
         NEW k, NEW g, NEW w, Heeds(n, msg, k, g, w)
  PROVE  Vouches(n, c, k, g, w)
<1>1. Worthy(heap'[n], resume'[n], g) /\ UNCHANGED resume /\ Relay(n, c, msg)
  <2>1. CASE TakeDelete(n, c, msg)
    <3> DEFINE name == heap[n][Lookup(n, msg.id)].name
    <3>1. RemoveEntry(n, msg.id, name) /\ Relay(n, c, msg) /\ UNCHANGED resume
      BY <2>1 DEF TakeDelete
    <3> HIDE DEF name
    <3> QED BY <3>1, RemoveEntryWorthy DEF Heeds, Fair
  <2>2. CASE TakeClear(n, c, msg)
    BY <2>2, ClearImplWorthy DEF Heeds, Fair, TakeClear
  <2> QED BY <2>1, <2>2
<1>2. msg \in Downward(k, g, w)
  BY SaysNoValue DEF AnyMessages
<1>3. Sends(n, c, Downward(k, g, w))
  BY <1>1, <1>2, SaysAgain
<1> QED BY <1>1, <1>3 DEF Vouches, Informed, HasTo

\* Whatever is processed that came by a stream.
LEMMA ProcessIncomingVouches ==
  ASSUME TablesInv, NEW n \in Nodes, NEW c \in Conns, n = Server \/ n = c, NEW msg \in WireMessages,
         ProcessIncoming(n, c, msg, TRUE), NEW k, NEW g, NEW w, Heeds(n, msg, k, g, w)
  PROVE  Vouches(n, c, k, g, w)
<1>1. CASE msg \in PeerMessages /\ ~ Ignored(n, c, msg)
  BY <1>1, AssignNewVouches, AssignUnknownVouches, AssignKnownVouches, BindVouches,
     TakeUpdateVouches, TakeFlagsVouches, TakeDeleteVouches DEF ProcessIncoming
<1>2. CASE Ignored(n, c, msg)
  <2>1. UNCHANGED <<heap, hand, resume>>
    BY <1>2 DEF Ignored, storageVars
  <2> QED BY <2>1 DEF Heeds, Fair, Vouches, Informed, HasTo, Sends
<1>3. CASE msg = HelloDone
  <2>1. msg.type = "HelloDone"
    BY <1>3, MessageKinds
  <2>2. Ignored(n, c, msg)
    BY <2>1 DEF ProcessIncoming
  <2> QED BY <1>2, <2>2
<1> QED BY <1>1, <1>2, <1>3 DEF WireMessages

\* A reader ends, and what only it referred to is collected; or a user's call ends.
LEMMA GivenUpVouches ==
  ASSUME TablesInv, NEW n \in Nodes, NEW t \in Threads, ThreadOf(n, t),
         hand' = [hand EXCEPT ![n][t] = <<>>],
         \/ UNCHANGED <<heap, resume>>
         \/ /\ t \in Conns /\ resume' = [resume EXCEPT ![n][t] = Nothing]
            /\ heap' = [heap EXCEPT ![n] =
                 [o \in Objs |-> IF o \in Referenced(ents[n], idMap[n]) THEN @[o] ELSE FreeEntry]],
         NEW k, NEW g, NEW w, Fair(n, k, g, w)
  PROVE  Vouches(n, t, k, g, w)
<1>1. Sends(n, t, Downward(k, g, w))
  <2> DEFINE outs == <<>>
  <2>1. hand' = [hand EXCEPT ![n][t] = outs] /\ \A i \in DOMAIN outs : outs[i].msg \in Downward(k, g, w)
    OBVIOUS
  <2> HIDE DEF outs
  <2> QED BY <2>1 DEF Sends
<1>2. CASE UNCHANGED <<heap, resume>>
  BY <1>1, <1>2 DEF Fair, Vouches, Informed, HasTo
<1>3. CASE /\ t \in Conns /\ resume' = [resume EXCEPT ![n][t] = Nothing]
           /\ heap' = [heap EXCEPT ![n] =
                [o \in Objs |-> IF o \in Referenced(ents[n], idMap[n]) THEN @[o] ELSE FreeEntry]]
  <2>1. /\ heap'[n] = [o \in Objs |-> IF o \in Referenced(ents[n], idMap[n]) THEN heap[n][o] ELSE FreeEntry]
        /\ resume'[n] = [resume[n] EXCEPT ![t] = Nothing]
    BY <1>3, NodesTables DEF OnNodes
  <2>2. resume[n] = [d \in Conns |-> resume[n][d]]
    BY DEF TablesInv, RInv, Resolves, ReadersOK
  <2>3. \A d \in Conns : resume'[n][d] = Nothing
    <3>1. \A d \in Conns : d # t => resume[n][d] = Nothing
      <4>1. CASE n = Server
        BY <4>1, WhoServes DEF TablesInv, IInv, NothingLeft
      <4>2. CASE n # Server
        <5>1. t = n
          BY <1>3, <4>2, StorageAssumption DEF ThreadOf
        <5> QED BY <5>1 DEF TablesInv, Roles
      <4> QED BY <4>1, <4>2
    <3> QED BY <2>1, <2>2, <3>1
  <2>4. \A o \in Objs : heap'[n][o] = heap[n][o] \/ heap'[n][o] = FreeEntry
    BY <2>1
  <2>5. Worthy(heap'[n], resume'[n], g)
    BY <2>3, <2>4, MessagesAssumption DEF Fair, Worthy, FreeEntry
  <2> QED BY <1>1, <2>3, <2>5 DEF Vouches, HasTo
<1> QED BY <1>2, <1>3
-----------------------------------------------------------------------------
(* All the nodes *)

UpThen(n) == n = Server \/ state'[n].cli \in {"Synchronized", "Active"}

NodesTalkThen(k, g, w) ==
    \A n \in Nodes :
        /\ Worthy(heap'[n], resume'[n], g)
        /\ UpThen(n) => /\ Known(heap'[n], idMap'[n], k, w)
                        /\ HasTo(resume'[n], Downward(k, g, w)) /\ Holds(hand'[n], Downward(k, g, w))

LinksTalkThen(k, g, w) ==
    \A c \in Conns :
        Carries(pend'[c], prepared'[c], wire'[c], incoming'[c], Upward(k, g, w), Downward(k, g, w))

LEMMA TalkThen ==
  ASSUME NEW w \in Owners, NodesTalkThen(idCount'[Server], given', w),
         LinksTalkThen(idCount'[Server], given', w)
  PROVE  Talk'
BY DEF Talk, NodesTalk, NodesTalkThen, LinksTalk, LinksTalkThen, Up, UpThen

LEMMA KnownGrows ==
  ASSUME NEW k, NEW g, NEW w, NEW kk, NEW gg, NEW ww, Extends(k, g, w, kk, gg, ww),
         NEW h, NEW m, Known(h, m, k, w)
  PROVE  Known(h, m, kk, ww)
BY Grown DEF Known

LEMMA SaidGrows ==
  ASSUME NEW k, NEW g, NEW w, NEW kk, NEW gg, NEW ww, Extends(k, g, w, kk, gg, ww)
  PROVE  /\ \A r : HasTo(r, Downward(k, g, w)) => HasTo(r, Downward(kk, gg, ww))
         /\ \A hd : Holds(hd, Downward(k, g, w)) => Holds(hd, Downward(kk, gg, ww))
         /\ \A s : Consists(s, Downward(k, g, w)) => Consists(s, Downward(kk, gg, ww))
         /\ \A s : Consists(s, Upward(k, g, w)) => Consists(s, Upward(kk, gg, ww))
BY Grown DEF HasTo, Holds, Consists

LEMMA LinkGrows ==
  ASSUME NEW k, NEW g, NEW w, NEW kk, NEW gg, NEW ww, Extends(k, g, w, kk, gg, ww),
         NEW p, NEW r, NEW s, NEW i, Carries(p, r, s, i, Upward(k, g, w), Downward(k, g, w))
  PROVE  Carries(p, r, s, i, Upward(kk, gg, ww), Downward(kk, gg, ww))
BY SaidGrows DEF Carries

LEMMA WorthGrows ==
  ASSUME TablesInv, NEW n \in Nodes, NEW k, NEW g, NEW w, NEW kk, NEW gg, NEW ww,
         Extends(k, g, w, kk, gg, ww), Worthy(heap[n], resume[n], g)
  PROVE  Worthy(heap[n], resume[n], gg)
<1>1. \A o \in Objs : heap[n][o].name \in Names => heap[n][o].val \in gg[heap[n][o].name]
  BY DEF Worthy, Extends
<1>2. ASSUME NEW c \in Conns, resume[n][c] # Nothing
      PROVE  resume[n][c].msg.val \in gg[resume[n][c].msg.str]
  <2>1. resume[n][c].msg.str \in Names
    BY <1>2, ReaderObjects, AssignmentFields
  <2> QED BY <1>2, <2>1 DEF Worthy, Extends
<1> QED BY <1>1, <1>2 DEF Worthy

\* Whatever ids a server has given by then, each is that of one name.
LEMMA OwnersGrow ==
  ASSUME TablesInv, TablesInv', FitsStay, NEW g, NEW gg, \A name \in Names : g[name] \subseteq gg[name],
         NEW w \in Owners, Known(heap[Server], idMap[Server], idCount[Server], w)
  PROVE  \E ww \in Owners :
            /\ Extends(idCount[Server], g, w, idCount'[Server], gg, ww)
            /\ Known(heap'[Server], idMap'[Server], idCount'[Server], ww)
<1> DEFINE k == idCount[Server]
           kk == idCount'[Server]
           name(id) == heap'[Server][idMap'[Server][id]].name
           ww == [id \in Ids |-> IF id < k THEN w[id]
                                 ELSE IF idMap'[Server][id] # Nil THEN name(id) ELSE Nil]
<1>1. k \in Nat /\ k <= Unassigned /\ Unassigned \in Nat
  BY ServerOwns, MessagesAssumption DEF NodeOK, TablesOK, TablesType, AnyId
<1>2. NodeOK(Server)'
  <2>1. AlwaysServer(Server)'
    BY ServerIsOne DEF TablesInv, Roles, AlwaysServer
  <2> QED BY <2>1, ServerIsOne DEF TablesInv, IInv
<1>3. kk \in Nat
  BY <1>2, MessagesAssumption DEF NodeOK, TablesOK, TablesType, AnyId
<1>4. \A id \in Ids : idMap'[Server][id] # Nil => id < kk /\ name(id) \in Names
  <2>1. TablesOK(heap'[Server], ents'[Server], idMap'[Server], idCount'[Server])
    BY <1>2 DEF NodeOK
  <2> QED BY <2>1 DEF TablesOK, TablesType, NamesHaveIds, IdsHaveNames
<1>5. \A id \in Ids : id < k => Fits(id, w[id]) /\ id < kk
  <2>1. \A id \in Ids : id < k => Fits(id, w[id])
    BY DEF Known, Owns, Fits
  <2> QED BY <2>1 DEF FitsStay, FitsThen
<1>6. k <= kk
  <2>1. CASE k = 0
    BY <1>3, <2>1
  <2>2. CASE k # 0
    <3>1. k - 1 \in Ids /\ k - 1 < k
      BY <1>1, <2>2 DEF Ids
    <3>2. k - 1 < kk
      BY <1>5, <3>1
    <3> QED BY <1>1, <1>3, <3>2
  <2> QED BY <2>1, <2>2
<1>7. \A id \in Ids : id < k /\ idMap'[Server][id] # Nil => name(id) = w[id]
  BY <1>5 DEF FitsStay, FitsThen
<1>8. ww \in Owners
  BY <1>4 DEF Owners
<1>9. Extends(k, g, w, kk, gg, ww)
  BY <1>1, <1>3, <1>6 DEF Extends
<1>10. Known(heap'[Server], idMap'[Server], kk, ww)
  BY <1>4, <1>7 DEF Known, Owns
<1> HIDE DEF ww
<1> QED BY <1>8, <1>9, <1>10

\* A thread's work leaves all the nodes with what they may have and say.
LEMMA WorkTalks ==
  ASSUME SyncInv, NEW w \in Owners, NodesTalk(idCount[Server], given, w),
         \A name \in Names : given[name] \subseteq given'[name],
         NEW n \in Nodes, NEW t \in Threads, ThreadOf(n, t), NEW msg, Works(n, t, msg),
         n # Server => msg \in Downward(idCount[Server], given, w),
         \A m \in Nodes : UpThen(m) => Up(m),
         \A kk, gg, ww :
            /\ Extends(idCount[Server], given, w, kk, gg, ww) /\ gg = given'
            /\ Fair(n, kk, gg, ww) /\ (Up(n) => Informed(n, kk, gg, ww))
            => Vouches(n, t, kk, gg, ww)
  PROVE  \E ww \in Owners :
            /\ Extends(idCount[Server], given, w, idCount'[Server], given', ww)
            /\ NodesTalkThen(idCount'[Server], given', ww)
<1>1. TablesInv /\ hand \in [Nodes -> [Threads -> Seq(Outs)]]
  BY DEF SyncInv, LinksInv, LinkTypes
<1>2. TablesInv' /\ FitsStay
  BY WorkDone DEF SyncInv, LinksInv, LinkTypes, HonestInv
<1>3. Known(heap[Server], idMap[Server], idCount[Server], w)
  BY ServerIsOne DEF NodesTalk, Up
<1>4. PICK ww \in Owners :
         /\ Extends(idCount[Server], given, w, idCount'[Server], given', ww)
         /\ Known(heap'[Server], idMap'[Server], idCount'[Server], ww)
  BY <1>1, <1>2, <1>3, OwnersGrow
<1> DEFINE kk == idCount'[Server]
           gg == given'
           D == Downward(kk, gg, ww)
<1>5. Extends(idCount[Server], given, w, kk, gg, ww)
  BY <1>4
<1>6. \A m \in Nodes : /\ Worthy(heap[m], resume[m], gg)
                       /\ Up(m) => Informed(m, kk, gg, ww) /\ Holds(hand[m], D)
  <2>1. \A m \in Nodes : Worthy(heap[m], resume[m], gg)
    BY <1>1, <1>5, WorthGrows DEF NodesTalk
  <2>2. ASSUME NEW m \in Nodes, Up(m)
        PROVE  Informed(m, kk, gg, ww) /\ Holds(hand[m], D)
    <3>1. /\ Known(heap[m], idMap[m], idCount[Server], w)
          /\ HasTo(resume[m], Downward(idCount[Server], given, w))
          /\ Holds(hand[m], Downward(idCount[Server], given, w))
      BY <2>2 DEF NodesTalk
    <3>2. Known(heap[m], idMap[m], kk, ww)
      BY <1>5, <3>1, KnownGrows
    <3> QED BY <1>5, <3>1, <3>2, SaidGrows DEF Informed
  <2> QED BY <2>1, <2>2
<1>7. Fair(n, kk, gg, ww)
  BY <1>4, <1>6 DEF Fair
<1>8. Vouches(n, t, kk, gg, ww)
  BY <1>5, <1>6, <1>7
<1>9. n # Server => msg \in D
  BY <1>5, Grown
<1>10. Safe(n) /\ NamesById(n, msg) /\ Hands(n, t)
  BY DEF Works, Goes
<1> HIDE DEF kk, gg, D
<1>11. ASSUME NEW m \in Nodes
       PROVE  /\ Worthy(heap'[m], resume'[m], gg)
              /\ UpThen(m) => /\ Known(heap'[m], idMap'[m], kk, ww)
                              /\ HasTo(resume'[m], D) /\ Holds(hand'[m], D)
  <2>1. CASE m # n
    <3>1. heap'[m] = heap[m] /\ idMap'[m] = idMap[m] /\ resume'[m] = resume[m]
      BY <1>10, <2>1 DEF Safe, Elsewhere
    <3>2. hand'[m] = hand[m]
      BY <1>1, <1>10, <2>1 DEF Hands
    <3>3. UpThen(m) => Known(heap[m], idMap[m], kk, ww) /\ HasTo(resume[m], D) /\ Holds(hand[m], D)
      <4>1. UpThen(m) => Informed(m, kk, gg, ww) /\ Holds(hand[m], D)
        BY <1>6
      <4> QED BY <4>1 DEF Informed, D
    <3>4. Worthy(heap[m], resume[m], gg)
      BY <1>6
    <3> QED BY <3>1, <3>2, <3>3, <3>4
  <2>2. CASE m = n
    <3>1. Worthy(heap'[n], resume'[n], gg)
      BY <1>8 DEF Vouches
    <3>2. ASSUME UpThen(n)
          PROVE  /\ Known(heap'[n], idMap'[n], kk, ww)
                 /\ HasTo(resume'[n], D) /\ Holds(hand'[n], D)
      <4>1. Informed(n, kk, gg, ww) /\ Holds(hand[n], D)
        BY <1>6, <3>2
      <4>2. Sends(n, t, D) /\ HasTo(resume'[n], D)
        BY <1>8, <4>1 DEF Vouches, D
      <4>3. Holds(hand'[n], D)
        <5>1. CASE UNCHANGED hand
          <6>1. hand'[n] = hand[n]
            BY <5>1
          <6> QED BY <4>1, <6>1
        <5>2. CASE ~ UNCHANGED hand
          <6>1. PICK outs : hand' = [hand EXCEPT ![n][t] = outs] /\ \A i \in DOMAIN outs : outs[i].msg \in D
            BY <4>2, <5>2 DEF Sends
          <6>2. \A u \in Threads : hand'[n][u] = IF u = t THEN outs ELSE hand[n][u]
            BY <1>1, <6>1
          <6> QED BY <4>1, <6>1, <6>2 DEF Holds
        <5> QED BY <5>1, <5>2
      <4>4. Known(heap'[n], idMap'[n], kk, ww)
        <5>1. CASE n = Server
          BY <1>4, <5>1 DEF kk
        <5>2. CASE n # Server
          <6>1. ASSUME NEW id \in Ids, idMap'[n][id] # Nil
                PROVE  Owns(kk, ww, id, heap'[n][idMap'[n][id]].name)
            <7>1. CASE idMap[n][id] # Nil /\ heap'[n][idMap'[n][id]].name = heap[n][idMap[n][id]].name
              BY <4>1, <7>1 DEF Informed, Known
            <7>2. CASE msg.type = "EntryAssign" /\ id = msg.id /\ heap'[n][idMap'[n][id]].name = msg.str
              BY <1>9, <5>2, <7>2, ToldName DEF D
            <7> QED BY <1>10, <5>2, <6>1, <7>1, <7>2 DEF NamesById
          <6> QED BY <6>1 DEF Known
        <5> QED BY <5>1, <5>2
      <4> QED BY <4>2, <4>3, <4>4
    <3> QED BY <2>2, <3>1, <3>2
  <2> QED BY <2>1, <2>2
<1>12. NodesTalkThen(kk, gg, ww)
  BY <1>11 DEF NodesTalkThen, D
<1> QED BY <1>4, <1>12 DEF kk, gg

\* A thread of a node works; nothing is queued, sent or read.
LEMMA WorkKeepsTalk ==
  ASSUME SyncInv, TalkInv, ~ stale', NEW n \in Nodes, NEW t \in Threads, ThreadOf(n, t),
         Works(n, t, ClearEntries), UNCHANGED <<linkVars, displaced, stale>>,
         \A name \in Names : given[name] \subseteq given'[name],
         \A k, g, w : Fair(n, k, g, w) /\ g = given' => Vouches(n, t, k, g, w)
  PROVE  Talk' /\ displaced' = {}
<1>1. PICK w \in Owners : NodesTalk(idCount[Server], given, w) /\ LinksTalk(idCount[Server], given, w)
  BY DEF TalkInv, Talk
<1>2. UNCHANGED <<state, pend, prepared, wire, incoming>>
  BY DEF linkVars
<1>3. \A m \in Nodes : UpThen(m) => Up(m)
  BY <1>2 DEF Up, UpThen
<1>4. ClearEntries \in Downward(idCount[Server], given, w)
  BY ValuelessMessages
<1>5. PICK ww \in Owners :
         /\ Extends(idCount[Server], given, w, idCount'[Server], given', ww)
         /\ NodesTalkThen(idCount'[Server], given', ww)
  BY <1>1, <1>3, <1>4, WorkTalks
<1>6. LinksTalkThen(idCount'[Server], given', ww)
  <2>1. ASSUME NEW c \in Conns
        PROVE  Carries(pend[c], prepared[c], wire[c], incoming[c],
                       Upward(idCount'[Server], given', ww), Downward(idCount'[Server], given', ww))
    BY <1>1, <1>5, LinkGrows DEF LinksTalk
  <2> QED BY <1>2, <2>1 DEF LinksTalkThen
<1> QED BY <1>5, <1>6, TalkThen DEF TalkInv

LEMMA CallTalks ==
  ASSUME SyncInv, TalkInv, ~ stale', NEW n \in Nodes, NEW u \in Users, Call(n, u)
  PROVE  Talk' /\ displaced' = {}
<1>1. TableCall(n, u)
  BY Zenon DEF Call, TableCall
<1>2. UNCHANGED <<linkVars, displaced, stale>>
  BY DEF Call
<1>3. Works(n, u, ClearEntries) /\ u \in Threads /\ ThreadOf(n, u)
  BY <1>1, TableCallWorks DEF SyncInv, Threads, ThreadOf
<1>4. \/ \E name \in Names, value \in Values :
            /\ SetEntryValue(n, u, name, value) \/ SetEntryTypeValue(n, u, name, value)
            /\ given' = [given EXCEPT ![name] = @ \cup {value}]
      \/ UNCHANGED given /\ \E name \in Names, flags \in BOOLEAN : SetEntryFlags(n, u, name, flags)
      \/ UNCHANGED given /\ \E name \in Names : DeleteEntry(n, u, name)
      \/ UNCHANGED given /\ DeleteAllEntries(n, u)
  BY Zenon DEF Call, Give
<1>5. given \in [Names -> SUBSET Values]
  BY DEF TalkInv
<1>6. \A name \in Names : given[name] \subseteq given'[name]
  BY <1>4, <1>5
<1>7. ASSUME NEW k, NEW g, NEW w, Fair(n, k, g, w), g = given'
      PROVE  Vouches(n, u, k, g, w)
  <2>1. CASE \E name \in Names, value \in Values :
               /\ SetEntryValue(n, u, name, value) \/ SetEntryTypeValue(n, u, name, value)
               /\ given' = [given EXCEPT ![name] = @ \cup {value}]
    <3>1. PICK name \in Names, value \in Values :
             /\ SetEntryValue(n, u, name, value) \/ SetEntryTypeValue(n, u, name, value)
             /\ given' = [given EXCEPT ![name] = @ \cup {value}]
      BY <2>1
    <3>2. value \in g[name]
      BY <1>5, <1>7, <3>1
    <3> QED BY <1>7, <3>1, <3>2, TableCallVouches DEF SyncInv
  <2>2. CASE \/ \E name \in Names, flags \in BOOLEAN : SetEntryFlags(n, u, name, flags)
             \/ \E name \in Names : DeleteEntry(n, u, name)
             \/ DeleteAllEntries(n, u)
    BY <1>7, <2>2, TableCallVouches DEF SyncInv
  <2> QED BY <1>4, <2>1, <2>2
<1> QED BY <1>2, <1>3, <1>6, <1>7, WorkKeepsTalk

LEMMA ResumeTalks ==
  ASSUME SyncInv, TalkInv, ~ stale', NEW c \in Conns, Resume(c)
  PROVE  Talk' /\ displaced' = {}
<1>1. BindResumed(c, c) /\ UNCHANGED <<linkVars, displaced, stale, given>>
  BY DEF Resume, historyVars
<1>2. Works(c, c, ClearEntries) /\ c \in Nodes /\ c \in Threads /\ ThreadOf(c, c)
  BY <1>1, BindResumedWorks, ServerIsOne DEF SyncInv, Threads, ThreadOf
<1>3. \A k, g, w : Fair(c, k, g, w) => Vouches(c, c, k, g, w)
  BY <1>1, BindResumedVouches DEF SyncInv
<1> QED BY <1>1, <1>2, <1>3, WorkKeepsTalk
-----------------------------------------------------------------------------
(* What is queued *)

\* A message goes into the queues of some connections of its node.
LEMMA QueuesTalk ==
  ASSUME LinkTypes, NEW k, NEW g, NEW w, LinksTalk(k, g, w), NEW n \in Nodes, NEW msg \in PeerMessages,
         msg \in Upward(k, g, w), n = Server => msg \in Downward(k, g, w),
         \A c \in Conns : OwnPlaces(pend[c].srv),
         NEW conns \in SUBSET Conns, NEW new, Queued(n, msg, conns, new)
  PROVE  \A c \in Conns : /\ Consists(pend'[c].srv.list, Downward(k, g, w))
                          /\ Consists(pend'[c].cli.list, Upward(k, g, w))
<1> DEFINE end == EndOf(n)
           U == Upward(k, g, w)
           D == Downward(k, g, w)
           S == IF n = Server THEN D ELSE U
<1>1. end \in Ends /\ (n = Server <=> end = "srv") /\ (n # Server <=> end = "cli")
  BY DEF EndOf, Ends
<1>2. \A c \in Conns, e \in Ends : Fine(pend[c][e])
  BY DEF LinkTypes, Fine
<1>3. Blank \in D /\ Blank \in U
  BY ValuelessMessages DEF Downward
<1>4. \A c \in Conns : Consists(pend[c].srv.list, D) /\ Consists(pend[c].cli.list, U)
  BY DEF LinksTalk, Carries
<1>5. ASSUME NEW c \in conns
      PROVE  Consists(new[c].list, S)
  <2> DEFINE q == QueueOutgoing(pend[c][end], msg)
  <2>1. Fine(q)
    BY <1>1, <1>2, QueueKeeps
  <2>2. new[c] = q \/ new[c] = [q EXCEPT !.fault = FALSE]
    BY DEF Queued
  <2>3. Meets(pend[c][end], msg) => Merged(pend[c][end], msg.id, msg) \in S
    <3>1. CASE n = Server
      BY <1>1, <1>2, <1>4, <3>1, MergedTells
    <3>2. CASE n # Server
      BY <1>1, <1>2, <3>2, MergedTells
    <3> QED BY <3>1, <3>2
  <2>4. Consists(q.list, S)
    <3>1. Consists(pend[c][end].list, S) /\ Blank \in S /\ msg \in S /\ Fine(pend[c][end])
      BY <1>1, <1>2, <1>3, <1>4
    <3> HIDE DEF S, end
    <3> QED BY <2>3, <3>1, QueueConsists
  <2> HIDE DEF q
  <2> QED BY <2>1, <2>2, <2>4, FaultType DEF Fine
<1> HIDE DEF end
<1>6. \A c \in Conns, e \in Ends :
         pend'[c][e] = IF c \in conns /\ e = end THEN new[c] ELSE pend[c][e]
  BY <1>1 DEF LinkTypes, Queued, end
<1>7. ASSUME NEW c \in Conns
      PROVE  Consists(pend'[c].srv.list, D) /\ Consists(pend'[c].cli.list, U)
  <2>1. /\ pend'[c].srv = IF c \in conns /\ end = "srv" THEN new[c] ELSE pend[c].srv
        /\ pend'[c].cli = IF c \in conns /\ end = "cli" THEN new[c] ELSE pend[c].cli
    BY <1>6 DEF Ends
  <2> HIDE DEF D, U
  <2> QED BY <1>1, <1>4, <1>5, <2>1
<1> QED BY <1>7

\* A step that leaves the tables alone, and takes up no node.
LEMMA NodesAsTheyAre ==
  ASSUME NEW w, NodesTalk(idCount[Server], given, w),
         UNCHANGED <<heap, idMap, idCount, resume, given>>, \A m \in Nodes : UpThen(m) => Up(m),
         \A m \in Nodes : \A S : Holds(hand[m], S) => Holds(hand'[m], S)
  PROVE  NodesTalkThen(idCount'[Server], given', w)
<1> DEFINE D == Downward(idCount[Server], given, w)
<1>1. ASSUME NEW m \in Nodes
      PROVE  /\ Worthy(heap[m], resume[m], given)
             /\ UpThen(m) => /\ Known(heap[m], idMap[m], idCount[Server], w)
                             /\ HasTo(resume[m], D) /\ Holds(hand'[m], D)
  BY DEF NodesTalk
<1> HIDE DEF D
<1>2. D = Downward(idCount'[Server], given', w)
  BY DEF D
<1> QED BY <1>1, <1>2 DEF NodesTalkThen

LEMMA NothingDisplaced ==
  ASSUME TalkInv, ~ stale', NEW n, NEW msg, NEW conns, Displacing(n, msg, conns)
  PROVE  ~ stale /\ displaced = {} /\ displaced' = {}
BY DEF TalkInv, Displacing

\* A node that is not up queues nothing.
LEMMA TargetsTalk ==
  ASSUME SyncInv, displaced = {}, NEW w, NodesTalk(idCount[Server], given, w),
         LinksTalk(idCount[Server], given, w), NEW n \in Nodes, NEW t \in Threads, hand[n][t] # <<>>,
         NEW conns \in SUBSET Targets(n, Head(hand[n][t]).except), NEW new,
         Queued(n, Head(hand[n][t]).msg, conns, new)
  PROVE  \A c \in Conns : /\ Consists(pend'[c].srv.list, Downward(idCount[Server], given, w))
                          /\ Consists(pend'[c].cli.list, Upward(idCount[Server], given, w))
<1> DEFINE out == Head(hand[n][t])
           U == Upward(idCount[Server], given, w)
           D == Downward(idCount[Server], given, w)
<1>1. LinkTypes
  BY DEF SyncInv, LinksInv
<1>2. out \in Outs /\ 1 \in DOMAIN hand[n][t] /\ out = hand[n][t][1]
  <2>1. hand[n][t] \in Seq(Outs)
    BY <1>1 DEF LinkTypes
  <2> QED BY <2>1
<1>3. out.msg \in PeerMessages
  BY <1>2 DEF Outs
<1>4. conns \in SUBSET Conns
  <2>1. n # Server => n \in Conns
    BY ServerIsOne
  <2> QED BY <2>1 DEF Targets, ConnsOf
<1>5. CASE conns = {}
  <2>1. \A c \in Conns : pend'[c] = pend[c]
    BY <1>5 DEF Queued
  <2> QED BY <2>1 DEF LinksTalk, Carries
<1>6. CASE conns # {}
  <2>1. Up(n)
    <3>1. CASE n = Server
      BY <3>1 DEF Up
    <3>2. CASE n # Server
      <4>1. \A c \in conns : c = n /\ state[c].cli \in {"Synchronized", "Active"}
        BY <3>2 DEF Targets, ConnsOf, EndOf
      <4> QED BY <1>6, <4>1 DEF Up
    <3> QED BY <3>1, <3>2
  <2>2. out.msg \in D
    BY <1>2, <2>1 DEF NodesTalk, Holds
  <2>3. D \subseteq U
    BY DEF Downward
  <2>4. \A c \in Conns : OwnPlaces(pend[c].srv)
    BY DEF SyncInv, HonestInv, Honesty
  <2> HIDE DEF out
  <2>5. out.msg \in U
    BY <2>2, <2>3
  <2>6. Queued(n, out.msg, conns, new)
    BY DEF out
  <2> QED BY <1>1, <1>3, <1>4, <2>2, <2>4, <2>5, <2>6, QueuesTalk
<1> QED BY <1>5, <1>6

LEMMA QueueToAllTalks ==
  ASSUME SyncInv, TalkInv, ~ stale', NEW n \in Nodes, NEW t \in Threads, QueueToAll(n, t)
  PROVE  Talk' /\ displaced' = {}
<1> DEFINE out == Head(hand[n][t])
           conns == Targets(n, out.except)
           new == [c \in conns |-> QueueOutgoing(pend[c][EndOf(n)], out.msg)]
<1>1. Displacing(n, out.msg, conns) /\ hand[n][t] # <<>> /\ hand' = [hand EXCEPT ![n][t] = Tail(@)]
  BY DEF QueueToAll, HandOver
<1>2. pend' = [c \in Conns |->
                 IF c \in conns THEN [pend[c] EXCEPT ![EndOf(n)] = new[c]] ELSE pend[c]]
  BY DEF QueueToAll
<1>3. UNCHANGED <<heap, idMap, idCount, resume, given, state, wire, prepared, incoming>>
  BY DEF QueueToAll, HandOver
<1>4. ~ stale /\ displaced = {} /\ displaced' = {}
  BY <1>1, NothingDisplaced
<1>5. PICK w \in Owners : NodesTalk(idCount[Server], given, w) /\ LinksTalk(idCount[Server], given, w)
  BY <1>4 DEF TalkInv, Talk
<1>6. Queued(n, out.msg, conns, new)
  BY <1>1, <1>2 DEF Queued
<1>7. \A c \in Conns : /\ Consists(pend'[c].srv.list, Downward(idCount[Server], given, w))
                       /\ Consists(pend'[c].cli.list, Upward(idCount[Server], given, w))
  <2> HIDE DEF new
  <2> QED BY <1>1, <1>4, <1>5, <1>6, TargetsTalk
<1>8. LinksTalkThen(idCount'[Server], given', w)
  BY <1>3, <1>5, <1>7 DEF LinksTalk, LinksTalkThen, Carries
<1>9. \A m \in Nodes : \A S : Holds(hand[m], S) => Holds(hand'[m], S)
  <2> SUFFICES ASSUME NEW m \in Nodes, NEW S, Holds(hand[m], S)
               PROVE  Holds(hand'[m], S)
    OBVIOUS
  <2>1. hand \in [Nodes -> [Threads -> Seq(Outs)]]
    BY DEF SyncInv, LinksInv, LinkTypes
  <2>2. \A u \in Threads : hand'[m][u] = IF m = n /\ u = t THEN Tail(hand[n][t]) ELSE hand[m][u]
    BY <1>1, <2>1
  <2>3. \A i \in DOMAIN Tail(hand[n][t]) : i + 1 \in DOMAIN hand[n][t] /\ Tail(hand[n][t])[i] = hand[n][t][i + 1]
    BY <1>1, <2>1
  <2> QED BY <2>2, <2>3 DEF Holds
<1>10. NodesTalkThen(idCount'[Server], given', w)
  <2>1. \A m \in Nodes : UpThen(m) => Up(m)
    BY <1>3 DEF Up, UpThen
  <2> QED BY <1>3, <1>5, <1>9, <2>1, NodesAsTheyAre
<1> QED BY <1>4, <1>8, <1>10, TalkThen

LEMMA RefusedTalks ==
  ASSUME SyncInv, TalkInv, ~ stale', NEW n \in Nodes, NEW t \in Threads, Refused(n, t)
  PROVE  Talk' /\ displaced' = {}
<1> DEFINE out == Head(hand[n][t])
           targets == Targets(n, out.except)
           queued(c) == QueueOutgoing(pend[c][EndOf(n)], out.msg)
           faulty == {c \in targets : queued(c).fault}
<1>1. PICK first \in faulty, before \in SUBSET (targets \ faulty) :
         LET got == before \cup {first} IN
         /\ pend' = [c \in Conns |->
                       IF c \in got
                       THEN [pend[c] EXCEPT ![EndOf(n)] = [queued(c) EXCEPT !.fault = FALSE]]
                       ELSE pend[c]]
         /\ Displacing(n, out.msg, got)
  BY Zenon DEF Refused
<1> DEFINE got == before \cup {first}
           new == [c \in got |-> [queued(c) EXCEPT !.fault = FALSE]]
<1>2. /\ hand[n][t] # <<>> /\ hand' = [hand EXCEPT ![n][t] = <<>>]
      /\ UNCHANGED <<role, ents, idMap, idCount, state, wire, prepared, given>>
  BY DEF Refused
<1>3. \/ /\ t \in Conns
         /\ resume' = [resume EXCEPT ![n][t] = Nothing]
         /\ incoming' = IF n = Server THEN [incoming EXCEPT ![t] = <<>>] ELSE incoming
         /\ heap' = [heap EXCEPT ![n] =
               [o \in Objs |-> IF o \in Referenced(ents[n], idMap[n]) THEN @[o] ELSE FreeEntry]]
      \/ t \notin Conns /\ UNCHANGED <<resume, incoming, heap>>
  BY Zenon DEF Refused
<1>4. ThreadOf(n, t) /\ TablesInv
  BY <1>2 DEF SyncInv, TablesInv, Roles, ThreadOf, Threads
<1>5. ~ stale /\ displaced = {} /\ displaced' = {}
  BY <1>1, NothingDisplaced
<1>6. PICK w \in Owners : NodesTalk(idCount[Server], given, w) /\ LinksTalk(idCount[Server], given, w)
  BY <1>5 DEF TalkInv, Talk
<1>7. Works(n, t, ClearEntries)
  BY <1>2, <1>3, <1>4, EndedWorks, GivenUpWorks
<1>8. \A kk, gg, ww : Fair(n, kk, gg, ww) => Vouches(n, t, kk, gg, ww)
  BY <1>2, <1>3, <1>4, GivenUpVouches
<1>9. PICK ww \in Owners :
         /\ Extends(idCount[Server], given, w, idCount'[Server], given', ww)
         /\ NodesTalkThen(idCount'[Server], given', ww)
  <2>1. \A m \in Nodes : UpThen(m) => Up(m)
    BY <1>2 DEF Up, UpThen
  <2>2. ClearEntries \in Downward(idCount[Server], given, w)
    BY ValuelessMessages
  <2>3. \A name \in Names : given[name] \subseteq given'[name]
    BY <1>2
  <2> QED BY <1>4, <1>6, <1>7, <1>8, <2>1, <2>2, <2>3, WorkTalks
<1>10. \A c \in Conns : /\ Consists(pend'[c].srv.list, Downward(idCount[Server], given, w))
                        /\ Consists(pend'[c].cli.list, Upward(idCount[Server], given, w))
  <2>1. got \in SUBSET targets
    OBVIOUS
  <2>2. Queued(n, out.msg, got, new)
    BY <1>1 DEF Queued
  <2> HIDE DEF new, got
  <2> QED BY <1>2, <1>5, <1>6, <2>1, <2>2, TargetsTalk
<1>11. \A c \in Conns : incoming'[c] = incoming[c] \/ incoming'[c] = <<>>
  <2>1. incoming \in [Conns -> Seq(WireMessages)]
    BY DEF SyncInv, LinksInv, LinkTypes
  <2> QED BY <1>3, <2>1
<1> HIDE DEF out, targets, queued, faulty, got, new
<1>12. LinksTalkThen(idCount'[Server], given', ww)
  <2>1. ASSUME NEW c \in Conns
        PROVE  Carries(pend'[c], prepared[c], wire[c], incoming'[c],
                       Upward(idCount[Server], given, w), Downward(idCount[Server], given, w))
    <3>1. Carries(pend[c], prepared[c], wire[c], incoming[c],
                  Upward(idCount[Server], given, w), Downward(idCount[Server], given, w))
      BY <1>6 DEF LinksTalk
    <3>2. \A S : Consists(<<>>, S)
      BY DEF Consists
    <3> QED BY <1>10, <1>11, <3>1, <3>2 DEF Carries
  <2>2. ASSUME NEW c \in Conns
        PROVE  Carries(pend'[c], prepared[c], wire[c], incoming'[c],
                       Upward(idCount'[Server], given', ww), Downward(idCount'[Server], given', ww))
    BY <1>9, <2>1, LinkGrows
  <2> QED BY <1>2, <2>2 DEF LinksTalkThen
<1> QED BY <1>5, <1>9, <1>12, TalkThen
-----------------------------------------------------------------------------
(* What is sent and read *)

\* Messages are passed on, or lost, and no table changes.
LEMMA StreamsTalk ==
  ASSUME TalkInv, ~ stale', UNCHANGED <<storageVars, given, stale>>, displaced' \subseteq displaced,
         \A m \in Nodes : UpThen(m) => Up(m),
         \A c \in Conns : \A U, D :
            Carries(pend[c], prepared[c], wire[c], incoming[c], U, D) =>
                Carries(pend'[c], prepared'[c], wire'[c], incoming'[c], U, D)
  PROVE  Talk' /\ displaced' = {}
<1>1. displaced = {} /\ Talk
  BY DEF TalkInv
<1>2. PICK w \in Owners : NodesTalk(idCount[Server], given, w) /\ LinksTalk(idCount[Server], given, w)
  BY <1>1 DEF Talk
<1>3. UNCHANGED <<heap, idMap, idCount, resume, given, hand>>
  BY DEF storageVars
<1>4. NodesTalkThen(idCount'[Server], given', w)
  BY <1>2, <1>3, NodesAsTheyAre
<1>5. LinksTalkThen(idCount'[Server], given', w)
  BY <1>2, <1>3 DEF LinksTalk, LinksTalkThen
<1> QED BY <1>1, <1>4, <1>5, TalkThen

LEMMA PostOutgoingTalks ==
  ASSUME SyncInv, TalkInv, ~ stale', NEW c \in Conns, NEW end \in Ends, PostOutgoing(c, end)
  PROVE  Talk' /\ displaced' = {}
<1> DEFINE list == pend[c][end].list
           other == Other(end)
<1>1. /\ pend' = [pend EXCEPT ![c][end] = EmptyQueue]
      /\ UNCHANGED <<storageVars, state, prepared, incoming, given, displaced, stale>>
  BY DEF PostOutgoing, Post, historyVars
<1>2. PICK order \in Ascending(Written(list)) :
         wire' = [wire EXCEPT ![c][other] = @ \o [i \in DOMAIN order |-> list[order[i]]]]
  BY DEF PostOutgoing, Post
<1> DEFINE posted == [i \in DOMAIN order |-> list[order[i]]]
           longer == wire[c][other] \o posted
<1>3. LinkTypes /\ list \in Seq(PendingMessages)
  BY ActiveEnds, QueueFields DEF LinkTypes
<1>4. other \in Ends /\ (other = "cli" <=> end = "srv") /\ (other = "srv" <=> end = "cli")
  BY DEF Other, Ends
<1>5. /\ posted \in Seq(WireMessages)
      /\ \A i \in DOMAIN posted : \E j \in DOMAIN list : posted[i] = list[j]
  BY <1>3, PostedMessages
<1>6. \A S : Consists(list, S) => Consists(posted, S)
  BY <1>5 DEF Consists
<1> HIDE DEF posted
<1>7. wire[c][other] \in Seq(WireMessages)
  BY <1>3, <1>4 DEF LinkTypes
<1>8. \A S : Consists(wire[c][other], S) /\ Consists(list, S) => Consists(longer, S)
  BY <1>5, <1>6, <1>7, JoinedConsists
<1>9. /\ \A d \in Conns, e \in Ends : wire'[d][e] = IF d = c /\ e = other THEN longer ELSE wire[d][e]
      /\ \A d \in Conns, e \in Ends : pend'[d][e] = IF d = c /\ e = end THEN EmptyQueue ELSE pend[d][e]
  BY <1>1, <1>2, <1>3, <1>4 DEF LinkTypes, posted
<1> HIDE DEF longer, other
<1>10. \A S : Consists(EmptyQueue.list, S)
  BY DEF EmptyQueue, Consists
<1>11. ASSUME NEW d \in Conns, NEW U, NEW D, Carries(pend[d], prepared[d], wire[d], incoming[d], U, D)
       PROVE  Carries(pend'[d], prepared'[d], wire'[d], incoming'[d], U, D)
  <2>1. Consists(wire'[d].cli, D)
    <3>1. CASE d = c /\ other = "cli"
      <4>1. Consists(wire[c][other], D) /\ Consists(list, D)
        BY <1>4, <1>11, <3>1 DEF Carries
      <4> QED BY <1>8, <1>9, <3>1, <4>1 DEF Ends
    <3>2. CASE ~ (d = c /\ other = "cli")
      BY <1>9, <1>11, <3>2 DEF Ends, Carries
    <3> QED BY <3>1, <3>2
  <2>2. Consists(wire'[d].srv, U)
    <3>1. CASE d = c /\ other = "srv"
      <4>1. Consists(wire[c][other], U) /\ Consists(list, U)
        BY <1>4, <1>11, <3>1 DEF Carries
      <4> QED BY <1>8, <1>9, <3>1, <4>1 DEF Ends
    <3>2. CASE ~ (d = c /\ other = "srv")
      BY <1>9, <1>11, <3>2 DEF Ends, Carries
    <3> QED BY <3>1, <3>2
  <2>3. Consists(pend'[d].srv.list, D) /\ Consists(pend'[d].cli.list, U)
    BY <1>9, <1>10, <1>11 DEF Ends, Carries
  <2> QED BY <1>1, <1>11, <2>1, <2>2, <2>3 DEF Carries
<1>12. \A m \in Nodes : UpThen(m) => Up(m)
  BY <1>1 DEF Up, UpThen
<1> QED BY <1>1, <1>11, <1>12, StreamsTalk

LEMMA SendPreparedTalks ==
  ASSUME SyncInv, TalkInv, ~ stale', NEW c \in Conns, NEW end \in Ends, SendPrepared(c, end)
  PROVE  Talk' /\ displaced' = {}
<1> DEFINE other == Other(end)
           longer == wire[c][other] \o prepared[c][end]
<1>1. /\ prepared[c][end] # <<>>
      /\ wire' = [wire EXCEPT ![c][other] = longer]
      /\ prepared' = [prepared EXCEPT ![c][end] = <<>>]
      /\ state' = IF end = "cli" THEN [state EXCEPT ![c].cli = "Active"] ELSE state
      /\ UNCHANGED <<storageVars, pend, incoming, given, displaced, stale>>
  BY DEF SendPrepared, historyVars
<1>2. LinkTypes /\ Phase(c)
  BY ActiveEnds
<1>3. other \in Ends /\ (other = "cli" <=> end = "srv") /\ (other = "srv" <=> end = "cli")
  BY DEF Other, Ends
<1>4. wire[c][other] \in Seq(WireMessages) /\ prepared[c][end] \in Seq(WireMessages)
  BY <1>2, <1>3 DEF LinkTypes
<1>5. \A S : Consists(wire[c][other], S) /\ Consists(prepared[c][end], S) => Consists(longer, S)
  BY <1>4, JoinedConsists
<1>6. /\ \A d \in Conns, e \in Ends : wire'[d][e] = IF d = c /\ e = other THEN longer ELSE wire[d][e]
      /\ \A d \in Conns, e \in Ends : prepared'[d][e] = IF d = c /\ e = end THEN <<>> ELSE prepared[d][e]
  BY <1>1, <1>2, <1>3 DEF LinkTypes
<1> HIDE DEF longer, other
<1>7. \A S : Consists(<<>>, S)
  BY DEF Consists
<1>8. ASSUME NEW d \in Conns, NEW U, NEW D, Carries(pend[d], prepared[d], wire[d], incoming[d], U, D)
      PROVE  Carries(pend'[d], prepared'[d], wire'[d], incoming'[d], U, D)
  <2>1. Consists(wire'[d].cli, D)
    <3>1. CASE d = c /\ other = "cli"
      <4>1. Consists(wire[c][other], D) /\ Consists(prepared[c][end], D)
        BY <1>3, <1>8, <3>1 DEF Carries
      <4> QED BY <1>5, <1>6, <3>1, <4>1 DEF Ends
    <3>2. CASE ~ (d = c /\ other = "cli")
      BY <1>6, <1>8, <3>2 DEF Ends, Carries
    <3> QED BY <3>1, <3>2
  <2>2. Consists(wire'[d].srv, U)
    <3>1. CASE d = c /\ other = "srv"
      <4>1. Consists(wire[c][other], U) /\ Consists(prepared[c][end], U)
        BY <1>3, <1>8, <3>1 DEF Carries
      <4> QED BY <1>5, <1>6, <3>1, <4>1 DEF Ends
    <3>2. CASE ~ (d = c /\ other = "srv")
      BY <1>6, <1>8, <3>2 DEF Ends, Carries
    <3> QED BY <3>1, <3>2
  <2>3. Consists(prepared'[d].srv, D) /\ Consists(prepared'[d].cli, U)
    BY <1>6, <1>7, <1>8 DEF Ends, Carries
  <2> QED BY <1>1, <1>8, <2>1, <2>2, <2>3 DEF Carries
<1>9. \A m \in Nodes : UpThen(m) => Up(m)
  <2>1. \A d \in Conns : state'[d].cli = IF d = c /\ end = "cli" THEN "Active" ELSE state[d].cli
    BY <1>1, <1>2 DEF LinkTypes, Ends
  <2>2. end = "cli" => state[c].cli = "Synchronized"
    BY <1>1, <1>2, ActiveEnds DEF Phase
  <2> QED BY <2>1, <2>2, ServerIsOne DEF Up, UpThen
<1> QED BY <1>1, <1>8, <1>9, StreamsTalk

LEMMA ServerHandshakeTalks ==
  ASSUME SyncInv, TalkInv, ~ stale', NEW c \in Conns, ServerHandshake(c)
  PROVE  Talk' /\ displaced' = {}
<1> DEFINE w == wire[c].srv
           done == BatchLength(w)
           read == SubSeq(w, 1, done)
           rest == SubSeq(w, done + 1, Len(w))
<1>1. /\ state[c].srv = "Synchronized" /\ incoming[c] = <<>> /\ "srv" \notin stopped[c] /\ done # 0
      /\ incoming' = [incoming EXCEPT ![c] = read]
      /\ wire' = [wire EXCEPT ![c].srv = rest]
      /\ UNCHANGED <<storageVars, state, pend, prepared, given, displaced, stale>>
  BY DEF ServerHandshake, historyVars
<1>2. LinkTypes /\ Phase(c) /\ w \in Seq(WireMessages)
  BY ActiveEnds DEF LinkTypes, Ends
<1>3. done \in 1 .. Len(w)
  <2>1. w # <<>>
    BY <1>1, NoBatchEnds
  <2>2. state[c].cli = "Active"
    BY <1>1, <1>2, <2>1, ActiveEnds DEF Phase
  <2>3. PICK k \in 1 .. Len(w) : w[k] = HelloDone /\ \A i \in 1 .. k - 1 : w[i] \in EntryAssigns
    BY <1>1, <1>2, <2>2 DEF Phase, Opens
  <2> QED BY <1>2, <2>3, BatchEnds
<1>4. /\ incoming'[c] = read
      /\ \A d \in Conns : wire'[d].cli = wire[d].cli
      /\ wire'[c].srv = rest
      /\ \A d \in Conns : d # c => incoming'[d] = incoming[d] /\ wire'[d].srv = wire[d].srv
  BY <1>1, <1>2 DEF LinkTypes, Ends
<1> HIDE DEF done
<1>5. /\ \A i \in DOMAIN read : i \in DOMAIN w /\ read[i] = w[i]
      /\ \A i \in DOMAIN rest : done + i \in DOMAIN w /\ rest[i] = w[done + i]
  <2>1. Len(w) \in Nat
    BY <1>2
  <2> HIDE DEF w
  <2> QED BY <1>2, <1>3, <2>1
<1>6. \A S : Consists(w, S) => Consists(read, S) /\ Consists(rest, S)
  <2> HIDE DEF w, read, rest
  <2> QED BY <1>5 DEF Consists
<1> HIDE DEF read, rest
<1>7. \A d \in Conns : \A U, D : Carries(pend[d], prepared[d], wire[d], incoming[d], U, D) =>
                                 Carries(pend'[d], prepared'[d], wire'[d], incoming'[d], U, D)
  BY <1>1, <1>4, <1>6 DEF Carries
<1>8. \A m \in Nodes : UpThen(m) => Up(m)
  BY <1>1 DEF Up, UpThen
<1> QED BY <1>1, <1>7, <1>8, StreamsTalk

LEMMA DropTalks ==
  ASSUME SyncInv, TalkInv, ~ stale', NEW c \in Conns, Drop(c)
  PROVE  Talk' /\ displaced' = {}
<1>1. /\ state' = [state EXCEPT ![c] = [srv |-> "Dead", cli |-> "Dead"]]
      /\ pend' = [pend EXCEPT ![c] = [srv |-> EmptyQueue, cli |-> EmptyQueue]]
      /\ wire' = [wire EXCEPT ![c] = [srv |-> <<>>, cli |-> <<>>]]
      /\ prepared' = [prepared EXCEPT ![c] = [srv |-> <<>>, cli |-> <<>>]]
      /\ displaced' \subseteq displaced
      /\ UNCHANGED <<storageVars, incoming, given, stale>>
  BY DEF Drop, Gone
<1>2. LinkTypes
  BY ActiveEnds
<1>3. /\ state'[c].cli = "Dead"
      /\ wire'[c].srv = <<>> /\ wire'[c].cli = <<>>
      /\ prepared'[c].srv = <<>> /\ prepared'[c].cli = <<>>
      /\ pend'[c].srv = EmptyQueue /\ pend'[c].cli = EmptyQueue
      /\ \A d \in Conns : d # c => /\ state'[d] = state[d] /\ wire'[d] = wire[d]
                                   /\ prepared'[d] = prepared[d] /\ pend'[d] = pend[d]
  BY <1>1, <1>2 DEF LinkTypes
<1>4. \A S : Consists(<<>>, S) /\ Consists(EmptyQueue.list, S)
  BY DEF Consists, EmptyQueue
<1>5. \A d \in Conns : \A U, D : Carries(pend[d], prepared[d], wire[d], incoming[d], U, D) =>
                                 Carries(pend'[d], prepared'[d], wire'[d], incoming'[d], U, D)
  BY <1>1, <1>3, <1>4 DEF Carries
<1>6. \A m \in Nodes : UpThen(m) => Up(m)
  BY <1>3, ServerIsOne DEF Up, UpThen
<1> QED BY <1>1, <1>5, <1>6, StreamsTalk

\* A message is read from what a connection carries, and processed.
LEMMA ReadTalks ==
  ASSUME SyncInv, TalkInv, ~ stale', UNCHANGED <<given, displaced, stale>>, NEW n \in Nodes,
         NEW c \in Conns, n = Server \/ n = c, Up(n), NEW msg \in WireMessages,
         ProcessIncoming(n, c, msg, TRUE), \A m \in Nodes : UpThen(m) => Up(m),
         \A U, D : D \subseteq U /\ Carries(pend[c], prepared[c], wire[c], incoming[c], U, D) =>
                       msg \in U /\ (n # Server => msg \in D),
         \A d \in Conns : \A U, D :
            Carries(pend[d], prepared[d], wire[d], incoming[d], U, D) =>
                Carries(pend'[d], prepared'[d], wire'[d], incoming'[d], U, D)
  PROVE  Talk' /\ displaced' = {}
<1>1. displaced = {} /\ Talk /\ TablesInv
  BY DEF TalkInv, SyncInv
<1>2. PICK w \in Owners : NodesTalk(idCount[Server], given, w) /\ LinksTalk(idCount[Server], given, w)
  BY <1>1 DEF Talk
<1> DEFINE U == Upward(idCount[Server], given, w)
           D == Downward(idCount[Server], given, w)
<1>3. D \subseteq U
  BY DEF Downward
<1>4. Carries(pend[c], prepared[c], wire[c], incoming[c], U, D)
  BY <1>2 DEF LinksTalk
<1>5. msg \in U /\ (n # Server => msg \in D)
  <2> HIDE DEF U, D
  <2> QED BY <1>3, <1>4
<1>6. ThreadOf(n, c) /\ c \in Threads
  BY DEF ThreadOf, Threads
<1>7. Works(n, c, msg)
  BY <1>1, ProcessIncomingWorks
<1>8. ASSUME NEW kk, NEW gg, NEW ww, Extends(idCount[Server], given, w, kk, gg, ww), gg = given',
             Fair(n, kk, gg, ww), Up(n) => Informed(n, kk, gg, ww)
      PROVE  Vouches(n, c, kk, gg, ww)
  <2>1. msg \in Upward(kk, gg, ww) /\ (n # Server => msg \in Downward(kk, gg, ww))
    BY <1>5, <1>8, Grown
  <2>2. Heeds(n, msg, kk, gg, ww)
    BY <1>8, <2>1 DEF Heeds
  <2> QED BY <1>1, <2>2, ProcessIncomingVouches
<1>9. \A name \in Names : given[name] \subseteq given'[name]
  OBVIOUS
<1>10. PICK ww \in Owners :
         /\ Extends(idCount[Server], given, w, idCount'[Server], given', ww)
         /\ NodesTalkThen(idCount'[Server], given', ww)
  BY <1>2, <1>5, <1>6, <1>7, <1>8, <1>9, WorkTalks
<1>11. ASSUME NEW d \in Conns
       PROVE  Carries(pend'[d], prepared'[d], wire'[d], incoming'[d],
                      Upward(idCount'[Server], given', ww), Downward(idCount'[Server], given', ww))
  <2>1. Carries(pend[d], prepared[d], wire[d], incoming[d], U, D)
    BY <1>2 DEF LinksTalk
  <2>2. Carries(pend'[d], prepared'[d], wire'[d], incoming'[d], U, D)
    <3> HIDE DEF U, D
    <3> QED BY <2>1
  <2> QED BY <1>10, <2>2, LinkGrows
<1>12. LinksTalkThen(idCount'[Server], given', ww)
  BY <1>11 DEF LinksTalkThen
<1> QED BY <1>1, <1>10, <1>12, TalkThen

LEMMA ReceiveTalks ==
  ASSUME SyncInv, TalkInv, ~ stale', NEW c \in Conns, NEW end \in Ends, Receive(c, end)
  PROVE  Talk' /\ displaced' = {}
<1> DEFINE n == NodeAt(c, end)
           s == wire[c][end]
           msg == Head(s)
<1>1. /\ state[c][end] = "Active" /\ s # <<>>
      /\ ProcessIncoming(n, c, msg, TRUE)
      /\ wire' = [wire EXCEPT ![c][end] = Tail(s)]
      /\ UNCHANGED <<state, pend, prepared, incoming, given, displaced, stale>>
  BY DEF Receive, historyVars
<1>2. LinkTypes /\ s \in Seq(WireMessages)
  BY ActiveEnds DEF LinkTypes
<1>3. n \in Nodes /\ (n = Server \/ n = c) /\ (n = Server <=> end = "srv") /\ (n # Server <=> end = "cli")
  BY ServerIsOne DEF NodeAt, Ends
<1>4. msg \in WireMessages
  BY <1>1, <1>2, ShorterStream
<1>5. Up(n)
  BY <1>1, <1>3 DEF Up
<1>6. \A S : Consists(s, S) => msg \in S /\ Consists(Tail(s), S)
  BY <1>1, <1>2, ShorterConsists
<1>7. \A d \in Conns, e \in Ends : wire'[d][e] = IF d = c /\ e = end THEN Tail(s) ELSE wire[d][e]
  BY <1>1, <1>2 DEF LinkTypes
<1> HIDE DEF n, msg
<1>8. ASSUME NEW U, NEW D, D \subseteq U, Carries(pend[c], prepared[c], wire[c], incoming[c], U, D)
      PROVE  msg \in U /\ (n # Server => msg \in D)
  BY <1>3, <1>6, <1>8 DEF Carries, Ends
<1>9. ASSUME NEW d \in Conns, NEW U, NEW D, Carries(pend[d], prepared[d], wire[d], incoming[d], U, D)
      PROVE  Carries(pend'[d], prepared'[d], wire'[d], incoming'[d], U, D)
  <2>1. wire'[d].srv = wire[d].srv \/ (d = c /\ end = "srv" /\ wire'[d].srv = Tail(s))
    BY <1>7 DEF Ends
  <2>2. wire'[d].cli = wire[d].cli \/ (d = c /\ end = "cli" /\ wire'[d].cli = Tail(s))
    BY <1>7 DEF Ends
  <2>3. Consists(wire'[d].srv, U) /\ Consists(wire'[d].cli, D)
    BY <1>6, <1>9, <2>1, <2>2 DEF Carries
  <2> QED BY <1>1, <1>9, <2>3 DEF Carries
<1>10. \A m \in Nodes : UpThen(m) => Up(m)
  BY <1>1 DEF Up, UpThen
<1> QED BY <1>1, <1>3, <1>4, <1>5, <1>8, <1>9, <1>10, ReadTalks

LEMMA ProcessInitialTalks ==
  ASSUME SyncInv, TalkInv, ~ stale', NEW c \in Conns, ProcessInitial(c)
  PROVE  Talk' /\ displaced' = {}
<1> DEFINE s == incoming[c]
           msg == Head(s)
<1>1. /\ s # <<>> /\ ProcessIncoming(Server, c, msg, TRUE)
      /\ incoming' = [incoming EXCEPT ![c] = Tail(s)]
      /\ state' = IF msg = HelloDone /\ state[c].srv # "Dead"
                  THEN [state EXCEPT ![c].srv = "Active"] ELSE state
      /\ UNCHANGED <<pend, wire, prepared, given, displaced, stale>>
  BY DEF ProcessInitial, historyVars
<1>2. LinkTypes /\ s \in Seq(WireMessages)
  BY ActiveEnds DEF LinkTypes
<1>3. msg \in WireMessages
  BY <1>1, <1>2, ShorterStream
<1>4. Server \in Nodes /\ Up(Server)
  BY ServerIsOne DEF Up
<1>5. \A S : Consists(s, S) => msg \in S /\ Consists(Tail(s), S)
  BY <1>1, <1>2, ShorterConsists
<1> HIDE DEF msg
<1>6. \A d \in Conns : incoming'[d] = IF d = c THEN Tail(s) ELSE incoming[d]
  BY <1>1, <1>2 DEF LinkTypes
<1>7. ASSUME NEW U, NEW D, D \subseteq U, Carries(pend[c], prepared[c], wire[c], incoming[c], U, D)
      PROVE  msg \in U
  BY <1>5, <1>7 DEF Carries
<1>8. ASSUME NEW d \in Conns, NEW U, NEW D, Carries(pend[d], prepared[d], wire[d], incoming[d], U, D)
      PROVE  Carries(pend'[d], prepared'[d], wire'[d], incoming'[d], U, D)
  <2>1. Consists(incoming'[d], U)
    BY <1>5, <1>6, <1>8 DEF Carries
  <2> QED BY <1>1, <1>8, <2>1 DEF Carries
<1>9. \A m \in Nodes : UpThen(m) => Up(m)
  <2>1. \A d \in Conns : state'[d].cli = state[d].cli
    BY <1>1, <1>2 DEF LinkTypes, Ends
  <2> QED BY <2>1, ServerIsOne DEF Up, UpThen
<1> QED BY <1>1, <1>3, <1>4, <1>7, <1>8, <1>9, ReadTalks

LEMMA AcceptTalks ==
  ASSUME SyncInv, TalkInv, ~ stale', NEW c \in Conns, Accept(c)
  PROVE  Talk' /\ displaced' = {}
<1> DEFINE table == InitialAssignments(Server)
           order == SetToSeq(DOMAIN table)
           known == KnownNames(Server)
           k == Cardinality(known)
           f == [i \in DOMAIN order |-> table[order[i]]]
           batch == Append(f, HelloDone)
<1>1. /\ state' = [state EXCEPT ![c] = [srv |-> "Synchronized", cli |-> "Handshake"]]
      /\ prepared' = [prepared EXCEPT ![c].srv = batch]
      /\ UNCHANGED <<storageVars, pend, wire, incoming, given, displaced, stale>>
  BY DEF Accept, historyVars
<1>2. LinkTypes /\ displaced = {} /\ Talk /\ TablesInv
  BY <1>1, ActiveEnds DEF TalkInv, SyncInv
<1>3. PICK w \in Owners : NodesTalk(idCount[Server], given, w) /\ LinksTalk(idCount[Server], given, w)
  BY <1>2 DEF Talk
<1> DEFINE D == Downward(idCount[Server], given, w)
<1>4. Worthy(heap[Server], resume[Server], given) /\ Known(heap[Server], idMap[Server], idCount[Server], w)
  BY <1>3, ServerIsOne DEF NodesTalk, Up
<1>5. ASSUME NEW name \in known
      PROVE  table[name] \in D
  <2> DEFINE e == EntryOf(Server, name)
  <2>1. name \in Names /\ Exists(Server, name) /\ Server \in Nodes
    BY ServerIsOne DEF KnownNames
  <2>2. e \in Entry /\ e.val \in Values /\ e.name = name /\ ents[Server][name] \in Objs
    BY <1>2, <2>1, EntryValue
  <2>3. e.val \in given[name]
    BY <1>4, <2>1, <2>2 DEF Worthy, EntryOf
  <2>4. e.id # Unassigned => Owns(idCount[Server], w, e.id, name)
    BY <1>2, <1>4, <2>1, OwnIds
  <2>5. table[name] = EntryAssign(name, e.id, e.seq, e.val, e.flags)
    BY DEF InitialAssignments
  <2> HIDE DEF e, table
  <2>6. e.id \in AnyId /\ e.seq \in SeqNums /\ e.flags \in BOOLEAN
    BY <2>2 DEF Entry
  <2> QED BY <2>1, <2>2, <2>3, <2>4, <2>5, <2>6, SaysOwnValue
<1>6. DOMAIN table = known
  BY DEF InitialAssignments
<1> HIDE DEF table, D
<1>7. k \in Nat /\ order \in [1 .. k -> known]
  BY <1>2, <1>6, KnownIsFinite, InSomeOrder, ServerIsOne
<1> HIDE DEF order, known, k
<1>8. f \in [1 .. k -> D]
  BY <1>5, <1>7
<1> HIDE DEF f
<1>9. Consists(batch, D)
  <2>1. f \in Seq(D)
    BY <1>7, <1>8
  <2>2. Consists(f, D)
    BY <1>8 DEF Consists
  <2>3. HelloDone \in D
    BY ValuelessMessages DEF D
  <2> QED BY <2>1, <2>2, <2>3, AppendedConsists
<1> HIDE DEF batch
<1>10. /\ state'[c].cli = "Handshake" /\ \A d \in Conns : d # c => state'[d] = state[d]
       /\ prepared'[c].srv = batch /\ prepared'[c].cli = prepared[c].cli
       /\ \A d \in Conns : d # c => prepared'[d] = prepared[d]
  BY <1>1, <1>2 DEF LinkTypes, Ends
<1>11. UNCHANGED <<heap, idMap, idCount, resume, hand>>
  BY <1>1 DEF storageVars
<1>12. NodesTalkThen(idCount'[Server], given', w)
  <2>1. \A m \in Nodes : UpThen(m) => Up(m)
    BY <1>10, ServerIsOne DEF Up, UpThen
  <2> QED BY <1>1, <1>3, <1>11, <2>1, NodesAsTheyAre
<1>13. LinksTalkThen(idCount'[Server], given', w)
  <2>1. ASSUME NEW d \in Conns
        PROVE  Carries(pend[d], prepared'[d], wire[d], incoming[d],
                       Upward(idCount[Server], given, w), Downward(idCount[Server], given, w))
    BY <1>3, <1>9, <1>10 DEF LinksTalk, Carries, D
  <2> QED BY <1>1, <1>11, <2>1 DEF LinksTalkThen
<1> QED BY <1>1, <1>2, <1>12, <1>13, TalkThen
-----------------------------------------------------------------------------
(* The client's part of a handshake *)

\* A client sends its own entries under their names, with the values they have.
LEMMA UnsentWorth ==
  ASSUME TablesInv, NEW n \in Nodes, NEW table, NEW k, NEW g, NEW w, Worthy(heap[n], resume[n], g)
  PROVE  Unsent(n, table) \subseteq Upward(k, g, w)
<1> DEFINE sent(name) == [InitialAssignments(n)[name] EXCEPT !.id = Unassigned]
<1>1. Unsent(n, table) = {sent(name) : name \in KnownNames(n) \ DOMAIN table}
  BY DEF Unsent
<1>2. ASSUME NEW name \in KnownNames(n)
      PROVE  sent(name) \in Upward(k, g, w)
  <2> DEFINE e == EntryOf(n, name)
  <2>1. name \in Names /\ Exists(n, name)
    BY DEF KnownNames
  <2>2. e \in Entry /\ e.val \in Values /\ e.name = name /\ ents[n][name] \in Objs
    BY <2>1, EntryValue
  <2>3. e.val \in g[name]
    BY <2>1, <2>2 DEF Worthy, EntryOf
  <2>4. InitialAssignments(n)[name] = EntryAssign(name, e.id, e.seq, e.val, e.flags)
    BY DEF InitialAssignments
  <2> HIDE DEF e
  <2>5. sent(name) = EntryAssign(name, Unassigned, e.seq, e.val, e.flags)
    BY <2>4 DEF EntryAssign
  <2>6. e.seq \in SeqNums /\ e.flags \in BOOLEAN /\ Unassigned \in AnyId
    BY <2>2, MessagesAssumption DEF Entry, AnyId
  <2>7. EntryAssign(name, Unassigned, e.seq, e.val, e.flags) \in Downward(k, g, w)
    BY <2>1, <2>2, <2>3, <2>6, SaysOwnValue
  <2> HIDE DEF sent
  <2> QED BY <2>5, <2>7 DEF Downward
<1> HIDE DEF sent
<1> QED BY <1>1, <1>2

\* A client that takes the server's table has the ids and the values of the table,
\* and its own values; nothing that it has yet to send is of the last connection.
LEMMA TakesWorth ==
  ASSUME SyncInv, NEW c \in Conns, NEW table \in Presentations, TakesAll(c, c, table),
         NEW k, NEW g, NEW w, Worthy(heap[c], resume[c], g),
         \A name \in DOMAIN table : Owns(k, w, table[name].id, name) /\ table[name].val \in g[name],
         \A u \in Users : hand[c][u] = <<>>
  PROVE  /\ Worthy(heap'[c], resume'[c], g) /\ Known(heap'[c], idMap'[c], k, w)
         /\ \A S : HasTo(resume'[c], S) /\ Holds(hand'[c], S)
         /\ \A m \in Nodes \ {c} :
               /\ heap'[m] = heap[m] /\ idMap'[m] = idMap[m] /\ idCount'[m] = idCount[m]
               /\ resume'[m] = resume[m] /\ hand'[m] = hand[m]
<1>1. TablesInv /\ hand \in [Nodes -> [Threads -> Seq(Outs)]]
  BY DEF SyncInv, LinksInv, LinkTypes
<1>2. c \in Nodes /\ c # Server /\ c \in Threads
  BY ServerIsOne DEF Threads
<1>3. Safe(c)
  BY <1>1, <1>2, ApplyInitialAssignmentsSafe DEF TablesInv, TakesAll
<1>4. Resolves(c)'
  BY <1>1, <1>2, ApplyInitialAssignmentsResolves DEF TablesInv, TakesAll
<1>5. TookAll(c, c, table)
  BY <1>1, <1>2, <1>4, ApplyGoes
<1>6. \A d \in Conns : resume[c][d] = Nothing
  BY Zenon DEF TakesAll, ApplyInitialAssignments
<1>7. UNCHANGED resume
  BY <1>5 DEF TookAll
<1>8. ASSUME NEW o \in Objs, heap'[c][o].name \in Names
      PROVE  heap'[c][o].val \in g[heap'[c][o].name]
  <2>1. FreeEntry.name \notin Names
    BY MessagesAssumption DEF FreeEntry
  <2>2. PICK name \in Names : TakenEntry(c, table, name, heap'[c][o])
    BY <1>5, <1>8, <2>1 DEF TookAll
  <2>3. CASE name \in DOMAIN table /\ heap'[c][o].val = table[name].val
    BY <2>2, <2>3 DEF TakenEntry
  <2>4. CASE name \in KnownNames(c) /\ heap'[c][o].val = EntryOf(c, name).val
    <3>1. Exists(c, name)
      BY <2>4 DEF KnownNames
    <3>2. EntryOf(c, name).name = name /\ ents[c][name] \in Objs
      BY <1>1, <1>2, <3>1, EntryValue
    <3>3. EntryOf(c, name).val \in g[name]
      BY <3>2 DEF Worthy, EntryOf
    <3> QED BY <2>2, <2>4, <3>3 DEF TakenEntry
  <2> QED BY <2>2, <2>3, <2>4 DEF TakenEntry
<1>9. Worthy(heap'[c], resume'[c], g)
  BY <1>6, <1>7, <1>8 DEF Worthy
<1>10. Known(heap'[c], idMap'[c], k, w)
  BY <1>5 DEF TookAll, Known
<1>11. \A S : HasTo(resume'[c], S)
  BY <1>6, <1>7 DEF HasTo
<1>12. PICK outs : DOMAIN outs = {} /\ hand' = [hand EXCEPT ![c][c] = outs]
  BY <1>5 DEF TookAll
<1>13. /\ hand'[c] = [hand[c] EXCEPT ![c] = outs] /\ DOMAIN hand[c] = Threads
       /\ \A m \in Nodes \ {c} : hand'[m] = hand[m]
  BY <1>1, <1>2, <1>12
<1>14. \A t \in Threads : DOMAIN hand'[c][t] = {}
  <2> SUFFICES ASSUME NEW t \in Threads
               PROVE  DOMAIN hand'[c][t] = {}
    OBVIOUS
  <2>1. DOMAIN <<>> = {}
    OBVIOUS
  <2>2. t # c => hand[c][t] = <<>>
    BY <1>1, <1>2 DEF TablesInv, Roles, Threads
  <2> QED BY <1>12, <1>13, <2>1, <2>2
<1>15. \A S : Holds(hand'[c], S)
  BY <1>14 DEF Holds
<1>16. \A m \in Nodes \ {c} : heap'[m] = heap[m] /\ idMap'[m] = idMap[m] /\ idCount'[m] = idCount[m]
  BY <1>3 DEF Safe, Elsewhere
<1> QED BY <1>7, <1>9, <1>10, <1>11, <1>13, <1>15, <1>16

LEMMA ClientHandshakeTalks ==
  ASSUME SyncInv, TalkInv, ~ stale', NEW c \in Conns, ClientHandshake(c)
  PROVE  Talk' /\ displaced' = {}
<1> DEFINE s == wire[c].cli
           done == BatchLength(s)
           rest == SubSeq(s, done + 1, Len(s))
           table == TableOf(s)
           unsent == Unsent(c, table)
           size == Cardinality(unsent)
<1>1. /\ state[c].cli = "Handshake" /\ done # 0
      /\ TakesAll(c, c, table)
      /\ wire' = [wire EXCEPT ![c].cli = rest]
      /\ state' = [state EXCEPT ![c].cli = "Synchronized"]
      /\ stale' = (stale \/ \E u \in Users : hand[c][u] # <<>>)
      /\ UNCHANGED <<pend, incoming, given, displaced>>
  BY Zenon DEF ClientHandshake, TableOf, Listed, TakesAll
<1>2. PICK order \in SetToSeqs(unsent) :
         prepared' = [prepared EXCEPT ![c].cli = Append(order, HelloDone)]
  BY Zenon DEF ClientHandshake, TableOf, Listed
<1> DEFINE batch == Append(order, HelloDone)
<1>3. LinkTypes /\ Phase(c) /\ Presented(c) /\ TablesInv /\ displaced = {} /\ Talk
  BY <1>1, ActiveEnds DEF SyncInv, TalkInv
<1>4. IsBatch(s) /\ Presents(s)
  <2>1. s # <<>>
    BY <1>1, NoBatchEnds
  <2> HIDE DEF s
  <2>2. s = <<>> \/ IsBatch(s)
    BY <1>1, <1>3 DEF Phase, s
  <2>3. Presents(s)
    BY <1>1, <1>3 DEF Presented, s
  <2> QED BY <2>1, <2>2, <2>3
<1>5. PICK w \in Owners : NodesTalk(idCount[Server], given, w) /\ LinksTalk(idCount[Server], given, w)
  BY <1>3 DEF Talk
<1> DEFINE k == idCount[Server]
           U == Upward(k, given, w)
           D == Downward(k, given, w)
<1>6. c \in Nodes /\ c # Server /\ Server \in Nodes
  BY ServerIsOne
<1>7. Consists(s, D) /\ Worthy(heap[c], resume[c], given)
  BY <1>5, <1>6 DEF LinksTalk, Carries, NodesTalk
<1>8. /\ rest = <<>> /\ table \in Presentations
      /\ \A name \in DOMAIN table :
            /\ table[name].str = name /\ table[name].type = "EntryAssign"
            /\ \E i \in DOMAIN s : table[name] = s[i]
  BY <1>4, TakenTable
<1> HIDE DEF done, rest, table, s
<1>9. ASSUME NEW name \in DOMAIN table
      PROVE  Owns(k, w, table[name].id, name) /\ table[name].val \in given[name]
  <2>1. table[name] \in D
    BY <1>7, <1>8 DEF Consists
  <2>2. table[name].id \in Ids
    BY <1>8, PresentationFields
  <2> QED BY <1>8, <2>1, <2>2, ToldName
<1>10. \A u \in Users : hand[c][u] = <<>>
  BY <1>1
<1>11. /\ Worthy(heap'[c], resume'[c], given) /\ Known(heap'[c], idMap'[c], k, w)
       /\ \A S : HasTo(resume'[c], S) /\ Holds(hand'[c], S)
       /\ \A m \in Nodes \ {c} :
             /\ heap'[m] = heap[m] /\ idMap'[m] = idMap[m] /\ idCount'[m] = idCount[m]
             /\ resume'[m] = resume[m] /\ hand'[m] = hand[m]
  <2> HIDE DEF k
  <2> QED BY <1>1, <1>7, <1>8, <1>9, <1>10, TakesWorth
<1>12. idCount'[Server] = k /\ given' = given
  BY <1>1, <1>6, <1>11
<1>13. Consists(batch, U)
  <2>1. unsent \subseteq U /\ IsFiniteSet(unsent)
    BY <1>3, <1>6, <1>7, UnsentWorth, UnsentEntries
  <2>2. HelloDone \in U
    BY ValuelessMessages DEF Downward
  <2> HIDE DEF unsent, U
  <2>3. size \in Nat /\ order \in [1 .. size -> unsent]
    BY <1>2, <2>1, FS_CardinalityType DEF SetToSeqs
  <2> HIDE DEF size
  <2>4. order \in Seq(U) /\ Consists(order, U)
    BY <2>1, <2>3 DEF Consists
  <2> QED BY <2>2, <2>4, AppendedConsists
<1> HIDE DEF batch, unsent
<1>14. /\ wire'[c].cli = <<>> /\ wire'[c].srv = wire[c].srv
       /\ prepared'[c].cli = batch /\ prepared'[c].srv = prepared[c].srv
       /\ \A d \in Conns : d # c => /\ wire'[d] = wire[d] /\ prepared'[d] = prepared[d]
                                    /\ state'[d] = state[d]
  BY <1>1, <1>2, <1>3, <1>8 DEF LinkTypes, Ends, batch
<1>15. NodesTalkThen(k, given, w)
  <2>1. ASSUME NEW m \in Nodes
        PROVE  /\ Worthy(heap'[m], resume'[m], given)
               /\ UpThen(m) => Known(heap'[m], idMap'[m], k, w) /\ HasTo(resume'[m], D) /\ Holds(hand'[m], D)
    <3>1. CASE m = c
      BY <1>11, <3>1
    <3>2. CASE m # c
      <4>1. UpThen(m) => Up(m)
        BY <1>14, <3>2, ServerIsOne DEF Up, UpThen
      <4>2. /\ heap'[m] = heap[m] /\ idMap'[m] = idMap[m]
            /\ resume'[m] = resume[m] /\ hand'[m] = hand[m]
        BY <1>11, <3>2
      <4>3. /\ Worthy(heap[m], resume[m], given)
            /\ Up(m) => Known(heap[m], idMap[m], k, w) /\ HasTo(resume[m], D) /\ Holds(hand[m], D)
        BY <1>5 DEF NodesTalk
      <4> HIDE DEF k, D
      <4> QED BY <4>1, <4>2, <4>3
    <3> QED BY <3>1, <3>2
  <2> QED BY <2>1 DEF NodesTalkThen
<1>16. LinksTalkThen(k, given, w)
  <2>1. ASSUME NEW d \in Conns
        PROVE  Carries(pend'[d], prepared'[d], wire'[d], incoming'[d], U, D)
    <3>1. Carries(pend[d], prepared[d], wire[d], incoming[d], U, D) /\ Consists(<<>>, D)
      BY <1>5 DEF LinksTalk, Consists
    <3> HIDE DEF U, D
    <3> QED BY <1>1, <1>13, <1>14, <3>1 DEF Carries
  <2> QED BY <2>1 DEF LinksTalkThen
<1> HIDE DEF k
<1> QED BY <1>1, <1>3, <1>12, <1>15, <1>16, TalkThen
-----------------------------------------------------------------------------
(* Starting, once and again *)

LEMMA EmptyTalks ==
  ASSUME NEW h, h = [o \in Objs |-> FreeEntry], NEW r, \A c \in Conns : r[c] = Nothing
  PROVE  /\ \A g : Worthy(h, r, g)
         /\ \A k, w : Known(h, [id \in Ids |-> Nil], k, w)
         /\ \A S : HasTo(r, S)
<1>1. FreeEntry.name \notin Names
  BY MessagesAssumption DEF FreeEntry
<1> QED BY <1>1 DEF Worthy, Known, HasTo

LEMMA NothingIsHeld == \A S : Holds([t \in Threads |-> <<>>], S)
BY DEF Holds

\* A connection that is not there carries nothing.
LEMMA NoConnectionTalks ==
  ASSUME NEW U, NEW D
  PROVE  Carries([srv |-> EmptyQueue, cli |-> EmptyQueue], [srv |-> <<>>, cli |-> <<>>],
                 [srv |-> <<>>, cli |-> <<>>], <<>>, U, D)
BY DEF Carries, Consists, EmptyQueue

LEMMA RestartTalks ==
  ASSUME SyncInv, TalkInv, ~ stale', Restart
  PROVE  Talk' /\ displaced' = {}
<1>1. /\ heap' = [heap EXCEPT ![Server] = [o \in Objs |-> FreeEntry]]
      /\ idMap' = [idMap EXCEPT ![Server] = [id \in Ids |-> Nil]]
      /\ hand' = [hand EXCEPT ![Server] = [t \in Threads |-> <<>>]]
      /\ UNCHANGED <<resume, given, stale>>
  BY DEF Restart
<1>2. /\ state' = [c \in Conns |-> [srv |-> "Dead", cli |-> "Dead"]]
      /\ pend' = [c \in Conns |-> [srv |-> EmptyQueue, cli |-> EmptyQueue]]
      /\ wire' = [c \in Conns |-> [srv |-> <<>>, cli |-> <<>>]]
      /\ prepared' = [c \in Conns |-> [srv |-> <<>>, cli |-> <<>>]]
      /\ incoming' = [c \in Conns |-> <<>>]
      /\ displaced' = {}
  BY DEF Restart
<1>3. /\ TablesInv /\ Server \in Nodes /\ Talk
      /\ hand \in [Nodes -> [Threads -> Seq(Outs)]]
  BY <1>1, ServerIsOne DEF SyncInv, LinksInv, LinkTypes, TalkInv
<1>4. /\ OnNodes(heap) /\ OnNodes(idMap)
      /\ \A d \in Conns : resume[Server][d] = Nothing
  BY <1>3, NodesTables, ServerIsOne DEF TablesInv, Roles
<1>5. PICK w \in Owners : NodesTalk(idCount[Server], given, w)
  BY <1>3 DEF Talk
<1>6. /\ heap'[Server] = [o \in Objs |-> FreeEntry] /\ idMap'[Server] = [id \in Ids |-> Nil]
      /\ hand'[Server] = [t \in Threads |-> <<>>]
      /\ \A m \in Nodes \ {Server} : heap'[m] = heap[m]
  BY <1>1, <1>3, <1>4 DEF OnNodes
<1>7. NodesTalkThen(idCount'[Server], given', w)
  <2> SUFFICES ASSUME NEW m \in Nodes
               PROVE  /\ Worthy(heap'[m], resume'[m], given')
                      /\ UpThen(m) =>
                            /\ Known(heap'[m], idMap'[m], idCount'[Server], w)
                            /\ HasTo(resume'[m], Downward(idCount'[Server], given', w))
                            /\ Holds(hand'[m], Downward(idCount'[Server], given', w))
    BY DEF NodesTalkThen
  <2>1. CASE m = Server
    BY <1>1, <1>4, <1>6, <2>1, EmptyTalks, NothingIsHeld
  <2>2. CASE m # Server
    <3>1. ~ UpThen(m)
      BY <1>2, <2>2, ServerIsOne DEF UpThen
    <3>2. Worthy(heap[m], resume[m], given)
      BY <1>5 DEF NodesTalk
    <3> QED BY <1>1, <1>6, <2>2, <3>1, <3>2
  <2> QED BY <2>1, <2>2
<1>8. LinksTalkThen(idCount'[Server], given', w)
  BY <1>2, NoConnectionTalks DEF LinksTalkThen
<1> QED BY <1>2, <1>7, <1>8, TalkThen

LEMMA InitTalk == SyncInit => TalkInv
<1> SUFFICES ASSUME SyncInit PROVE TalkInv
  OBVIOUS
<1>1. /\ EmptyTables /\ displaced = {} /\ given = [name \in Names |-> {}]
      /\ state = [c \in Conns |-> [srv |-> "Dead", cli |-> "Dead"]]
      /\ pend = [c \in Conns |-> [srv |-> EmptyQueue, cli |-> EmptyQueue]]
      /\ wire = [c \in Conns |-> [srv |-> <<>>, cli |-> <<>>]]
      /\ prepared = [c \in Conns |-> [srv |-> <<>>, cli |-> <<>>]]
      /\ incoming = [c \in Conns |-> <<>>]
  BY DEF SyncInit
<1> DEFINE w == [id \in Ids |-> Nil]
<1>2. w \in Owners
  BY DEF Owners
<1> HIDE DEF w
<1>3. ASSUME NEW n \in Nodes
      PROVE  /\ heap[n] = [o \in Objs |-> FreeEntry] /\ idMap[n] = [id \in Ids |-> Nil]
             /\ hand[n] = [t \in Threads |-> <<>>] /\ \A c \in Conns : resume[n][c] = Nothing
  BY <1>1 DEF EmptyTables
<1>4. NodesTalk(idCount[Server], given, w)
  BY <1>3, EmptyTalks, NothingIsHeld DEF NodesTalk
<1>5. LinksTalk(idCount[Server], given, w)
  BY <1>1, NoConnectionTalks DEF LinksTalk
<1> QED BY <1>1, <1>2, <1>4, <1>5 DEF TalkInv, Talk
-----------------------------------------------------------------------------
\* Only a call gives a value, and it gives one of those there are.
LEMMA GivenStay ==
  ASSUME given \in [Names -> SUBSET Values], [SyncNext]_syncVars
  PROVE  given' \in [Names -> SUBSET Values]
<1>1. ASSUME NEW n \in Nodes, NEW u \in Users, Call(n, u)
      PROVE  given' \in [Names -> SUBSET Values]
  <2>1. \/ UNCHANGED given
        \/ \E name \in Names, value \in Values : given' = [given EXCEPT ![name] = @ \cup {value}]
    BY <1>1 DEF Call, Give
  <2> QED BY <2>1
<1>2. ASSUME NEW n \in Nodes, NEW t \in Threads, QueueToAll(n, t) \/ Refused(n, t)
      PROVE  UNCHANGED given
  BY <1>2 DEF QueueToAll, Refused
<1>3. ASSUME NEW c \in Conns, NEW end \in Ends,
             PostOutgoing(c, end) \/ Receive(c, end) \/ SendPrepared(c, end)
      PROVE  UNCHANGED given
  BY <1>3 DEF PostOutgoing, Post, Receive, SendPrepared, historyVars
<1>4. ASSUME NEW c \in Conns,
             \/ Resume(c) \/ Accept(c) \/ ClientHandshake(c)
             \/ ServerHandshake(c) \/ ProcessInitial(c) \/ Drop(c)
      PROVE  UNCHANGED given
  BY <1>4 DEF Resume, Accept, ClientHandshake, ServerHandshake, ProcessInitial, Drop, historyVars
<1>5. Restart \/ UNCHANGED syncVars => UNCHANGED given
  BY DEF Restart, syncVars, historyVars
<1> QED BY <1>1, <1>2, <1>3, <1>4, <1>5 DEF SyncNext

LEMMA NextTalk == SyncInv /\ TalkInv /\ [SyncNext]_syncVars => TalkInv'
<1> SUFFICES ASSUME SyncInv, TalkInv, [SyncNext]_syncVars PROVE TalkInv'
  OBVIOUS
<1>1. ASSUME ~ stale'
      PROVE  Talk' /\ displaced' = {}
  <2>1. ASSUME NEW n \in Nodes, NEW u \in Users, Call(n, u)
        PROVE  Talk' /\ displaced' = {}
    BY <1>1, <2>1, CallTalks
  <2>2. ASSUME NEW n \in Nodes, NEW t \in Threads, QueueToAll(n, t) \/ Refused(n, t)
        PROVE  Talk' /\ displaced' = {}
    BY <1>1, <2>2, QueueToAllTalks, RefusedTalks
  <2>3. ASSUME NEW c \in Conns, NEW end \in Ends,
               PostOutgoing(c, end) \/ Receive(c, end) \/ SendPrepared(c, end)
        PROVE  Talk' /\ displaced' = {}
    BY <1>1, <2>3, PostOutgoingTalks, ReceiveTalks, SendPreparedTalks
  <2>4. ASSUME NEW c \in Conns,
               \/ Resume(c) \/ Accept(c) \/ ClientHandshake(c)
               \/ ServerHandshake(c) \/ ProcessInitial(c) \/ Drop(c)
        PROVE  Talk' /\ displaced' = {}
    BY <1>1, <2>4, ResumeTalks, AcceptTalks, ClientHandshakeTalks, ServerHandshakeTalks,
       ProcessInitialTalks, DropTalks
  <2>5. CASE Restart
    BY <1>1, <2>5, RestartTalks
  <2>6. CASE UNCHANGED syncVars
    <3>1. UNCHANGED <<storageVars, linkVars, given, displaced, stale>>
      BY <2>6 DEF syncVars, historyVars
    <3>2. /\ \A m \in Nodes : UpThen(m) => Up(m)
          /\ \A c \in Conns : \A U, D :
                Carries(pend[c], prepared[c], wire[c], incoming[c], U, D) =>
                    Carries(pend'[c], prepared'[c], wire'[c], incoming'[c], U, D)
      BY <3>1 DEF linkVars, Up, UpThen
    <3> QED BY <1>1, <3>1, <3>2, StreamsTalk
  <2> QED BY <2>1, <2>2, <2>3, <2>4, <2>5, <2>6 DEF SyncNext
<1>2. given' \in [Names -> SUBSET Values]
  BY GivenStay DEF TalkInv
<1> QED BY <1>1, <1>2 DEF TalkInv

\* As long as no call has outlived its connection and no message has displaced that of
\* another entry, there is one name for each id the server has given, at the nodes that
\* are connected, in what their readers and callers have under way, and in every queue
\* and stream between them; and each value anywhere is one that was given to its name.
THEOREM TalkInvariance == SyncSpec => []TalkInv
<1>1. SyncInit => TalkInv
  BY InitTalk
<1>2. SyncInv /\ TalkInv /\ [SyncNext]_syncVars => TalkInv'
  BY NextTalk
<1>3. SyncSpec => []SyncInv
  BY SyncInvariance
<1> QED BY <1>1, <1>2, <1>3, PTL DEF SyncSpec

\* A name only ever has a value that a user gave to that name (SetEntryValue in
\* Storage.cs, and ProcessIncoming for what other nodes send), whatever is lost, blanked,
\* merged or received late, as long as no call has outlived its connection and no message
\* has displaced that of another entry.
THEOREM NoCrossTalkHolds == SyncSpec => []NoCrossTalk
<1>1. SyncInv /\ TalkInv => NoCrossTalk
  <2> SUFFICES ASSUME SyncInv, TalkInv, ~ stale, NEW n \in Nodes, NEW name \in Names, Exists(n, name)
               PROVE  EntryOf(n, name).val \in given[name]
    BY DEF NoCrossTalk
  <2>1. EntryOf(n, name).name = name /\ ents[n][name] \in Objs
    BY EntryValue DEF SyncInv
  <2>2. Worthy(heap[n], resume[n], given)
    BY DEF TalkInv, Talk, NodesTalk
  <2> QED BY <2>1, <2>2 DEF Worthy, EntryOf
<1> QED BY <1>1, SyncInvariance, TalkInvariance, PTL
=============================================================================
