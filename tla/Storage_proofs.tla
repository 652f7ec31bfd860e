---------------------------- MODULE Storage_proofs ----------------------------
(***************************************************************************)
(* On a server that was never a client, whatever its users call or load    *)
(* and its clients send, the two indexes of the table agree (IInv) and     *)
(* what its listeners know and what was saved follow it (TInv).  On every  *)
(* node, a client and a server that was one too, an entry is found by the  *)
(* id it has (RInv), only ids below the count are taken, and what nothing  *)
(* refers to is free, so that a server never gives an id again nor takes   *)
(* an entry back to an older write (GInv).                                 *)
(***************************************************************************)
EXTENDS Storage, WellFoundedInduction, TLAPS
-----------------------------------------------------------------------------
(* The tables of one node, as values: its heap h, entries e, ids m, of     *)
(* which k are given.                                                      *)

TablesType(h, e, m, k) ==
    /\ h \in [Objs -> Entry]
    /\ e \in [Names -> Objs \cup {Nil}]
    /\ m \in [Ids -> Objs \cup {Nil}]
    /\ k \in AnyId

\* the entry of a name has an id that was given, by which it is found
NamesHaveIds(h, e, m, k) ==
    \A name \in Names : e[name] # Nil =>
        /\ h[e[name]].name = name
        /\ h[e[name]].id \in Ids /\ h[e[name]].id < k
        /\ m[h[e[name]].id] = e[name]

\* the entry of an id has a name, by which it is found
IdsHaveNames(h, e, m) ==
    \A id \in Ids : m[id] # Nil =>
        /\ h[m[id]].id = id
        /\ h[m[id]].name \in Names
        /\ e[h[m[id]].name] = m[id]

TablesOK(h, e, m, k) ==
    TablesType(h, e, m, k) /\ NamesHaveIds(h, e, m, k) /\ IdsHaveNames(h, e, m)

\* from m and k to mm and kk, no emptied slot is filled again
Kept(m, k, mm, kk) ==
    /\ kk >= k
    /\ \A id \in Ids : id < k /\ m[id] = Nil => mm[id] = Nil

\* A number is not older than itself, nor is the next one.
LEMMA NotOlder ==
  ASSUME NEW a \in SeqNums
  PROVE  ~ Older(a, a) /\ ~ Older(Inc(a), a)
BY HalfRangeAssumption DEF SeqNums, Older, Inc

\* An object that no entry has is one an entry can have.
LEMMA FreeEntryOK == FreeEntry \in Entry
BY MessagesAssumption, HalfRangeAssumption DEF FreeEntry, Entry, AnyId, SeqNums

\* A new entry under the next id keeps the indexes in agreement.
LEMMA AddKeepsTables ==
  ASSUME NEW h, NEW e, NEW m, NEW k, TablesOK(h, e, m, k), k \in Ids,
         NEW o \in Objs, o \notin Referenced(e, m),
         NEW entry \in Entry, entry.name \in Names, entry.id = k,
         e[entry.name] = Nil
  PROVE  /\ TablesOK([h EXCEPT ![o] = entry], [e EXCEPT ![entry.name] = o],
                     [m EXCEPT ![k] = o], k + 1)
         /\ Kept(m, k, [m EXCEPT ![k] = o], k + 1)
<1> DEFINE hh == [h EXCEPT ![o] = entry]
           ee == [e EXCEPT ![entry.name] = o]
           mm == [m EXCEPT ![k] = o]
<1>1. TablesType(h, e, m, k) /\ NamesHaveIds(h, e, m, k) /\ IdsHaveNames(h, e, m)
  BY DEF TablesOK
<1>2. k \in Nat /\ k < Unassigned /\ k + 1 \in AnyId
  BY MessagesAssumption DEF Ids, AnyId
<1>3. /\ \A name \in Names : e[name] # o
      /\ \A id \in Ids : m[id] # o
  BY DEF Referenced
<1>4. o # Nil
  BY StorageAssumption
<1>5. /\ hh \in [Objs -> Entry] /\ hh[o] = entry /\ \A p \in Objs : p # o => hh[p] = h[p]
      /\ ee \in [Names -> Objs \cup {Nil}] /\ ee[entry.name] = o
      /\ \A name \in Names : name # entry.name => ee[name] = e[name]
      /\ mm \in [Ids -> Objs \cup {Nil}] /\ mm[k] = o
      /\ \A id \in Ids : id # k => mm[id] = m[id]
  BY <1>1 DEF TablesType
<1> HIDE DEF hh, ee, mm
<1>6. TablesType(hh, ee, mm, k + 1)
  BY <1>2, <1>5 DEF TablesType
<1>7. NamesHaveIds(hh, ee, mm, k + 1)
  <2> SUFFICES ASSUME NEW name \in Names, ee[name] # Nil
               PROVE  /\ hh[ee[name]].name = name
                      /\ hh[ee[name]].id \in Ids /\ hh[ee[name]].id < k + 1
                      /\ mm[hh[ee[name]].id] = ee[name]
    BY DEF NamesHaveIds
  <2>1. CASE name = entry.name
    BY <2>1, <1>2, <1>5
  <2>2. CASE name # entry.name
    <3>1. ee[name] = e[name] /\ e[name] \in Objs /\ e[name] # o
      BY <2>2, <1>1, <1>3, <1>5 DEF TablesType
    <3>2. hh[e[name]] = h[e[name]]
      BY <3>1, <1>5
    <3>3. /\ h[e[name]].name = name /\ h[e[name]].id \in Ids /\ h[e[name]].id < k
          /\ m[h[e[name]].id] = e[name]
      BY <3>1, <1>1 DEF NamesHaveIds
    <3>4. h[e[name]].id # k /\ h[e[name]].id < k + 1
      BY <3>3, <1>2 DEF Ids
    <3> QED BY <3>1, <3>2, <3>3, <3>4, <1>5
  <2> QED BY <2>1, <2>2
<1>8. IdsHaveNames(hh, ee, mm)
  <2> SUFFICES ASSUME NEW id \in Ids, mm[id] # Nil
               PROVE  hh[mm[id]].id = id /\ hh[mm[id]].name \in Names /\ ee[hh[mm[id]].name] = mm[id]
    BY DEF IdsHaveNames
  <2>1. CASE id = k
    BY <2>1, <1>5
  <2>2. CASE id # k
    <3>1. mm[id] = m[id] /\ m[id] \in Objs /\ m[id] # o
      BY <2>2, <1>1, <1>3, <1>5 DEF TablesType
    <3>2. hh[m[id]] = h[m[id]]
      BY <3>1, <1>5
    <3>3. h[m[id]].id = id /\ h[m[id]].name \in Names /\ e[h[m[id]].name] = m[id]
      BY <3>1, <1>1 DEF IdsHaveNames
    <3>4. h[m[id]].name # entry.name
      BY <3>1, <3>3, <1>4
    <3> QED BY <3>1, <3>2, <3>3, <3>4, <1>5
  <2> QED BY <2>1, <2>2
<1>9. Kept(m, k, mm, k + 1)
  BY <1>2, <1>5 DEF Kept, Ids
<1> QED BY <1>6, <1>7, <1>8, <1>9 DEF TablesOK, hh, ee, mm

\* An entry whose name and id stay as they are may change otherwise.
LEMMA ChangeKeepsTables ==
  ASSUME NEW h, NEW e, NEW m, NEW k, TablesOK(h, e, m, k),
         NEW o \in Objs, NEW entry \in Entry, entry.name = h[o].name, entry.id = h[o].id
  PROVE  TablesOK([h EXCEPT ![o] = entry], e, m, k)
<1> DEFINE hh == [h EXCEPT ![o] = entry]
<1>1. TablesType(h, e, m, k) /\ NamesHaveIds(h, e, m, k) /\ IdsHaveNames(h, e, m)
  BY DEF TablesOK
<1>2. hh \in [Objs -> Entry] /\ \A p \in Objs : hh[p].name = h[p].name /\ hh[p].id = h[p].id
  BY <1>1 DEF TablesType
<1> HIDE DEF hh
<1>3. TablesType(hh, e, m, k)
  BY <1>1, <1>2 DEF TablesType
<1>4. NamesHaveIds(hh, e, m, k)
  <2> SUFFICES ASSUME NEW name \in Names, e[name] # Nil
               PROVE  /\ hh[e[name]].name = name
                      /\ hh[e[name]].id \in Ids /\ hh[e[name]].id < k
                      /\ m[hh[e[name]].id] = e[name]
    BY DEF NamesHaveIds
  <2>1. e[name] \in Objs
    BY <1>1 DEF TablesType
  <2> QED BY <2>1, <1>1, <1>2 DEF NamesHaveIds
<1>5. IdsHaveNames(hh, e, m)
  <2> SUFFICES ASSUME NEW id \in Ids, m[id] # Nil
               PROVE  hh[m[id]].id = id /\ hh[m[id]].name \in Names /\ e[hh[m[id]].name] = m[id]
    BY DEF IdsHaveNames
  <2>1. m[id] \in Objs
    BY <1>1 DEF TablesType
  <2> QED BY <2>1, <1>1, <1>2 DEF IdsHaveNames
<1> QED BY <1>3, <1>4, <1>5 DEF TablesOK, hh

\* Entries may be removed, if each is removed from both indexes; an entry that is
\* in neither any more does not matter.
LEMMA RemovalKeepsTables ==
  ASSUME NEW h, NEW e, NEW m, NEW k, TablesOK(h, e, m, k),
         NEW hh \in [Objs -> Entry],
         NEW ee \in [Names -> Objs \cup {Nil}],
         NEW mm \in [Ids -> Objs \cup {Nil}],
         \A name \in Names : ee[name] # Nil =>
            ee[name] = e[name] /\ mm[h[e[name]].id] = m[h[e[name]].id],
         \A id \in Ids : mm[id] # Nil =>
            mm[id] = m[id] /\ ee[h[m[id]].name] = e[h[m[id]].name],
         \A o \in Referenced(ee, mm) \cap Objs : hh[o] = h[o]
  PROVE  TablesOK(hh, ee, mm, k) /\ Kept(m, k, mm, k)
<1>1. TablesType(h, e, m, k) /\ NamesHaveIds(h, e, m, k) /\ IdsHaveNames(h, e, m)
  BY DEF TablesOK
<1>2. TablesType(hh, ee, mm, k)
  BY <1>1 DEF TablesType
<1>3. NamesHaveIds(hh, ee, mm, k)
  <2> SUFFICES ASSUME NEW name \in Names, ee[name] # Nil
               PROVE  /\ hh[ee[name]].name = name
                      /\ hh[ee[name]].id \in Ids /\ hh[ee[name]].id < k
                      /\ mm[hh[ee[name]].id] = ee[name]
    BY DEF NamesHaveIds
  <2>1. ee[name] = e[name] /\ mm[h[e[name]].id] = m[h[e[name]].id]
    OBVIOUS
  <2>2. hh[ee[name]] = h[e[name]]
    BY <2>1, StorageAssumption DEF Referenced
  <2>3. /\ h[e[name]].name = name /\ h[e[name]].id \in Ids /\ h[e[name]].id < k
        /\ m[h[e[name]].id] = e[name]
    BY <2>1, <1>1 DEF NamesHaveIds
  <2> QED BY <2>1, <2>2, <2>3
<1>4. IdsHaveNames(hh, ee, mm)
  <2> SUFFICES ASSUME NEW id \in Ids, mm[id] # Nil
               PROVE  hh[mm[id]].id = id /\ hh[mm[id]].name \in Names /\ ee[hh[mm[id]].name] = mm[id]
    BY DEF IdsHaveNames
  <2>1. mm[id] = m[id] /\ ee[h[m[id]].name] = e[h[m[id]].name]
    OBVIOUS
  <2>2. hh[mm[id]] = h[m[id]]
    BY <2>1, StorageAssumption DEF Referenced
  <2>3. h[m[id]].id = id /\ h[m[id]].name \in Names /\ e[h[m[id]].name] = m[id]
    BY <2>1, <1>1 DEF IdsHaveNames
  <2> QED BY <2>1, <2>2, <2>3
<1>5. Kept(m, k, mm, k)
  BY <1>1 DEF Kept, TablesType, AnyId
<1> QED BY <1>2, <1>3, <1>4, <1>5 DEF TablesOK
-----------------------------------------------------------------------------
(* The induction.  Nothing is said of the tables of a client, but that its *)
(* steps leave the other nodes' alone.                                     *)

OnNodes(f) == f = [n \in Nodes |-> f[n]]

AllOnNodes ==
    OnNodes(role) /\ OnNodes(heap) /\ OnNodes(ents) /\ OnNodes(idMap) /\ OnNodes(idCount)
    /\ OnNodes(resume)

NodeOK(n) == TablesOK(heap[n], ents[n], idMap[n], idCount[n])

\* No assignment is left half done on a server.
NothingLeft(n) == \A c \in Conns : resume[n][c] = Nothing

IInv ==
    /\ AllOnNodes
    /\ \A n \in Nodes : AlwaysServer(n) => NodeOK(n) /\ NothingLeft(n)

Elsewhere(n) ==
    \A m \in Nodes \ {n} :
        /\ role'[m] = role[m] /\ heap'[m] = heap[m] /\ ents'[m] = ents[m]
        /\ idMap'[m] = idMap[m] /\ idCount'[m] = idCount[m] /\ resume'[m] = resume[m]

\* What a step of node n owes: the other nodes keep what they have, and if n is
\* a server that was never a client, its indexes agree afterwards and no emptied
\* slot is filled.
Safe(n) ==
    /\ AllOnNodes'
    /\ Elsewhere(n)
    /\ AlwaysServer(n)' => AlwaysServer(n)
    /\ AlwaysServer(n) => /\ NodeOK(n)' /\ NothingLeft(n)'
                          /\ Kept(idMap[n], idCount[n], idMap'[n], idCount'[n])

LEMMA SafeIsEnough ==
  ASSUME IInv, NEW n \in Nodes, Safe(n)
  PROVE  IInv'
<1>1. \A m \in Nodes : m # n => /\ AlwaysServer(m)' <=> AlwaysServer(m)
                                /\ NodeOK(m)' <=> NodeOK(m)
                                /\ NothingLeft(m)' <=> NothingLeft(m)
  BY DEF Safe, Elsewhere, AlwaysServer, NodeOK, NothingLeft
<1>2. \A m \in Nodes : AlwaysServer(m)' => NodeOK(m)' /\ NothingLeft(m)'
  BY <1>1 DEF IInv, Safe
<1> QED BY <1>2 DEF IInv, Safe

\* An operation of a node that touches at most its own part of each variable.
LEMMA OwnPart ==
  ASSUME AllOnNodes, NEW n \in Nodes,
         NEW h, NEW e, NEW m, NEW k, NEW r, NEW g,
         heap' = [heap EXCEPT ![n] = h], ents' = [ents EXCEPT ![n] = e],
         idMap' = [idMap EXCEPT ![n] = m], idCount' = [idCount EXCEPT ![n] = k],
         resume' = [resume EXCEPT ![n] = r], role' = [role EXCEPT ![n] = g]
  PROVE  /\ AllOnNodes' /\ Elsewhere(n)
         /\ heap'[n] = h /\ ents'[n] = e /\ idMap'[n] = m /\ idCount'[n] = k
         /\ resume'[n] = r /\ role'[n] = g
BY DEF AllOnNodes, OnNodes, Elsewhere
-----------------------------------------------------------------------------
(* The kinds of step *)

\* A step of a client, or of a server that was one, which touches its own part of
\* the variables only.
LEMMA ClientSafe ==
  ASSUME IInv, NEW n \in Nodes, ~ AlwaysServer(n),
         NEW h, NEW e, NEW m, NEW k, NEW r,
         heap' = [heap EXCEPT ![n] = h], ents' = [ents EXCEPT ![n] = e],
         idMap' = [idMap EXCEPT ![n] = m], idCount' = [idCount EXCEPT ![n] = k],
         resume' = [resume EXCEPT ![n] = r], role' = role
  PROVE  Safe(n)
<1>1. AllOnNodes
  BY DEF IInv
<1>2. role' = [role EXCEPT ![n] = role[n]]
  BY <1>1 DEF AllOnNodes, OnNodes
<1>3. AllOnNodes' /\ Elsewhere(n)
  BY <1>1, <1>2, OwnPart
<1>4. ~ AlwaysServer(n)'
  BY DEF AlwaysServer
<1> QED BY <1>3, <1>4 DEF Safe

\* A step that changes the tables of n, and neither its role nor what its readers
\* have left to do.
LEMMA TablesSafe ==
  ASSUME IInv, NEW n \in Nodes,
         NEW h, NEW e, NEW m, NEW k,
         heap' = [heap EXCEPT ![n] = h], ents' = [ents EXCEPT ![n] = e],
         idMap' = [idMap EXCEPT ![n] = m], idCount' = [idCount EXCEPT ![n] = k],
         UNCHANGED <<role, resume>>,
         AlwaysServer(n) => TablesOK(h, e, m, k) /\ Kept(idMap[n], idCount[n], m, k)
  PROVE  Safe(n)
<1>1. AllOnNodes
  BY DEF IInv
<1>3. /\ AllOnNodes' /\ Elsewhere(n)
      /\ heap'[n] = h /\ ents'[n] = e /\ idMap'[n] = m /\ idCount'[n] = k
  BY <1>1 DEF AllOnNodes, OnNodes, Elsewhere
<1>4. (AlwaysServer(n)' <=> AlwaysServer(n)) /\ (NothingLeft(n)' <=> NothingLeft(n))
  BY DEF AlwaysServer, NothingLeft
<1>5. AlwaysServer(n) => NodeOK(n)' /\ Kept(idMap[n], idCount[n], idMap'[n], idCount'[n])
  BY <1>3 DEF NodeOK
<1> QED BY <1>3, <1>4, <1>5 DEF Safe, IInv

\* No slot is filled when the ids stay as they are.
LEMMA KeptAsIs ==
  ASSUME NEW h, NEW e, NEW m, NEW k, TablesOK(h, e, m, k)
  PROVE  Kept(m, k, m, k)
BY MessagesAssumption DEF Kept, TablesOK, TablesType, AnyId

\* A step that leaves the tables alone; SetOutgoing makes no client a server like
\* any other.
LEMMA QuietSafe ==
  ASSUME IInv, NEW n \in Nodes, UNCHANGED <<heap, ents, idMap, idCount, resume>>,
         NEW g, role' = [role EXCEPT ![n] = g],
         g \in {"idle", "server"} => AlwaysServer(n)
  PROVE  Safe(n)
<1>1. AllOnNodes
  BY DEF IInv
<1>2. AllOnNodes' /\ Elsewhere(n) /\ role'[n] = g
  BY <1>1 DEF AllOnNodes, OnNodes, Elsewhere
<1>3. AlwaysServer(n)' => AlwaysServer(n)
  BY <1>2 DEF AlwaysServer
<1>4. (NodeOK(n)' <=> NodeOK(n)) /\ (NothingLeft(n)' <=> NothingLeft(n))
  BY DEF NodeOK, NothingLeft
<1>5. AlwaysServer(n) => Kept(idMap[n], idCount[n], idMap'[n], idCount'[n])
  BY KeptAsIs DEF IInv, NodeOK
<1> QED BY <1>2, <1>3, <1>4, <1>5 DEF Safe, IInv

\* A step that changes one entry of n, but neither its name nor its id.
LEMMA ChangeSafe ==
  ASSUME IInv, NEW n \in Nodes, NEW o, NEW entry,
         SetEntry(n, o, entry), UNCHANGED <<role, ents, idMap, idCount, resume>>,
         AlwaysServer(n) => /\ o \in Objs /\ entry \in Entry
                            /\ entry.name = heap[n][o].name /\ entry.id = heap[n][o].id
  PROVE  Safe(n)
<1> DEFINE h == [heap[n] EXCEPT ![o] = entry]
<1>1. AllOnNodes
  BY DEF IInv
<1>2. heap' = [heap EXCEPT ![n] = h]
  BY DEF SetEntry
<1>3. /\ ents' = [ents EXCEPT ![n] = ents[n]] /\ idMap' = [idMap EXCEPT ![n] = idMap[n]]
      /\ idCount' = [idCount EXCEPT ![n] = idCount[n]]
  BY <1>1 DEF AllOnNodes, OnNodes
<1>4. ASSUME AlwaysServer(n)
      PROVE  /\ TablesOK(h, ents[n], idMap[n], idCount[n])
             /\ Kept(idMap[n], idCount[n], idMap[n], idCount[n])
  <2>1. TablesOK(heap[n], ents[n], idMap[n], idCount[n])
    BY <1>4 DEF IInv, NodeOK
  <2>2. TablesOK(h, ents[n], idMap[n], idCount[n])
    BY <1>4, <2>1, ChangeKeepsTables
  <2>3. Kept(idMap[n], idCount[n], idMap[n], idCount[n])
    BY <2>1, KeptAsIs
  <2> QED BY <2>2, <2>3
<1> HIDE DEF h
<1> QED BY <1>2, <1>3, <1>4, TablesSafe

\* A step that gives a new entry of a server the next id.
LEMMA AddSafe ==
  ASSUME IInv, NEW n \in Nodes, AlwaysServer(n), NEW o, IsNew(n, o),
         NEW entry \in Entry, entry.name \in Names, entry.id = NextId(n),
         ~ Exists(n, entry.name), NextId(n) < Unassigned,
         AddEntry(n, o, entry), AddId(n, o, NextId(n)), UNCHANGED <<role, resume>>
  PROVE  Safe(n)
<1> DEFINE h == [heap[n] EXCEPT ![o] = entry]
           e == [ents[n] EXCEPT ![entry.name] = o]
           k == idCount[n]
           m == [idMap[n] EXCEPT ![k] = o]
<1>1. TablesOK(heap[n], ents[n], idMap[n], k)
  BY DEF IInv, NodeOK
<1>2. k \in Ids
  BY <1>1, MessagesAssumption DEF NextId, TablesOK, TablesType, AnyId, Ids
<1>3. o \in Objs /\ o \notin Referenced(ents[n], idMap[n])
  BY DEF IsNew, InUse
<1>4. ents[n][entry.name] = Nil /\ entry.id = k
  BY DEF Exists, NextId
<1>5. TablesOK(h, e, m, k + 1) /\ Kept(idMap[n], k, m, k + 1)
  BY <1>1, <1>2, <1>3, <1>4, AddKeepsTables
<1>6. /\ heap' = [heap EXCEPT ![n] = h]
      /\ ents' = [ents EXCEPT ![n] = e]
      /\ idMap' = [idMap EXCEPT ![n] = m]
  BY DEF AddEntry, SetEntry, AddId, NextId
<1>7. idCount' = [idCount EXCEPT ![n] = k + 1]
  <2>1. idCount' = [idCount EXCEPT ![n] = IF k < k THEN k ELSE k + 1]
    BY DEF AddId, NextId
  <2>2. ~ (k < k)
    BY <1>2 DEF Ids
  <2> QED BY <2>1, <2>2
<1> HIDE DEF h, e, m
<1> QED BY <1>5, <1>6, <1>7, TablesSafe

\* A step that removes a server's entry from both indexes.
LEMMA RemoveSafe ==
  ASSUME IInv, NEW n \in Nodes, AlwaysServer(n),
         NEW id \in Ids, NEW name \in Names,
         Exists(n, name), EntryOf(n, name).id = id,
         RemoveEntry(n, id, name), UNCHANGED <<role, resume>>
  PROVE  Safe(n)
<1> DEFINE e == [ents[n] EXCEPT ![name] = Nil]
           m == [idMap[n] EXCEPT ![id] = Nil]
           h == Collected(n, heap[n], e, m)
           k == idCount[n]
<1>1. AllOnNodes /\ TablesOK(heap[n], ents[n], idMap[n], k)
  BY DEF IInv, NodeOK
<1>2. TablesType(heap[n], ents[n], idMap[n], k)
  BY <1>1 DEF TablesOK
<1>3. /\ heap[n][ents[n][name]].name = name /\ heap[n][ents[n][name]].id = id
      /\ idMap[n][id] = ents[n][name]
  BY <1>1 DEF TablesOK, NamesHaveIds, Exists, EntryOf
<1>4. e \in [Names -> Objs \cup {Nil}] /\ m \in [Ids -> Objs \cup {Nil}]
  BY <1>2 DEF TablesType
<1>5. h \in [Objs -> Entry] /\ \A o \in Referenced(e, m) \cap Objs : h[o] = heap[n][o]
  BY <1>2, FreeEntryOK DEF TablesType, Collected
<1>6. ASSUME NEW other \in Names, e[other] # Nil
      PROVE  e[other] = ents[n][other]
             /\ m[heap[n][ents[n][other]].id] = idMap[n][heap[n][ents[n][other]].id]
  <2>1. other # name /\ e[other] = ents[n][other]
    BY <1>2, <1>6 DEF TablesType
  <2>2. /\ heap[n][ents[n][other]].name = other
        /\ idMap[n][heap[n][ents[n][other]].id] = ents[n][other]
        /\ heap[n][ents[n][other]].id \in Ids
    BY <1>1, <1>6, <2>1 DEF TablesOK, NamesHaveIds
  <2>3. heap[n][ents[n][other]].id # id
    BY <1>3, <2>1, <2>2
  <2> QED BY <1>2, <2>1, <2>2, <2>3 DEF TablesType
<1>7. ASSUME NEW other \in Ids, m[other] # Nil
      PROVE  m[other] = idMap[n][other]
             /\ e[heap[n][idMap[n][other]].name] = ents[n][heap[n][idMap[n][other]].name]
  <2>1. other # id /\ m[other] = idMap[n][other]
    BY <1>2, <1>7 DEF TablesType
  <2>2. /\ heap[n][idMap[n][other]].id = other
        /\ heap[n][idMap[n][other]].name \in Names
        /\ ents[n][heap[n][idMap[n][other]].name] = idMap[n][other]
    BY <1>1, <1>7, <2>1 DEF TablesOK, IdsHaveNames
  <2>3. heap[n][idMap[n][other]].name # name
    BY <1>3, <2>1, <2>2
  <2> QED BY <1>2, <2>1, <2>2, <2>3 DEF TablesType
<1>8. /\ heap' = [heap EXCEPT ![n] = h]
      /\ ents' = [ents EXCEPT ![n] = e]
      /\ idMap' = [idMap EXCEPT ![n] = m]
      /\ idCount' = [idCount EXCEPT ![n] = k]
  BY <1>1 DEF RemoveEntry, AllOnNodes, OnNodes
<1> HIDE DEF h, e, m, k
<1>9. TablesOK(h, e, m, k) /\ Kept(idMap[n], k, m, k)
  BY <1>1, <1>4, <1>5, <1>6, <1>7, RemovalKeepsTables
<1> QED BY <1>8, <1>9, TablesSafe DEF k

\* Removing every entry that is not persistent, at whatever node.
LEMMA ClearSafe ==
  ASSUME IInv, NEW n \in Nodes, DeleteAllEntriesImpl(n)
  PROVE  Safe(n)
<1> DEFINE gone == {name \in Names : Exists(n, name) /\ ~ IsPersistent(EntryOf(n, name))}
           ids == {EntryOf(n, name).id : name \in gone}
           e == [name \in Names |-> IF name \in gone THEN Nil ELSE ents[n][name]]
           m == [id \in Ids |-> IF id \in ids THEN Nil ELSE idMap[n][id]]
           h == Collected(n, heap[n], e, m)
           k == idCount[n]
<1>1. AllOnNodes
  BY DEF IInv
<1>2. /\ heap' = [heap EXCEPT ![n] = h]
      /\ ents' = [ents EXCEPT ![n] = e]
      /\ idMap' = [idMap EXCEPT ![n] = m]
      /\ UNCHANGED <<role, idCount, resume>>
  BY DEF DeleteAllEntriesImpl
<1>3. idCount' = [idCount EXCEPT ![n] = k]
  BY <1>1, <1>2 DEF AllOnNodes, OnNodes
<1>4. ASSUME AlwaysServer(n)
      PROVE  TablesOK(h, e, m, k) /\ Kept(idMap[n], k, m, k)
  <2>1. TablesOK(heap[n], ents[n], idMap[n], k)
    BY <1>4 DEF IInv, NodeOK
  <2>2. TablesType(heap[n], ents[n], idMap[n], k)
    BY <2>1 DEF TablesOK
  <2>3. e \in [Names -> Objs \cup {Nil}] /\ m \in [Ids -> Objs \cup {Nil}]
    BY <2>2 DEF TablesType
  <2>4. h \in [Objs -> Entry] /\ \A o \in Referenced(e, m) \cap Objs : h[o] = heap[n][o]
    BY <2>2, FreeEntryOK DEF TablesType, Collected
  <2>5. \A name \in gone : /\ name \in Names
                           /\ heap[n][ents[n][name]].name = name
                           /\ idMap[n][heap[n][ents[n][name]].id] = ents[n][name]
    BY <2>1 DEF TablesOK, NamesHaveIds, Exists, EntryOf
  <2>6. ASSUME NEW other \in Names, e[other] # Nil
        PROVE  e[other] = ents[n][other]
               /\ m[heap[n][ents[n][other]].id] = idMap[n][heap[n][ents[n][other]].id]
    <3>1. other \notin gone /\ e[other] = ents[n][other]
      BY <2>6
    <3>2. /\ heap[n][ents[n][other]].name = other
          /\ idMap[n][heap[n][ents[n][other]].id] = ents[n][other]
          /\ heap[n][ents[n][other]].id \in Ids
      BY <2>1, <2>6, <3>1 DEF TablesOK, NamesHaveIds
    <3>3. heap[n][ents[n][other]].id \notin ids
      <4> SUFFICES ASSUME NEW name \in gone,
                          heap[n][ents[n][other]].id = heap[n][ents[n][name]].id
                   PROVE  FALSE
        BY DEF EntryOf
      <4>1. ents[n][name] = ents[n][other]
        BY <2>5, <3>2
      <4>2. name = other
        BY <2>5, <3>2, <4>1
      <4> QED BY <3>1, <4>2
    <3> QED BY <3>1, <3>2, <3>3
  <2>7. ASSUME NEW other \in Ids, m[other] # Nil
        PROVE  m[other] = idMap[n][other]
               /\ e[heap[n][idMap[n][other]].name] = ents[n][heap[n][idMap[n][other]].name]
    <3>1. other \notin ids /\ m[other] = idMap[n][other]
      BY <2>7
    <3>2. /\ heap[n][idMap[n][other]].id = other
          /\ heap[n][idMap[n][other]].name \in Names
          /\ ents[n][heap[n][idMap[n][other]].name] = idMap[n][other]
      BY <2>1, <2>7, <3>1 DEF TablesOK, IdsHaveNames
    <3>3. heap[n][idMap[n][other]].name \notin gone
      BY <3>1, <3>2 DEF EntryOf
    <3> QED BY <3>1, <3>2, <3>3
  <2> HIDE DEF h, e, m, k
  <2> QED BY <2>1, <2>3, <2>4, <2>6, <2>7, RemovalKeepsTables
<1> HIDE DEF h, e, m, k
<1> QED BY <1>2, <1>3, <1>4, TablesSafe DEF k
-----------------------------------------------------------------------------
(* The operations *)

\* What a peer may send has the fields its type says.
LEMMA PeerMessageFields ==
  ASSUME NEW msg \in PeerMessages
  PROVE  /\ msg.id \in AnyId
         /\ msg.type = "EntryAssign" =>
              msg.str \in Names /\ msg.val \in Values /\ msg.seq \in SeqNums /\ msg.flags \in BOOLEAN
         /\ msg.type = "EntryUpdate" => msg.val \in Values /\ msg.seq \in SeqNums
         /\ msg.type = "FlagsUpdate" => msg.flags \in BOOLEAN
<1>1. CASE msg \in EntryAssigns
  BY <1>1 DEF EntryAssigns, EntryAssign
<1>2. CASE msg \in {EntryUpdate(id, seq, value) : id \in AnyId, seq \in SeqNums, value \in Values}
  <2>1. PICK id \in AnyId, seq \in SeqNums, value \in Values : msg = EntryUpdate(id, seq, value)
    BY <1>2
  <2>2. msg.type = "EntryUpdate" /\ msg.id = id /\ msg.seq = seq /\ msg.val = value
    BY <2>1 DEF EntryUpdate, Blank
  <2> QED BY <2>2
<1>3. CASE msg \in {FlagsUpdate(id, flags) : id \in AnyId, flags \in BOOLEAN}
  <2>1. PICK id \in AnyId, flags \in BOOLEAN : msg = FlagsUpdate(id, flags)
    BY <1>3
  <2>2. msg.type = "FlagsUpdate" /\ msg.id = id /\ msg.flags = flags
    BY <2>1 DEF FlagsUpdate, Blank
  <2> QED BY <2>2
<1>4. CASE msg \in {EntryDelete(id) : id \in AnyId}
  BY <1>4 DEF EntryDelete, Blank
<1>5. CASE msg = ClearEntries
  BY <1>5, MessagesAssumption DEF ClearEntries, Blank, AnyId
<1> QED BY <1>1, <1>2, <1>3, <1>4, <1>5 DEF PeerMessages

\* A node that was never a client is a server.
LEMMA AlwaysServes ==
  ASSUME NEW n, AlwaysServer(n)
  PROVE  IsServer(n)
BY DEF AlwaysServer, IsServer

\* On a server a name leads to an Entry object of that name, with an id.
LEMMA ByName ==
  ASSUME IInv, NEW n \in Nodes, AlwaysServer(n), NEW name \in Names, Exists(n, name)
  PROVE  /\ ents[n][name] \in Objs /\ EntryOf(n, name) \in Entry
         /\ EntryOf(n, name).name = name /\ EntryOf(n, name).id \in Ids
<1>1. TablesType(heap[n], ents[n], idMap[n], idCount[n]) /\ NamesHaveIds(heap[n], ents[n], idMap[n], idCount[n])
  BY DEF IInv, NodeOK, TablesOK
<1>2. ents[n][name] \in Objs
  BY <1>1 DEF TablesType, Exists
<1> QED BY <1>1, <1>2 DEF TablesType, NamesHaveIds, Exists, EntryOf

\* And so does an id that is not looked up in vain.
LEMMA ById ==
  ASSUME IInv, NEW n \in Nodes, AlwaysServer(n), NEW id \in AnyId, Lookup(n, id) # Nil
  PROVE  LET o == Lookup(n, id) IN
         /\ id \in Ids /\ o \in Objs /\ heap[n][o] \in Entry
         /\ heap[n][o].id = id /\ heap[n][o].name \in Names
         /\ ents[n][heap[n][o].name] = o
<1>1. TablesType(heap[n], ents[n], idMap[n], idCount[n]) /\ IdsHaveNames(heap[n], ents[n], idMap[n])
  BY DEF IInv, NodeOK, TablesOK
<1>2. id \in Ids /\ Lookup(n, id) = idMap[n][id]
  BY DEF Lookup
<1>3. idMap[n][id] \in Objs
  BY <1>1, <1>2 DEF TablesType
<1> QED BY <1>1, <1>2, <1>3 DEF TablesType, IdsHaveNames

\* So a server that was no client before finds no entry that needs an id.
LEMMA NoneNeedsId ==
  ASSUME IInv, NEW n \in Nodes, AlwaysServer(n), NEW name \in Names, Exists(n, name)
  PROVE  ~ NeedsId(n, EntryOf(n, name)) /\ IdOf(n, EntryOf(n, name)) = EntryOf(n, name).id
<1>1. EntryOf(n, name).id # Unassigned
  BY ByName, MessagesAssumption DEF Ids
<1> QED BY <1>1 DEF NeedsId, IdOf

\* Giving an id, or none, touches the node's own part of the index.
LEMMA IdsAreOwn ==
  ASSUME IInv, NEW n \in Nodes, NEW o,
         \/ NoNewId
         \/ \E id : AddId(n, o, id)
         \/ \E e : GiveId(n, o, e)
  PROVE  \E m, k : idMap' = [idMap EXCEPT ![n] = m] /\ idCount' = [idCount EXCEPT ![n] = k]
<1>1. CASE NoNewId
  <2>1. idMap' = [idMap EXCEPT ![n] = idMap[n]] /\ idCount' = [idCount EXCEPT ![n] = idCount[n]]
    BY <1>1 DEF NoNewId, IInv, AllOnNodes, OnNodes
  <2> QED BY <2>1
<1>2. CASE \E id : AddId(n, o, id)
  BY <1>2 DEF AddId
<1> QED BY <1>1, <1>2 DEF GiveId

\* The user makes a new entry.
LEMMA CreateSafe ==
  ASSUME IInv, NEW n \in Nodes, NEW u, NEW name \in Names, NEW value \in Values,
         NEW seq \in SeqNums, Create(n, u, name, value, seq)
  PROVE  Safe(n)
<1>1. CASE AlwaysServer(n)
  <2> DEFINE entry == NewEntry(name, value, FALSE, NextId(n), seq)
  <2>1. IsServer(n)
    BY <1>1, AlwaysServes
  <2>2. PICK o \in Objs : IsNew(n, o) /\ AddEntry(n, o, entry) /\ AddId(n, o, NextId(n))
    BY <2>1 DEF Create
  <2>3. NextId(n) < Unassigned /\ ~ Exists(n, name) /\ UNCHANGED <<role, resume>>
    BY <2>1 DEF Create
  <2>4. NextId(n) \in AnyId
    BY <1>1 DEF NextId, IInv, NodeOK, TablesOK, TablesType
  <2>5. entry \in Entry /\ entry.name = name /\ entry.id = NextId(n)
    BY <2>4 DEF NewEntry, Entry
  <2> HIDE DEF entry
  <2> QED BY <1>1, <2>2, <2>3, <2>5, AddSafe
<1>2. CASE ~ AlwaysServer(n)
  <2>1. PICK o, entry : AddEntry(n, o, entry) /\ (NoNewId \/ \E id : AddId(n, o, id))
    BY DEF Create
  <2>2. PICK h, e : heap' = [heap EXCEPT ![n] = h] /\ ents' = [ents EXCEPT ![n] = e]
    BY <2>1 DEF AddEntry, SetEntry
  <2>3. PICK m, k : idMap' = [idMap EXCEPT ![n] = m] /\ idCount' = [idCount EXCEPT ![n] = k]
    BY <2>1, IdsAreOwn
  <2>4. role' = role /\ resume' = [resume EXCEPT ![n] = resume[n]]
    BY DEF Create, IInv, AllOnNodes, OnNodes
  <2> QED BY <1>2, <2>2, <2>3, <2>4, ClientSafe
<1> QED BY <1>1, <1>2

\* The user changes the value of an entry, which may get an id.
LEMMA ChangeValueSafe ==
  ASSUME IInv, NEW n \in Nodes, NEW u, NEW name \in Names, NEW value \in Values,
         \/ \E sameType : ChangeValue(n, u, name, value, sameType)
         \/ KeepValue(n, u, name, value)
  PROVE  Safe(n)
<1> DEFINE o == ents[n][name]
           old == EntryOf(n, name)
           seq == IF role[n] = "idle" THEN old.seq ELSE Inc(old.seq)
           new == [old EXCEPT !.val = value, !.id = IdOf(n, old), !.seq = seq]
<1>1. /\ Exists(n, name) /\ GiveId(n, o, old) /\ UNCHANGED <<role, ents, resume>>
      /\ \E entry : SetEntry(n, o, entry)
  BY DEF ChangeValue, KeepValue
<1>2. CASE AlwaysServer(n)
  <2>1. o \in Objs /\ old \in Entry /\ ~ NeedsId(n, old) /\ IdOf(n, old) = old.id
    BY <1>1, <1>2, ByName, NoneNeedsId
  <2>2. UNCHANGED <<idMap, idCount>>
    BY <1>1, <2>1 DEF GiveId, NoNewId
  <2>3. SetEntry(n, o, new)
    BY <2>1 DEF ChangeValue, KeepValue
  <2>4. seq \in SeqNums
    BY <2>1, HalfRangeAssumption DEF Entry, Inc, SeqNums
  <2> HIDE DEF seq
  <2>5. new \in Entry /\ new.name = heap[n][o].name /\ new.id = heap[n][o].id
    BY <2>1, <2>4 DEF Entry, EntryOf
  <2> HIDE DEF o, new
  <2> QED BY <1>1, <2>1, <2>2, <2>3, <2>5, ChangeSafe
<1>3. CASE ~ AlwaysServer(n)
  <2>1. PICK h : heap' = [heap EXCEPT ![n] = h]
    BY <1>1 DEF SetEntry
  <2>2. PICK m, k : idMap' = [idMap EXCEPT ![n] = m] /\ idCount' = [idCount EXCEPT ![n] = k]
    BY <1>1, IdsAreOwn
  <2>3. ents' = [ents EXCEPT ![n] = ents[n]] /\ resume' = [resume EXCEPT ![n] = resume[n]]
    BY <1>1 DEF IInv, AllOnNodes, OnNodes
  <2> QED BY <1>1, <1>3, <2>1, <2>2, <2>3, ClientSafe
<1> QED BY <1>2, <1>3

\* The user changes the flags of an entry.
LEMMA SetEntryFlagsSafe ==
  ASSUME IInv, NEW n \in Nodes, NEW u, NEW name \in Names, NEW flags \in BOOLEAN,
         SetEntryFlags(n, u, name, flags)
  PROVE  Safe(n)
<1> DEFINE o == ents[n][name]
           new == [EntryOf(n, name) EXCEPT !.flags = flags]
<1>1. Exists(n, name) /\ SetEntry(n, o, new) /\ UNCHANGED <<role, ents, idMap, idCount, resume>>
  BY DEF SetEntryFlags
<1>2. ASSUME AlwaysServer(n)
      PROVE  o \in Objs /\ new \in Entry /\ new.name = heap[n][o].name /\ new.id = heap[n][o].id
  <2>1. o \in Objs /\ EntryOf(n, name) \in Entry
    BY <1>1, <1>2, ByName
  <2> QED BY <2>1 DEF Entry, EntryOf
<1> HIDE DEF o, new
<1> QED BY <1>1, <1>2, ChangeSafe

\* A removal at a client touches its own tables only.
LEMMA ClientRemoveSafe ==
  ASSUME IInv, NEW n \in Nodes, ~ AlwaysServer(n), NEW id, NEW name,
         RemoveEntry(n, id, name), UNCHANGED <<role, resume>>
  PROVE  Safe(n)
<1> DEFINE e == IF name \in Names THEN [ents[n] EXCEPT ![name] = Nil] ELSE ents[n]
           m == IF id \in Ids THEN [idMap[n] EXCEPT ![id] = Nil] ELSE idMap[n]
           h == Collected(n, heap[n], e, m)
<1>1. AllOnNodes
  BY DEF IInv
<1>2. /\ heap' = [heap EXCEPT ![n] = h]
      /\ ents' = [ents EXCEPT ![n] = e]
      /\ idMap' = [idMap EXCEPT ![n] = m]
      /\ UNCHANGED idCount
  BY DEF RemoveEntry
<1>3. idCount' = [idCount EXCEPT ![n] = idCount[n]] /\ resume' = [resume EXCEPT ![n] = resume[n]]
  BY <1>1, <1>2 DEF AllOnNodes, OnNodes
<1> HIDE DEF h, e, m
<1> QED BY <1>2, <1>3, ClientSafe

\* The user deletes an entry.
LEMMA DeleteEntrySafe ==
  ASSUME IInv, NEW n \in Nodes, NEW u, NEW name \in Names, DeleteEntry(n, u, name)
  PROVE  Safe(n)
<1>1. /\ Exists(n, name) /\ RemoveEntry(n, EntryOf(n, name).id, name)
      /\ UNCHANGED <<role, resume>>
  BY DEF DeleteEntry
<1>2. CASE AlwaysServer(n)
  <2>1. EntryOf(n, name).id \in Ids
    BY <1>1, <1>2, ByName
  <2> QED BY <1>1, <1>2, <2>1, RemoveSafe
<1>3. CASE ~ AlwaysServer(n)
  BY <1>1, <1>3, ClientRemoveSafe
<1> QED BY <1>2, <1>3

\* The server gives a new entry of a client its id.
LEMMA AssignNewSafe ==
  ASSUME IInv, NEW n \in Nodes, NEW c, NEW msg \in PeerMessages,
         msg.type = "EntryAssign", AssignNew(n, c, msg)
  PROVE  Safe(n)
<1> DEFINE entry == NewEntry(msg.str, msg.val, msg.flags, NextId(n), 0)
<1>1. ~ Exists(n, msg.str) /\ NextId(n) < Unassigned /\ UNCHANGED <<role, resume>>
  BY DEF AssignNew
<1>2. PICK o \in Objs : IsNew(n, o) /\ AddEntry(n, o, entry) /\ AddId(n, o, NextId(n))
  BY DEF AssignNew
<1>3. CASE AlwaysServer(n)
  <2>1. NextId(n) \in AnyId
    BY <1>3 DEF NextId, IInv, NodeOK, TablesOK, TablesType
  <2>2. msg.str \in Names /\ msg.val \in Values /\ msg.flags \in BOOLEAN /\ 0 \in SeqNums
    BY PeerMessageFields, HalfRangeAssumption DEF SeqNums
  <2>3. entry \in Entry /\ entry.name = msg.str /\ entry.id = NextId(n)
    BY <2>1, <2>2 DEF NewEntry, Entry
  <2> HIDE DEF entry
  <2> QED BY <1>1, <1>2, <1>3, <2>2, <2>3, AddSafe
<1>4. CASE ~ AlwaysServer(n)
  <2>1. PICK h, e : heap' = [heap EXCEPT ![n] = h] /\ ents' = [ents EXCEPT ![n] = e]
    BY <1>2 DEF AddEntry, SetEntry
  <2>2. PICK m, k : idMap' = [idMap EXCEPT ![n] = m] /\ idCount' = [idCount EXCEPT ![n] = k]
    BY <1>2, IdsAreOwn
  <2>3. resume' = [resume EXCEPT ![n] = resume[n]]
    BY <1>1 DEF IInv, AllOnNodes, OnNodes
  <2> QED BY <1>1, <1>4, <2>1, <2>2, <2>3, ClientSafe
<1> QED BY <1>3, <1>4

\* A client makes an entry for an id and a name it does not know.
LEMMA AssignUnknownSafe ==
  ASSUME IInv, NEW n \in Nodes, NEW c, NEW msg, AssignUnknown(n, c, msg)
  PROVE  Safe(n)
<1> DEFINE entry == NewEntry(msg.str, msg.val, msg.flags, msg.id, 0)
<1>1. ~ AlwaysServer(n) /\ UNCHANGED <<role, resume>>
  BY AlwaysServes DEF AssignUnknown
<1>2. PICK o \in Objs : AddEntry(n, o, entry) /\ AddId(n, o, msg.id)
  BY DEF AssignUnknown
<1> HIDE DEF entry
<1>3. PICK h, e, m, k : /\ heap' = [heap EXCEPT ![n] = h]
                        /\ ents' = [ents EXCEPT ![n] = e]
                        /\ idMap' = [idMap EXCEPT ![n] = m]
                        /\ idCount' = [idCount EXCEPT ![n] = k]
  BY <1>2 DEF AddEntry, SetEntry, AddId
<1>4. resume' = [resume EXCEPT ![n] = resume[n]]
  BY <1>1 DEF IInv, AllOnNodes, OnNodes
<1> QED BY <1>1, <1>3, <1>4, ClientSafe

\* A client binds an id to an entry it has, and may leave the rest for later.
LEMMA BindSafe ==
  ASSUME IInv, NEW n \in Nodes, NEW c, NEW msg, Bind(n, c, msg)
  PROVE  Safe(n)
<1>1. ~ AlwaysServer(n) /\ UNCHANGED <<role, ents>>
  BY AlwaysServes DEF Bind
<1>2. PICK o, entry : SetEntry(n, o, entry)
  BY DEF Bind
<1>3. AddId(n, ents[n][msg.str], msg.id)
  BY DEF Bind
<1>4. PICK h, m, k : /\ heap' = [heap EXCEPT ![n] = h]
                     /\ idMap' = [idMap EXCEPT ![n] = m]
                     /\ idCount' = [idCount EXCEPT ![n] = k]
  BY <1>2, <1>3 DEF SetEntry, AddId
<1>5. ents' = [ents EXCEPT ![n] = ents[n]] /\ resume = [resume EXCEPT ![n] = resume[n]]
  BY <1>1 DEF IInv, AllOnNodes, OnNodes
<1>6. PICK r : resume' = [resume EXCEPT ![n] = r]
  BY <1>5 DEF Bind
<1> QED BY <1>1, <1>4, <1>5, <1>6, ClientSafe

\* It takes up the rest; on a server nothing was left to take up.
LEMMA BindResumedSafe ==
  ASSUME IInv, NEW n \in Nodes, NEW c \in Conns, BindResumed(n, c)
  PROVE  Safe(n)
<1>1. ~ AlwaysServer(n)
  BY DEF BindResumed, IInv, NothingLeft
<1>2. UNCHANGED <<role, ents, idMap, idCount>>
  BY DEF BindResumed
<1>3. PICK o, entry : SetEntry(n, o, entry)
  BY DEF BindResumed
<1>4. PICK h, r : heap' = [heap EXCEPT ![n] = h] /\ resume' = [resume EXCEPT ![n] = r]
  BY <1>3 DEF BindResumed, SetEntry
<1>5. /\ ents' = [ents EXCEPT ![n] = ents[n]] /\ idMap' = [idMap EXCEPT ![n] = idMap[n]]
      /\ idCount' = [idCount EXCEPT ![n] = idCount[n]]
  BY <1>2 DEF IInv, AllOnNodes, OnNodes
<1> QED BY <1>1, <1>2, <1>4, <1>5, ClientSafe

\* A client takes over the server's table.
LEMMA ApplyInitialAssignmentsSafe ==
  ASSUME IInv, NEW n \in Nodes, NEW c, NEW table, NEW newServer, NEW rev3,
         ApplyInitialAssignments(n, c, table, newServer, rev3)
  PROVE  Safe(n)
<1>1. ~ AlwaysServer(n) /\ UNCHANGED <<role, resume>>
  BY Zenon DEF ApplyInitialAssignments, AlwaysServer
<1>2. PICK e : ents' = [ents EXCEPT ![n] = e]
  BY Zenon DEF ApplyInitialAssignments
<1>3. PICK h : heap' = [heap EXCEPT ![n] = h]
  BY Zenon DEF ApplyInitialAssignments
<1>4. PICK m : idMap' = [idMap EXCEPT ![n] = m]
  BY Zenon DEF ApplyInitialAssignments
<1>5. PICK k : idCount' = [idCount EXCEPT ![n] = k]
  BY Zenon DEF ApplyInitialAssignments
<1>6. resume' = [resume EXCEPT ![n] = resume[n]]
  BY <1>1 DEF IInv, AllOnNodes, OnNodes
<1> QED BY <1>1, <1>2, <1>3, <1>4, <1>5, <1>6, ClientSafe

\* An assignment of an id the node knows is taken without changing name or id.
LEMMA AssignKnownSafe ==
  ASSUME IInv, NEW n \in Nodes, NEW c, NEW msg \in PeerMessages, NEW rev3,
         msg.type = "EntryAssign", AssignKnown(n, c, msg, rev3)
  PROVE  Safe(n)
<1> DEFINE o == Lookup(n, msg.id)
           new == Assigned(msg, heap[n][o], FALSE, rev3)
<1>1. o # Nil /\ SetEntry(n, o, new) /\ UNCHANGED <<role, ents, idMap, idCount, resume>>
  BY DEF AssignKnown
<1>2. ASSUME AlwaysServer(n)
      PROVE  o \in Objs /\ new \in Entry /\ new.name = heap[n][o].name /\ new.id = heap[n][o].id
  <2>1. msg.id \in AnyId /\ msg.val \in Values /\ msg.seq \in SeqNums /\ msg.flags \in BOOLEAN
    BY PeerMessageFields
  <2>2. o \in Objs /\ heap[n][o] \in Entry
    BY <1>1, <1>2, <2>1, ById
  <2> HIDE DEF o
  <2>3. TakenFlags(msg, heap[n][o], FALSE, rev3) \in BOOLEAN
    BY <2>1, <2>2 DEF TakenFlags, Entry
  <2> QED BY <2>1, <2>2, <2>3 DEF Assigned, Entry
<1> HIDE DEF o, new
<1> QED BY <1>1, <1>2, ChangeSafe

\* An update of a known id gives the entry a value and a number.
LEMMA TakeUpdateSafe ==
  ASSUME IInv, NEW n \in Nodes, NEW c, NEW msg \in PeerMessages,
         msg.type = "EntryUpdate", TakeUpdate(n, c, msg)
  PROVE  Safe(n)
<1> DEFINE o == Lookup(n, msg.id)
           new == [heap[n][o] EXCEPT !.val = msg.val, !.seq = msg.seq]
<1>1. o # Nil /\ SetEntry(n, o, new) /\ UNCHANGED <<role, ents, idMap, idCount, resume>>
  BY DEF TakeUpdate
<1>2. ASSUME AlwaysServer(n)
      PROVE  o \in Objs /\ new \in Entry /\ new.name = heap[n][o].name /\ new.id = heap[n][o].id
  <2>1. msg.id \in AnyId /\ msg.val \in Values /\ msg.seq \in SeqNums
    BY PeerMessageFields
  <2>2. o \in Objs /\ heap[n][o] \in Entry
    BY <1>1, <1>2, <2>1, ById
  <2> HIDE DEF o
  <2> QED BY <2>1, <2>2 DEF Entry
<1> HIDE DEF o, new
<1> QED BY <1>1, <1>2, ChangeSafe

\* A flags update of a known id gives the entry its flags.
LEMMA TakeFlagsSafe ==
  ASSUME IInv, NEW n \in Nodes, NEW c, NEW msg \in PeerMessages,
         msg.type = "FlagsUpdate", TakeFlags(n, c, msg)
  PROVE  Safe(n)
<1> DEFINE o == Lookup(n, msg.id)
           new == [heap[n][o] EXCEPT !.flags = msg.flags]
<1>1. o # Nil /\ SetEntry(n, o, new) /\ UNCHANGED <<role, ents, idMap, idCount, resume>>
  BY DEF TakeFlags
<1>2. ASSUME AlwaysServer(n)
      PROVE  o \in Objs /\ new \in Entry /\ new.name = heap[n][o].name /\ new.id = heap[n][o].id
  <2>1. msg.id \in AnyId /\ msg.flags \in BOOLEAN
    BY PeerMessageFields
  <2>2. o \in Objs /\ heap[n][o] \in Entry
    BY <1>1, <1>2, <2>1, ById
  <2> HIDE DEF o
  <2> QED BY <2>1, <2>2 DEF Entry
<1> HIDE DEF o, new
<1> QED BY <1>1, <1>2, ChangeSafe

\* A delete by id removes the entry the id leads to, by its name.
LEMMA TakeDeleteSafe ==
  ASSUME IInv, NEW n \in Nodes, NEW c, NEW msg \in PeerMessages, TakeDelete(n, c, msg)
  PROVE  Safe(n)
<1> DEFINE o == Lookup(n, msg.id)
           name == heap[n][o].name
<1>1. o # Nil /\ RemoveEntry(n, msg.id, name) /\ UNCHANGED <<role, resume>>
  BY DEF TakeDelete
<1>2. CASE AlwaysServer(n)
  <2>1. msg.id \in AnyId
    BY PeerMessageFields
  <2>2. /\ msg.id \in Ids /\ name \in Names /\ ents[n][name] = o
        /\ heap[n][o].id = msg.id
    BY <1>1, <1>2, <2>1, ById
  <2>3. Exists(n, name) /\ EntryOf(n, name).id = msg.id
    BY <1>1, <2>2 DEF Exists, EntryOf
  <2> HIDE DEF name
  <2> QED BY <1>1, <1>2, <2>2, <2>3, RemoveSafe
<1>3. CASE ~ AlwaysServer(n)
  BY <1>1, <1>3, ClientRemoveSafe
<1> QED BY <1>2, <1>3

\* The steps that leave the tables alone.
LEMMA QuietSteps ==
  ASSUME IInv, NEW n \in Nodes,
         \/ \E server : SetOutgoing(n, server)
         \/ GetPersistentEntries(n)
         \/ \E t : HandOver(n, t)
         \/ UNCHANGED storageVars
  PROVE  Safe(n)
<1>1. /\ role = [role EXCEPT ![n] = role[n]]
      /\ role[n] \in {"idle", "server"} => AlwaysServer(n)
  BY DEF IInv, AllOnNodes, OnNodes, AlwaysServer
<1>2. CASE \E server : SetOutgoing(n, server)
  <2>1. PICK server : SetOutgoing(n, server)
    BY <1>2
  <2> DEFINE g == IF ~ server THEN "client" ELSE IF AlwaysServer(n) THEN "server" ELSE "turned"
  <2>2. g \in {"idle", "server"} => AlwaysServer(n)
    OBVIOUS
  <2>3. role' = [role EXCEPT ![n] = g] /\ UNCHANGED <<heap, ents, idMap, idCount, resume>>
    BY <2>1 DEF SetOutgoing
  <2> HIDE DEF g
  <2> QED BY <2>2, <2>3, QuietSafe
<1>3. CASE GetPersistentEntries(n)
  BY <1>1, <1>3, QuietSafe DEF GetPersistentEntries
<1>4. CASE \E t : HandOver(n, t)
  BY <1>1, <1>4, QuietSafe DEF HandOver
<1>5. CASE UNCHANGED storageVars
  BY <1>1, <1>5, QuietSafe DEF storageVars
<1> QED BY <1>2, <1>3, <1>4, <1>5
-----------------------------------------------------------------------------
(* The theorems *)

\* The monitor is held for the whole file, so an operation's effect on the tables
\* is what its lines say: names that are new have objects of their own, and the
\* entries that need an id have the next ids.
LoadedEntry(n, file, ids, name) ==
    Loaded(n, name, file[name], IF name \in Given(n, file) THEN ids[name] ELSE EntryOrNew(n, name).id)

LoadedTo(n, file, place, ids, last, h, e, m) ==
    /\ place \in [NewNames(n, file) -> Objs \ InUse(n)]
    /\ \A x, y \in NewNames(n, file) : place[x] = place[y] => x = y
    /\ last \in idCount[n] .. Unassigned
    /\ ids \in [Given(n, file) -> idCount[n] .. (last - 1)]
    /\ \A x, y \in Given(n, file) : ids[x] = ids[y] => x = y
    /\ \A i \in idCount[n] .. (last - 1) : \E name \in Given(n, file) : ids[name] = i
    /\ e = [name \in Names |-> IF name \in NewNames(n, file) THEN place[name] ELSE ents[n][name]]
    /\ h = [o \in Objs |-> h[o]]
    /\ \A o \in Objs :
          \/ \E name \in DOMAIN file : e[name] = o /\ h[o] = LoadedEntry(n, file, ids, name)
          \/ (\A name \in DOMAIN file : e[name] # o) /\ h[o] = heap[n][o]
    /\ m = [i \in Ids |-> m[i]]
    /\ \A i \in Ids :
          \/ \E name \in Given(n, file) : ids[name] = i /\ m[i] = e[name]
          \/ (\A name \in Given(n, file) : ids[name] # i) /\ m[i] = idMap[n][i]

\* Loading a file does that.
LEMMA LoadDoes ==
  ASSUME AllOnNodes, NEW n \in Nodes, NEW u, NEW file \in Files, LoadPersistent(n, u, file)
  PROVE  /\ \E place, ids, last, h, e, m :
               /\ LoadedTo(n, file, place, ids, last, h, e, m)
               /\ heap' = [heap EXCEPT ![n] = h] /\ ents' = [ents EXCEPT ![n] = e]
               /\ idMap' = [idMap EXCEPT ![n] = m] /\ idCount' = [idCount EXCEPT ![n] = last]
         /\ UNCHANGED <<role, dirty, resume>>
<1>1. \E lines \in SetToSeqs(DOMAIN file), place \in Injection(NewNames(n, file), Objs \ InUse(n)) :
        \E last \in NextId(n) .. Unassigned :
         \E ids \in Bijection(Given(n, file), NextId(n) .. (last - 1)) :
            ReadLines(n, u, file, lines, place, ids, last)
  BY DEF LoadPersistent
<1>2. PICK lines \in SetToSeqs(DOMAIN file), place \in Injection(NewNames(n, file), Objs \ InUse(n)),
           last \in NextId(n) .. Unassigned :
         \E ids : /\ ids \in Bijection(Given(n, file), NextId(n) .. (last - 1))
                  /\ ReadLines(n, u, file, lines, place, ids, last)
  BY <1>1
<1>read. PICK ids \in Bijection(Given(n, file), NextId(n) .. (last - 1)) :
         ReadLines(n, u, file, lines, place, ids, last)
  BY <1>2
<1> DEFINE e == [name \in Names |-> IF name \in NewNames(n, file) THEN place[name] ELSE ents[n][name]]
           Heap(x) == [o \in Objs |->
                    LET owner == {name \in DOMAIN file : x[name] = o}
                    IN IF owner = {} THEN heap[n][o]
                       ELSE LoadedEntry(n, file, ids, CHOOSE name \in owner : TRUE)]
           Map(x) == [i \in Ids |->
                    LET owner == {name \in Given(n, file) : ids[name] = i}
                    IN IF owner = {} THEN idMap[n][i] ELSE x[CHOOSE name \in owner : TRUE]]
           h == Heap(e)
           m == Map(e)
<1>names. ents' = [ents EXCEPT ![n] = e] /\ idCount' = [idCount EXCEPT ![n] = last]
  BY <1>read DEF ReadLines
<1>3. ents'[n] = e
  BY <1>names DEF AllOnNodes, OnNodes
<1>4. heap' = [heap EXCEPT ![n] = h]
  <2>1. heap' = [heap EXCEPT ![n] = Heap(ents'[n])]
    BY <1>read, Zenon DEF ReadLines, LoadedEntry
  <2> HIDE DEF e, Heap
  <2> QED BY <2>1, <1>3
<1>5. idMap' = [idMap EXCEPT ![n] = m]
  <2>1. idMap' = [idMap EXCEPT ![n] = Map(ents'[n])]
    BY <1>read, Zenon DEF ReadLines
  <2> HIDE DEF e, Map
  <2> QED BY <2>1, <1>3
<1>6. /\ place \in [NewNames(n, file) -> Objs \ InUse(n)]
      /\ \A x, y \in NewNames(n, file) : place[x] = place[y] => x = y
  BY DEF Injection, IsInjective
<1>7. /\ last \in idCount[n] .. Unassigned
      /\ ids \in [Given(n, file) -> idCount[n] .. (last - 1)]
      /\ \A x, y \in Given(n, file) : ids[x] = ids[y] => x = y
      /\ \A i \in idCount[n] .. (last - 1) : \E name \in Given(n, file) : ids[name] = i
  BY DEF Bijection, Injection, Surjection, IsInjective, NextId
<1>8. \A o \in Objs :
         \/ \E name \in DOMAIN file : e[name] = o /\ h[o] = LoadedEntry(n, file, ids, name)
         \/ (\A name \in DOMAIN file : e[name] # o) /\ h[o] = heap[n][o]
  <2> HIDE DEF e
  <2> TAKE o \in Objs
  <2> DEFINE owner == {name \in DOMAIN file : e[name] = o}
  <2>1. CASE owner = {}
    BY <2>1
  <2>2. CASE owner # {}
    <3>1. (CHOOSE name \in owner : TRUE) \in owner
      BY <2>2
    <3>2. h[o] = LoadedEntry(n, file, ids, CHOOSE name \in owner : TRUE)
      BY <2>2
    <3> QED BY <3>1, <3>2
  <2> QED BY <2>1, <2>2
<1>9. \A i \in Ids :
         \/ \E name \in Given(n, file) : ids[name] = i /\ m[i] = e[name]
         \/ (\A name \in Given(n, file) : ids[name] # i) /\ m[i] = idMap[n][i]
  <2> HIDE DEF e
  <2> TAKE i \in Ids
  <2> DEFINE owner == {name \in Given(n, file) : ids[name] = i}
  <2>1. CASE owner = {}
    BY <2>1
  <2>2. CASE owner # {}
    <3>1. (CHOOSE name \in owner : TRUE) \in owner
      BY <2>2
    <3>2. m[i] = e[CHOOSE name \in owner : TRUE]
      BY <2>2
    <3> QED BY <3>1, <3>2
  <2> QED BY <2>1, <2>2
<1>10. h = [o \in Objs |-> h[o]] /\ m = [i \in Ids |-> m[i]]
  OBVIOUS
<1>11. e = [name \in Names |-> IF name \in NewNames(n, file) THEN place[name] ELSE ents[n][name]]
  OBVIOUS
<1> HIDE DEF h, m, e
<1>12. LoadedTo(n, file, place, ids, last, h, e, m)
  BY <1>6, <1>7, <1>8, <1>9, <1>10, <1>11 DEF LoadedTo
<1>13. UNCHANGED <<role, dirty, resume>>
  BY DEF LoadPersistent
<1> QED BY <1>names, <1>4, <1>5, <1>12, <1>13

\* The table of a node before a file is loaded: its parts, and names that are
\* those of their objects.
NamedTables(n) ==
    /\ heap[n] \in [Objs -> Entry] /\ ents[n] \in [Names -> Objs \cup {Nil}]
    /\ idCount[n] \in AnyId
    /\ \A name \in Names : ents[n][name] # Nil => heap[n][ents[n][name]].name = name

\* What loading makes of it: each name of the file has an entry of its own with
\* what the file says of it, and no other entry changes.
LoadedNames(n, file, ids, h, e) ==
    /\ h \in [Objs -> Entry] /\ e \in [Names -> Objs \cup {Nil}]
    /\ \A name \in Names \ NewNames(n, file) : e[name] = ents[n][name]
    /\ \A name \in NewNames(n, file) :
          name \in DOMAIN file /\ ents[n][name] = Nil /\ e[name] \in Objs \ InUse(n)
    /\ \A x, y \in Names : e[x] # Nil /\ e[x] = e[y] => x = y
    /\ \A name \in DOMAIN file :
          /\ name \in Names /\ e[name] \in Objs /\ h[e[name]] = LoadedEntry(n, file, ids, name)
          /\ name \notin NewNames(n, file) <=> ents[n][name] # Nil
    /\ \A o \in Objs : (\A name \in DOMAIN file : e[name] # o) => h[o] = heap[n][o]

\* The entry of a line: its name stays, and its number is kept or goes forward.
LoadedLine(n, file, ids, name) ==
    LET new == LoadedEntry(n, file, ids, name)
        old == EntryOrNew(n, name)
    IN /\ new \in Entry /\ new.name = name /\ new.val = file[name] /\ new.flags
       /\ new.id = IF name \in Given(n, file) THEN ids[name] ELSE old.id
       /\ new.seq \in {old.seq, Inc(old.seq)}
       /\ old \in Entry /\ (ents[n][name] # Nil => old = heap[n][ents[n][name]])
       /\ (ents[n][name] = Nil => old.id = Unassigned)

LEMMA LineIsLoaded ==
  ASSUME NEW n \in Nodes, NamedTables(n), NEW file \in Files, NEW last \in idCount[n] .. Unassigned,
         NEW ids \in [Given(n, file) -> idCount[n] .. (last - 1)], NEW name \in DOMAIN file
  PROVE  LoadedLine(n, file, ids, name)
<1> DEFINE old == EntryOrNew(n, name)
           id == IF name \in Given(n, file) THEN ids[name] ELSE old.id
<1>1. name \in Names /\ file[name] \in Values
  BY DEF Files
<1>2. /\ old \in Entry /\ old.name = name
      /\ (ents[n][name] # Nil => old = heap[n][ents[n][name]])
      /\ (ents[n][name] = Nil => old.id = Unassigned)
  <2>1. CASE ents[n][name] # Nil
    BY <2>1, <1>1 DEF EntryOrNew, Exists, EntryOf, NamedTables
  <2>2. CASE ents[n][name] = Nil
    BY <2>2, <1>1, FreeEntryOK DEF EntryOrNew, Exists, NewEntry, FreeEntry, Entry
  <2> QED BY <2>1, <2>2
<1>3. id \in AnyId
  BY <1>2, MessagesAssumption DEF NamedTables, AnyId, Entry
<1>4. Inc(old.seq) \in SeqNums
  BY <1>2, HalfRangeAssumption DEF Entry, SeqNums, Inc
<1>5. LoadedEntry(n, file, ids, name) = Loaded(n, name, file[name], id)
  BY DEF LoadedEntry
<1> HIDE DEF id
<1>6. /\ Loaded(n, name, file[name], id) \in Entry
      /\ Loaded(n, name, file[name], id).name = name /\ Loaded(n, name, file[name], id).id = id
      /\ Loaded(n, name, file[name], id).val = file[name] /\ Loaded(n, name, file[name], id).flags
      /\ Loaded(n, name, file[name], id).seq \in {old.seq, Inc(old.seq)}
  BY <1>1, <1>2, <1>3, <1>4 DEF Loaded, Entry
<1> QED BY <1>2, <1>5, <1>6 DEF LoadedLine, id

LEMMA NamesAreLoaded ==
  ASSUME NEW n \in Nodes, NamedTables(n), NEW file \in Files,
         NEW place, NEW ids, NEW last, NEW h, NEW e, NEW m,
         LoadedTo(n, file, place, ids, last, h, e, m)
  PROVE  /\ LoadedNames(n, file, ids, h, e)
         /\ \A name \in DOMAIN file : LoadedLine(n, file, ids, name)
<1> DEFINE new == NewNames(n, file)
<1>1. file \in [DOMAIN file -> Values] /\ DOMAIN file \subseteq Names
  BY DEF Files
<1>2. /\ new \in SUBSET Names
      /\ \A name \in new : name \in DOMAIN file /\ ents[n][name] = Nil
      /\ \A name \in DOMAIN file : name \notin new <=> ents[n][name] # Nil
  BY <1>1 DEF NewNames, KnownNames, Exists
<1>3. Nil \notin Objs
  BY StorageAssumption
<1>4. /\ place \in [new -> Objs \ InUse(n)] /\ \A x, y \in new : place[x] = place[y] => x = y
      /\ last \in idCount[n] .. Unassigned /\ ids \in [Given(n, file) -> idCount[n] .. (last - 1)]
      /\ h = [o \in Objs |-> h[o]]
      /\ e = [name \in Names |-> IF name \in new THEN place[name] ELSE ents[n][name]]
      /\ \A o \in Objs :
              \/ \E name \in DOMAIN file : e[name] = o /\ h[o] = LoadedEntry(n, file, ids, name)
              \/ (\A name \in DOMAIN file : e[name] # o) /\ h[o] = heap[n][o]
  BY Zenon DEF LoadedTo
<1>5. ASSUME NEW name \in DOMAIN file
      PROVE  LoadedLine(n, file, ids, name)
  BY <1>4, <1>5, LineIsLoaded
<1> HIDE DEF new
<1>6. /\ e \in [Names -> Objs \cup {Nil}]
      /\ \A name \in new : e[name] \in Objs \ InUse(n) /\ e[name] = place[name]
      /\ \A name \in Names \ new : e[name] = ents[n][name]
  BY <1>2, <1>4 DEF NamedTables
<1>7. \A name \in Names \ new : ents[n][name] # Nil => ents[n][name] \in InUse(n) /\ ents[n][name] \in Objs
  BY DEF InUse, Referenced, NamedTables
<1>8. \A x, y \in Names : e[x] # Nil /\ e[x] = e[y] => x = y
  BY <1>2, <1>4, <1>6, <1>7 DEF NamedTables
<1>9. \A name \in DOMAIN file : name \in Names /\ e[name] \in Objs
  BY <1>1, <1>2, <1>3, <1>6, <1>7
<1>10. ASSUME NEW name \in DOMAIN file
       PROVE  h[e[name]] = LoadedEntry(n, file, ids, name)
  <2>1. PICK other \in DOMAIN file : e[other] = e[name] /\ h[e[name]] = LoadedEntry(n, file, ids, other)
    BY <1>4, <1>9
  <2>2. other = name
    BY <1>3, <1>8, <1>9, <2>1
  <2> QED BY <2>1, <2>2
<1>11. h \in [Objs -> Entry]
  <2>1. \A o \in Objs : h[o] \in Entry
    BY <1>4, <1>5 DEF NamedTables, LoadedLine
  <2> QED BY <1>4, <2>1
<1> QED BY <1>2, <1>4, <1>5, <1>6, <1>8, <1>9, <1>10, <1>11 DEF LoadedNames, new

\* Tables h, e, m, of which k ids are given, get several new names, under the
\* next ids; the other entries keep their names and ids.
ManyNew(h, e, m, k, new, ids, last, hh, ee, mm) ==
    /\ new \in SUBSET Names /\ \A name \in new : e[name] = Nil
    /\ last \in k .. Unassigned
    /\ ids \in [new -> k .. (last - 1)]
    /\ \A x, y \in new : ids[x] = ids[y] => x = y
    /\ hh \in [Objs -> Entry]
    /\ ee \in [Names -> Objs \cup {Nil}] /\ \A name \in Names \ new : ee[name] = e[name]
    /\ mm \in [Ids -> Objs \cup {Nil}]
    /\ \A i \in Ids : \/ \E name \in new : ids[name] = i /\ mm[i] = ee[name]
                      \/ (\A name \in new : ids[name] # i) /\ mm[i] = m[i]
    /\ \A name \in new : ee[name] # Nil /\ hh[ee[name]].name = name /\ hh[ee[name]].id = ids[name]
    /\ \A name \in Names \ new : e[name] # Nil =>
          hh[e[name]].name = name /\ hh[e[name]].id = h[e[name]].id

\* That keeps the indexes in agreement.
LEMMA ManyKeepTables ==
  ASSUME NEW h, NEW e, NEW m, NEW k, TablesOK(h, e, m, k),
         NEW new, NEW ids, NEW last, NEW hh, NEW ee, NEW mm,
         ManyNew(h, e, m, k, new, ids, last, hh, ee, mm)
  PROVE  TablesOK(hh, ee, mm, last) /\ Kept(m, k, mm, last)
<1> USE DEF ManyNew
<1>1. TablesType(h, e, m, k) /\ NamesHaveIds(h, e, m, k) /\ IdsHaveNames(h, e, m)
  BY DEF TablesOK
<1>2. /\ k \in Nat /\ last \in Nat /\ k <= last /\ last <= Unassigned /\ last \in AnyId
      /\ k .. (last - 1) \subseteq Ids
  BY <1>1, MessagesAssumption DEF TablesType, Ids, AnyId
<1>3. \A name \in new : ids[name] \in Ids /\ k <= ids[name] /\ ids[name] < last
  BY <1>2
<1>4. \A name \in new : mm[ids[name]] = ee[name]
  BY <1>3
<1>5. \A i \in Ids : i < k => mm[i] = m[i]
  BY <1>2, <1>3 DEF Ids
<1>6. TablesType(hh, ee, mm, last)
  BY <1>2 DEF TablesType
<1>7. NamesHaveIds(hh, ee, mm, last)
  <2> SUFFICES ASSUME NEW name \in Names, ee[name] # Nil
               PROVE  /\ hh[ee[name]].name = name
                      /\ hh[ee[name]].id \in Ids /\ hh[ee[name]].id < last
                      /\ mm[hh[ee[name]].id] = ee[name]
    BY DEF NamesHaveIds
  <2>1. CASE name \in new
    BY <2>1, <1>3, <1>4
  <2>2. CASE name \notin new
    <3>1. ee[name] = e[name] /\ h[e[name]].id \in Ids /\ h[e[name]].id < k /\ m[h[e[name]].id] = e[name]
      BY <2>2, <1>1 DEF NamesHaveIds
    <3>2. hh[e[name]].name = name /\ hh[e[name]].id = h[e[name]].id
      BY <2>2, <3>1
    <3>3. h[e[name]].id < last
      BY <3>1, <1>2 DEF Ids
    <3> QED BY <3>1, <3>2, <3>3, <1>5
  <2> QED BY <2>1, <2>2
<1>8. IdsHaveNames(hh, ee, mm)
  <2> SUFFICES ASSUME NEW id \in Ids, mm[id] # Nil
               PROVE  hh[mm[id]].id = id /\ hh[mm[id]].name \in Names /\ ee[hh[mm[id]].name] = mm[id]
    BY DEF IdsHaveNames
  <2>1. CASE \E name \in new : ids[name] = id /\ mm[id] = ee[name]
    BY <2>1
  <2>2. CASE mm[id] = m[id]
    <3> DEFINE name == h[m[id]].name
    <3>1. h[m[id]].id = id /\ name \in Names /\ e[name] = m[id]
      BY <2>2, <1>1 DEF IdsHaveNames
    <3>2. name \notin new /\ ee[name] = e[name]
      BY <2>2, <3>1
    <3>3. hh[e[name]].name = name /\ hh[e[name]].id = h[e[name]].id
      BY <2>2, <3>1, <3>2
    <3> HIDE DEF name
    <3> QED BY <2>2, <3>1, <3>2, <3>3
  <2> QED BY <2>1, <2>2
<1>9. Kept(m, k, mm, last)
  BY <1>2, <1>5 DEF Kept
<1> QED BY <1>6, <1>7, <1>8, <1>9 DEF TablesOK

\* A file that is loaded by a server.
LEMMA LoadPersistentSafe ==
  ASSUME IInv, NEW n \in Nodes, NEW u, NEW file \in Files, LoadPersistent(n, u, file)
  PROVE  Safe(n)
<1>1. AllOnNodes
  BY DEF IInv
<1>2. UNCHANGED <<role, resume>>
  BY <1>1, LoadDoes
<1>3. PICK place, ids, last, h, e, m :
         /\ LoadedTo(n, file, place, ids, last, h, e, m)
         /\ heap' = [heap EXCEPT ![n] = h] /\ ents' = [ents EXCEPT ![n] = e]
         /\ idMap' = [idMap EXCEPT ![n] = m] /\ idCount' = [idCount EXCEPT ![n] = last]
  BY <1>1, LoadDoes
<1>4. CASE ~ AlwaysServer(n)
  <2>1. resume' = [resume EXCEPT ![n] = resume[n]]
    BY <1>1, <1>2 DEF AllOnNodes, OnNodes
  <2> QED BY <1>2, <1>3, <1>4, <2>1, ClientSafe
<1>5. CASE AlwaysServer(n)
  <2> DEFINE new == NewNames(n, file)
  <2>1. /\ TablesOK(heap[n], ents[n], idMap[n], idCount[n])
        /\ TablesType(heap[n], ents[n], idMap[n], idCount[n])
        /\ NamesHaveIds(heap[n], ents[n], idMap[n], idCount[n])
    BY <1>5 DEF IInv, NodeOK, TablesOK
  <2>2. LoadedNames(n, file, ids, h, e) /\ \A name \in DOMAIN file : LoadedLine(n, file, ids, name)
    <3>1. NamedTables(n)
      BY <2>1 DEF NamedTables, TablesType, NamesHaveIds
    <3> QED BY <1>3, <3>1, NamesAreLoaded
  <2>3. new \in SUBSET Names /\ new \subseteq DOMAIN file
    BY <2>2 DEF LoadedNames
  <2>4. Given(n, file) = new
    <3>1. \A name \in DOMAIN file \ new : Exists(n, name) /\ name \in Names
      BY <2>2 DEF LoadedNames, Exists
    <3>2. \A name \in DOMAIN file \ new : ~ NeedsId(n, EntryOrNew(n, name))
      BY <3>1, <1>5, NoneNeedsId DEF EntryOrNew
    <3>3. \A name \in new : NeedsId(n, EntryOrNew(n, name))
      BY <2>2, <1>5, AlwaysServes DEF LoadedNames, NeedsId, EntryOrNew, NewEntry, Exists
    <3> QED BY <2>3, <3>2, <3>3 DEF Given
  <2>5. /\ last \in idCount[n] .. Unassigned
        /\ ids \in [new -> idCount[n] .. (last - 1)]
        /\ \A x, y \in new : ids[x] = ids[y] => x = y
        /\ \A i \in Ids : \/ \E name \in new : ids[name] = i /\ m[i] = e[name]
                          \/ (\A name \in new : ids[name] # i) /\ m[i] = idMap[n][i]
        /\ m = [i \in Ids |-> m[i]]
    <3> HIDE DEF new
    <3>1. /\ last \in idCount[n] .. Unassigned
          /\ ids \in [Given(n, file) -> idCount[n] .. (last - 1)]
          /\ \A x, y \in Given(n, file) : ids[x] = ids[y] => x = y
          /\ \A i \in Ids : \/ \E name \in Given(n, file) : ids[name] = i /\ m[i] = e[name]
                            \/ (\A name \in Given(n, file) : ids[name] # i) /\ m[i] = idMap[n][i]
          /\ m = [i \in Ids |-> m[i]]
      BY <1>3, Zenon DEF LoadedTo
    <3> QED BY <2>4, <3>1
  <2> HIDE DEF new
  <2>6. /\ h \in [Objs -> Entry] /\ e \in [Names -> Objs \cup {Nil}]
        /\ \A name \in Names \ new : e[name] = ents[n][name]
        /\ \A name \in new : ents[n][name] = Nil /\ e[name] # Nil
        /\ \A x, y \in Names : e[x] # Nil /\ e[x] = e[y] => x = y
        /\ \A name \in DOMAIN file : h[e[name]] = LoadedEntry(n, file, ids, name)
        /\ \A name \in DOMAIN file : name \in Names /\ (name \notin new <=> ents[n][name] # Nil)
        /\ \A o \in Objs : (\A name \in DOMAIN file : e[name] # o) => h[o] = heap[n][o]
    BY <2>2, StorageAssumption DEF LoadedNames, new
  <2>7. m \in [Ids -> Objs \cup {Nil}]
    <3>1. idMap[n] \in [Ids -> Objs \cup {Nil}]
      BY <2>1 DEF TablesType
    <3>2. \A name \in new : e[name] \in Objs \cup {Nil}
      BY <2>3, <2>6
    <3>3. \A i \in Ids : m[i] \in Objs \cup {Nil}
      BY <2>5, <3>1, <3>2
    <3> QED BY <2>5, <3>3
  <2>8. \A name \in new : h[e[name]].name = name /\ h[e[name]].id = ids[name]
    BY <2>2, <2>3, <2>4, <2>6 DEF LoadedLine
  <2>9. ASSUME NEW name \in Names \ new, ents[n][name] # Nil
        PROVE  h[ents[n][name]].name = name /\ h[ents[n][name]].id = heap[n][ents[n][name]].id
    <3>1. e[name] = ents[n][name] /\ e[name] \in Objs
      BY <2>1, <2>6, <2>9 DEF TablesType
    <3>2. CASE name \in DOMAIN file
      BY <3>1, <3>2, <2>2, <2>4, <2>6, <2>9 DEF LoadedLine
    <3>3. CASE name \notin DOMAIN file
      <4>1. h[e[name]] = heap[n][e[name]]
        BY <3>1, <3>3, <2>6, <2>9
      <4> QED BY <4>1, <3>1, <2>1, <2>9 DEF NamesHaveIds
    <3> QED BY <3>2, <3>3
  <2>10. TablesOK(h, e, m, last) /\ Kept(idMap[n], idCount[n], m, last)
    <3>1. \A name \in Names \ new : ents[n][name] # Nil =>
             h[ents[n][name]].name = name /\ h[ents[n][name]].id = heap[n][ents[n][name]].id
      BY <2>9
    <3>2. /\ \A name \in new : ents[n][name] = Nil
          /\ \A name \in Names \ new : e[name] = ents[n][name]
          /\ e \in [Names -> Objs \cup {Nil}]
          /\ \A name \in new : e[name] # Nil /\ h[e[name]].name = name /\ h[e[name]].id = ids[name]
      BY <2>6, <2>8
    <3>3. TablesOK(heap[n], ents[n], idMap[n], idCount[n]) /\ new \in SUBSET Names
      BY <2>1, <2>3
    <3>4. /\ last \in idCount[n] .. Unassigned
          /\ ids \in [new -> idCount[n] .. (last - 1)]
          /\ \A x, y \in new : ids[x] = ids[y] => x = y
          /\ \A i \in Ids : \/ \E name \in new : ids[name] = i /\ m[i] = e[name]
                            \/ (\A name \in new : ids[name] # i) /\ m[i] = idMap[n][i]
      BY <2>5
    <3>5. h \in [Objs -> Entry]
      BY <2>6
    <3>6. ManyNew(heap[n], ents[n], idMap[n], idCount[n], new, ids, last, h, e, m)
      BY <2>7, <3>1, <3>2, <3>3, <3>4, <3>5 DEF ManyNew
    <3> QED BY <3>3, <3>6, ManyKeepTables
  <2> QED BY <1>2, <1>3, <2>10, TablesSafe
<1> QED BY <1>4, <1>5

\* Whatever a user calls is safe.
LEMMA UserCallSafe ==
  ASSUME IInv, NEW n \in Nodes, NEW u, UserCall(n, u)
  PROVE  Safe(n)
<1>1. ASSUME NEW name \in Names, NEW value \in Values,
             SetEntryValue(n, u, name, value) \/ SetEntryTypeValue(n, u, name, value)
      PROVE  Safe(n)
  <2>1. 0 \in SeqNums /\ 1 \in SeqNums
    BY HalfRangeAssumption DEF SeqNums
  <2>2. \/ \E seq \in {0, 1} : Create(n, u, name, value, seq)
        \/ \E sameType : ChangeValue(n, u, name, value, sameType)
        \/ KeepValue(n, u, name, value)
    BY <1>1 DEF SetEntryValue, SetEntryTypeValue
  <2> QED BY <2>1, <2>2, CreateSafe, ChangeValueSafe
<1>2. ASSUME DeleteAllEntries(n, u)
      PROVE  Safe(n)
  BY <1>2, ClearSafe DEF DeleteAllEntries
<1>3. CASE TableCall(n, u)
  BY <1>1, <1>2, <1>3, SetEntryFlagsSafe, DeleteEntrySafe DEF TableCall
<1> QED BY <1>3, LoadPersistentSafe DEF UserCall

\* Whatever message of a peer a reader processes is safe.
LEMMA ProcessIncomingSafe ==
  ASSUME IInv, NEW n \in Nodes, NEW c, NEW msg \in PeerMessages, NEW rev3,
         ProcessIncoming(n, c, msg, rev3)
  PROVE  Safe(n)
<1>1. CASE TakeClear(n, c, msg)
  BY <1>1, ClearSafe DEF TakeClear
<1>2. CASE Ignored(n, c, msg)
  BY <1>2, QuietSteps DEF Ignored
<1> QED BY <1>1, <1>2, AssignNewSafe, AssignUnknownSafe, AssignKnownSafe, BindSafe,
           TakeUpdateSafe, TakeFlagsSafe, TakeDeleteSafe DEF ProcessIncoming

\* Every step keeps the invariant.
LEMMA StepSafe ==
  ASSUME IInv, [Next]_storageVars
  PROVE  IInv'
<1>1. ASSUME Next
      PROVE  \E n \in Nodes : Safe(n)
  <2>1. PICK n \in Nodes :
            \/ \E server : SetOutgoing(n, server)
            \/ GetPersistentEntries(n)
            \/ \E u \in Users : UserCall(n, u)
            \/ \E c \in Conns, msg \in PeerMessages, rev3 \in BOOLEAN : ProcessIncoming(n, c, msg, rev3)
            \/ \E c \in Conns : BindResumed(n, c)
            \/ \E c \in Conns : \E table, newServer, rev3 :
                  ApplyInitialAssignments(n, c, table, newServer, rev3)
            \/ \E t \in Threads : HandOver(n, t)
    BY <1>1 DEF Next
  <2>2. Safe(n)
    BY <2>1, QuietSteps, UserCallSafe, ProcessIncomingSafe, BindResumedSafe,
       ApplyInitialAssignmentsSafe
  <2> QED BY <2>2
<1>2. ASSUME UNCHANGED storageVars, NEW n \in Nodes
      PROVE  Safe(n)
  BY <1>2, QuietSteps
<1>3. CASE Next
  BY <1>1, <1>3, SafeIsEnough
<1>4. CASE UNCHANGED storageVars
  <2>1. CASE \E n \in Nodes : TRUE
    BY <1>2, <1>4, <2>1, SafeIsEnough
  <2>2. CASE ~ \E n \in Nodes : TRUE
    BY <1>4, <2>2 DEF IInv, AllOnNodes, OnNodes, storageVars
  <2> QED BY <2>1, <2>2
<1> QED BY <1>3, <1>4

\* The empty tables satisfy the invariant.
LEMMA Initially ==
  ASSUME Init
  PROVE  IInv
<1>1. AllOnNodes
  BY DEF Init, EmptyTables, AllOnNodes, OnNodes
<1>2. ASSUME NEW n \in Nodes
      PROVE  NodeOK(n) /\ NothingLeft(n)
  <2>1. /\ heap[n] = [o \in Objs |-> FreeEntry] /\ ents[n] = [name \in Names |-> Nil]
        /\ idMap[n] = [id \in Ids |-> Nil] /\ idCount[n] = 0
        /\ resume[n] = [c \in Conns |-> Nothing]
    BY DEF Init, EmptyTables
  <2>2. TablesType(heap[n], ents[n], idMap[n], idCount[n])
    BY <2>1, FreeEntryOK, MessagesAssumption DEF TablesType, AnyId
  <2> QED BY <2>1, <2>2 DEF NodeOK, TablesOK, NamesHaveIds, IdsHaveNames, NothingLeft
<1> QED BY <1>1, <1>2 DEF IInv

\* In every reachable state, on every server that was never a client, the name index
\* and the id index of the entry table agree and no assignment is half done.
THEOREM Invariance == Spec => []IInv
<1>1. Init => IInv
  BY Initially
<1>2. IInv /\ [Next]_storageVars => IInv'
  BY StepSafe
<1> QED BY <1>1, <1>2, PTL DEF Spec

-----------------------------------------------------------------------------
(* What a server tells its listeners and keeps for its file, as values:    *)
(* the table as a listener of every notification should know it, and what  *)
(* GetPersistentEntries would return, both of the entries e in the heap h. *)

Shown(h, e) == [name \in Names |-> IF e[name] = Nil THEN Nil ELSE h[e[name]].val]

Persisted(h, e) ==
    [name \in Names |-> IF e[name] # Nil /\ h[e[name]].flags THEN h[e[name]].val ELSE Nil]

Told(n) ==
    /\ view[n] = Shown(heap[n], ents[n])
    /\ saved[n] = Persisted(heap[n], ents[n]) \/ dirty[n]

TInv ==
    /\ OnNodes(view) /\ OnNodes(dirty) /\ OnNodes(saved)
    /\ \A n \in Nodes : AlwaysServer(n) => Told(n)

\* A step of node n leaves what the other nodes told and saved alone.
OwnHistory(n) ==
    \E v, d, s : /\ view' = [view EXCEPT ![n] = v]
                 /\ dirty' = [dirty EXCEPT ![n] = d]
                 /\ saved' = [saved EXCEPT ![n] = s]

\* What a step of node n owes to its listeners and its file.
Tells(n) ==
    /\ OwnHistory(n)
    /\ AlwaysServer(n) => Told(n)'

\* On a server each node of the network has its own part of every variable, and
\* a name is the only one of its object.
LEMMA ServerTables ==
  ASSUME IInv, NEW n \in Nodes, AlwaysServer(n)
  PROVE  /\ heap[n] \in [Objs -> Entry] /\ ents[n] \in [Names -> Objs \cup {Nil}]
         /\ idMap[n] \in [Ids -> Objs \cup {Nil}] /\ Nil \notin Objs
         /\ \A name \in Names : Exists(n, name) =>
               ents[n][name] \in Objs /\ heap[n][ents[n][name]].name = name
<1>1. TablesType(heap[n], ents[n], idMap[n], idCount[n]) /\ NamesHaveIds(heap[n], ents[n], idMap[n], idCount[n])
  BY DEF IInv, NodeOK, TablesOK
<1> QED BY <1>1, StorageAssumption DEF TablesType, NamesHaveIds, Exists

\* A server's entry changes but keeps its name: the listeners are told its value,
\* and the file needs it if it is persistent, or was until now.
LEMMA ChangeTells ==
  ASSUME IInv, TInv, NEW n \in Nodes, AlwaysServer(n),
         NEW name \in Names, Exists(n, name), NEW entry, entry.name = name,
         SetEntry(n, ents[n][name], entry), UNCHANGED <<ents, saved>>,
         NEW condition \in BOOLEAN, MarkDirty(n, condition), Notify(n, name, entry.val),
         ~ condition => IF entry.flags
                        THEN EntryOf(n, name).flags /\ entry.val = EntryOf(n, name).val
                        ELSE ~ EntryOf(n, name).flags
  PROVE  Tells(n)
<1> DEFINE o == ents[n][name]
           h == heap[n]
           e == ents[n]
           hh == [h EXCEPT ![o] = entry]
<1>1. /\ h \in [Objs -> Entry] /\ o \in Objs /\ o # Nil /\ e \in [Names -> Objs \cup {Nil}]
      /\ \A other \in Names : e[other] # Nil => e[other] \in Objs /\ (other # name => e[other] # o)
  BY ServerTables DEF Exists
<1>2. AllOnNodes /\ OnNodes(view) /\ OnNodes(dirty) /\ OnNodes(saved) /\ Told(n)
  BY DEF IInv, TInv
<1>3. /\ heap'[n] = hh /\ ents'[n] = e /\ saved'[n] = saved[n]
      /\ view'[n] = [view[n] EXCEPT ![name] = entry.val]
      /\ dirty'[n] <=> (dirty[n] \/ condition)
  BY <1>2 DEF AllOnNodes, OnNodes, SetEntry, MarkDirty, Notify
<1>4. /\ hh[o] = entry /\ \A p \in Objs : p # o => hh[p] = h[p]
      /\ \A other \in Names : e[other] # Nil /\ other # name => hh[e[other]] = h[e[other]]
  BY <1>1
<1>5. OwnHistory(n)
  <2>1. saved' = [saved EXCEPT ![n] = saved[n]]
    BY <1>2 DEF OnNodes
  <2> QED BY <2>1 DEF OwnHistory, MarkDirty, Notify
<1> HIDE DEF hh
<1>6. view'[n] = Shown(hh, e)
  <2>1. view[n] = [other \in Names |-> IF e[other] = Nil THEN Nil ELSE h[e[other]].val]
    BY <1>2 DEF Told, Shown
  <2>2. \A other \in Names : view'[n][other] = IF e[other] = Nil THEN Nil ELSE hh[e[other]].val
    BY <1>1, <1>3, <1>4, <2>1
  <2>3. view'[n] = [other \in Names |-> view'[n][other]]
    BY <1>3, <2>1
  <2> QED BY <2>2, <2>3 DEF Shown
<1>7. saved'[n] = Persisted(hh, e) \/ dirty'[n]
  <2> SUFFICES ASSUME ~ dirty'[n]
               PROVE  saved'[n] = Persisted(hh, e)
    OBVIOUS
  <2>1. ~ dirty[n] /\ ~ condition
    BY <1>3
  <2>2. saved'[n] = Persisted(h, e)
    BY <1>2, <1>3, <2>1 DEF Told
  <2>3. \A other \in Names : (IF e[other] # Nil /\ hh[e[other]].flags THEN hh[e[other]].val ELSE Nil)
                           = (IF e[other] # Nil /\ h[e[other]].flags THEN h[e[other]].val ELSE Nil)
    BY <1>1, <1>4, <2>1 DEF EntryOf
  <2> QED BY <2>2, <2>3 DEF Persisted
<1> QED BY <1>3, <1>5, <1>6, <1>7 DEF Tells, Told

\* A server's new entry: the listeners are told its value.
LEMMA AddTells ==
  ASSUME IInv, TInv, NEW n \in Nodes, AlwaysServer(n), NEW o, IsNew(n, o),
         NEW entry, entry.name \in Names, ~ Exists(n, entry.name),
         AddEntry(n, o, entry), Notify(n, entry.name, entry.val), UNCHANGED saved,
         (~ entry.flags /\ UNCHANGED dirty) \/ MarkDirty(n, IsPersistent(entry))
  PROVE  Tells(n)
<1> DEFINE name == entry.name
           h == heap[n]
           e == ents[n]
           hh == [h EXCEPT ![o] = entry]
           ee == [e EXCEPT ![name] = o]
<1>1. /\ h \in [Objs -> Entry] /\ e \in [Names -> Objs \cup {Nil}] /\ e[name] = Nil
      /\ Nil \notin Objs /\ o \in Objs /\ \A other \in Names : e[other] # o
  BY ServerTables DEF Exists, IsNew, InUse, Referenced
<1>2. AllOnNodes /\ OnNodes(view) /\ OnNodes(dirty) /\ OnNodes(saved) /\ Told(n)
  BY DEF IInv, TInv
<1>3. /\ heap'[n] = hh /\ ents'[n] = ee /\ saved'[n] = saved[n]
      /\ view'[n] = [view[n] EXCEPT ![name] = entry.val]
  BY <1>2 DEF AllOnNodes, OnNodes, AddEntry, SetEntry, Notify
<1>4. dirty'[n] <=> (dirty[n] \/ entry.flags)
  BY <1>2 DEF OnNodes, MarkDirty, IsPersistent
<1>5. OwnHistory(n)
  <2>1. saved' = [saved EXCEPT ![n] = saved[n]]
    BY <1>2 DEF OnNodes
  <2>2. \E d : dirty' = [dirty EXCEPT ![n] = d]
    BY <1>2 DEF OnNodes, MarkDirty
  <2> QED BY <2>1, <2>2 DEF OwnHistory, Notify
<1>6. /\ hh[o] = entry /\ \A p \in Objs : p # o => hh[p] = h[p]
      /\ ee[name] = o
      /\ \A other \in Names : other # name => /\ ee[other] = e[other]
                                              /\ e[other] # Nil => hh[e[other]] = h[e[other]]
  BY <1>1
<1> HIDE DEF hh, ee
<1>7. view'[n] = Shown(hh, ee)
  <2>1. view[n] = [other \in Names |-> IF e[other] = Nil THEN Nil ELSE h[e[other]].val]
    BY <1>2 DEF Told, Shown
  <2>2. \A other \in Names : view'[n][other] = IF ee[other] = Nil THEN Nil ELSE hh[ee[other]].val
    BY <1>1, <1>3, <1>6, <2>1
  <2>3. view'[n] = [other \in Names |-> view'[n][other]]
    BY <1>3, <2>1
  <2> QED BY <2>2, <2>3 DEF Shown
<1>8. saved'[n] = Persisted(hh, ee) \/ dirty'[n]
  <2> SUFFICES ASSUME ~ dirty'[n]
               PROVE  saved'[n] = Persisted(hh, ee)
    OBVIOUS
  <2>1. ~ dirty[n] /\ ~ entry.flags
    BY <1>4
  <2>2. saved'[n] = Persisted(h, e)
    BY <1>2, <1>3, <2>1 DEF Told
  <2>3. \A other \in Names : (IF ee[other] # Nil /\ hh[ee[other]].flags THEN hh[ee[other]].val ELSE Nil)
                           = (IF e[other] # Nil /\ h[e[other]].flags THEN h[e[other]].val ELSE Nil)
    BY <1>1, <1>6, <2>1
  <2> QED BY <2>2, <2>3 DEF Persisted
<1> QED BY <1>3, <1>5, <1>7, <1>8 DEF Tells, Told

\* A server's entries are removed: the listeners are told so, and the file needs
\* to be written again if one of them was persistent.
LEMMA RemoveTells ==
  ASSUME IInv, TInv, NEW n \in Nodes, AlwaysServer(n),
         NEW e \in [Names -> Objs \cup {Nil}], NEW m \in [Ids -> Objs \cup {Nil}],
         NEW v, NEW d,
         heap' = [heap EXCEPT ![n] = Collected(n, heap[n], e, m)],
         ents' = [ents EXCEPT ![n] = e], idMap' = [idMap EXCEPT ![n] = m],
         view' = [view EXCEPT ![n] = v], dirty' = [dirty EXCEPT ![n] = d], UNCHANGED saved,
         v = [name \in Names |-> IF e[name] = Nil THEN Nil ELSE view[n][name]],
         \A name \in Names : e[name] # Nil => e[name] = ents[n][name],
         dirty[n] => d,
         \A name \in Names : e[name] = Nil /\ Exists(n, name) /\ EntryOf(n, name).flags => d
  PROVE  Tells(n)
<1> DEFINE h == heap[n]
           hh == Collected(n, h, e, m)
<1>1. /\ h \in [Objs -> Entry] /\ Nil \notin Objs
  BY ServerTables
<1>2. AllOnNodes /\ OnNodes(view) /\ OnNodes(dirty) /\ OnNodes(saved) /\ Told(n) /\ NothingLeft(n)
  BY DEF IInv, TInv
<1>3. /\ heap'[n] = hh /\ ents'[n] = e /\ idMap'[n] = m /\ saved'[n] = saved[n]
      /\ view'[n] = v /\ dirty'[n] = d
  BY <1>2 DEF AllOnNodes, OnNodes
<1>4. OwnHistory(n)
  <2>1. saved' = [saved EXCEPT ![n] = saved[n]]
    BY <1>2 DEF OnNodes
  <2> QED BY <2>1 DEF OwnHistory
<1>5. \A o \in Objs : hh[o] = IF o \in Referenced(e, m) THEN h[o] ELSE FreeEntry
  BY <1>1, <1>2 DEF Collected, NothingLeft, Nothing
<1>6. \A name \in Names : e[name] # Nil => e[name] = ents[n][name] /\ hh[e[name]] = h[e[name]]
  BY <1>5 DEF Referenced
<1> HIDE DEF hh
<1>7. v = Shown(hh, e)
  <2>1. view[n] = [name \in Names |-> IF ents[n][name] = Nil THEN Nil ELSE h[ents[n][name]].val]
    BY <1>2 DEF Told, Shown
  <2> QED BY <1>6, <2>1 DEF Shown
<1>8. saved'[n] = Persisted(hh, e) \/ d
  <2> SUFFICES ASSUME ~ d
               PROVE  saved'[n] = Persisted(hh, e)
    OBVIOUS
  <2>1. saved'[n] = Persisted(h, ents[n])
    BY <1>2, <1>3 DEF Told
  <2>2. \A name \in Names : (IF e[name] # Nil /\ hh[e[name]].flags THEN hh[e[name]].val ELSE Nil)
                          = (IF ents[n][name] # Nil /\ h[ents[n][name]].flags THEN h[ents[n][name]].val ELSE Nil)
    BY <1>6 DEF Exists, EntryOf
  <2> QED BY <2>1, <2>2 DEF Persisted
<1> QED BY <1>3, <1>4, <1>7, <1>8 DEF Tells, Told

\* A server's tables stay as they are, and so does what its listeners know.
LEMMA QuietTells ==
  ASSUME IInv, TInv, NEW n \in Nodes, UNCHANGED <<heap, ents, view>>,
         NEW d, NEW s, dirty' = [dirty EXCEPT ![n] = d], saved' = [saved EXCEPT ![n] = s],
         AlwaysServer(n) => (s = saved[n] /\ (dirty[n] => d)) \/ s = PersistentEntries(n)
  PROVE  Tells(n)
<1>1. OnNodes(view) /\ OnNodes(dirty) /\ OnNodes(saved)
  BY DEF TInv
<1>2. OwnHistory(n) /\ dirty'[n] = d /\ saved'[n] = s
  BY <1>1 DEF OwnHistory, OnNodes
<1>3. ASSUME AlwaysServer(n)
      PROVE  Told(n)'
  <2>1. Told(n)
    BY <1>3 DEF TInv
  <2>2. PersistentEntries(n) = Persisted(heap[n], ents[n])
    BY DEF PersistentEntries, Persisted, Exists, IsPersistent, EntryOf
  <2>3. saved'[n] = Persisted(heap[n], ents[n]) \/ dirty'[n]
    BY <1>2, <1>3, <2>1, <2>2 DEF Told
  <2> QED BY <2>1, <2>3 DEF Told
<1> QED BY <1>2, <1>3 DEF Tells

\* A step that notifies of one name at most and sets the flag at most.
LEMMA HistoryIsOwn ==
  ASSUME TInv, NEW n \in Nodes, NEW name, NEW value, NEW condition,
         UNCHANGED view \/ Notify(n, name, value),
         UNCHANGED dirty \/ MarkDirty(n, condition), UNCHANGED saved
  PROVE  OwnHistory(n)
<1>1. /\ view = [view EXCEPT ![n] = view[n]] /\ dirty = [dirty EXCEPT ![n] = dirty[n]]
      /\ saved = [saved EXCEPT ![n] = saved[n]]
  BY DEF TInv, OnNodes
<1>2. PICK v : view' = [view EXCEPT ![n] = v]
  BY <1>1 DEF Notify
<1>3. PICK d : dirty' = [dirty EXCEPT ![n] = d]
  BY <1>1 DEF MarkDirty
<1>4. saved' = [saved EXCEPT ![n] = saved[n]]
  BY <1>1
<1> QED BY <1>2, <1>3, <1>4 DEF OwnHistory

\* An entry that is created is told of.
LEMMA CreateTells ==
  ASSUME IInv, TInv, NEW n \in Nodes, NEW u, NEW name \in Names, NEW value \in Values,
         NEW seq \in SeqNums, Create(n, u, name, value, seq)
  PROVE  Tells(n)
<1>1. Notify(n, name, value) /\ UNCHANGED <<dirty, saved>> /\ ~ Exists(n, name)
  BY DEF Create
<1>2. CASE AlwaysServer(n)
  <2>1. PICK o, entry : /\ IsNew(n, o) /\ AddEntry(n, o, entry)
                        /\ entry.name = name /\ entry.val = value /\ ~ entry.flags
    BY DEF Create, NewEntry
  <2> QED BY <1>1, <1>2, <2>1, AddTells
<1>3. CASE ~ AlwaysServer(n)
  BY <1>1, <1>3, HistoryIsOwn DEF Tells
<1> QED BY <1>2, <1>3

\* A value that is changed is told of, and a persistent one is to be saved.
LEMMA ChangeValueTells ==
  ASSUME IInv, TInv, NEW n \in Nodes, NEW u, NEW name \in Names, NEW value \in Values,
         NEW sameType, ChangeValue(n, u, name, value, sameType)
  PROVE  Tells(n)
<1> DEFINE old == EntryOf(n, name)
           seq == IF role[n] = "idle" THEN old.seq ELSE Inc(old.seq)
           new == [old EXCEPT !.val = value, !.id = IdOf(n, old), !.seq = seq]
<1>1. /\ Exists(n, name) /\ SetEntry(n, ents[n][name], new) /\ UNCHANGED <<ents, saved>>
      /\ MarkDirty(n, IsPersistent(old)) /\ Notify(n, name, value)
  BY DEF ChangeValue
<1>2. CASE AlwaysServer(n)
  <2>1. old \in Entry /\ old.name = name
    BY <1>1, <1>2, ByName
  <2> HIDE DEF seq
  <2>2. new.name = name /\ new.val = value /\ new.flags = old.flags /\ old.flags \in BOOLEAN
    BY <2>1 DEF Entry
  <2> HIDE DEF new
  <2> QED BY <1>1, <1>2, <2>2, ChangeTells DEF IsPersistent
<1>3. CASE ~ AlwaysServer(n)
  BY <1>1, <1>3, HistoryIsOwn DEF Tells
<1> QED BY <1>2, <1>3

\* A value that is kept is not; a server that was no client before has no such step.
LEMMA KeepValueTells ==
  ASSUME IInv, TInv, NEW n \in Nodes, NEW u, NEW name \in Names, NEW value,
         KeepValue(n, u, name, value)
  PROVE  Tells(n)
<1>1. ~ AlwaysServer(n) /\ UNCHANGED <<view, dirty, saved>>
  BY NoneNeedsId DEF KeepValue
<1> QED BY <1>1, HistoryIsOwn DEF Tells

\* The listeners are told of every line of a file that is loaded, and what the
\* file has need not be saved.
LEMMA LoadPersistentTells ==
  ASSUME IInv, TInv, NEW n \in Nodes, NEW u, NEW file \in Files, LoadPersistent(n, u, file)
  PROVE  Tells(n)
<1> DEFINE read(f) == [name \in Names |-> IF name \in DOMAIN file THEN file[name] ELSE f[name]]
<1>1. AllOnNodes /\ OnNodes(view) /\ OnNodes(dirty) /\ OnNodes(saved)
  BY DEF IInv, TInv
<1>2. /\ view' = [view EXCEPT ![n] = read(view[n])] /\ saved' = [saved EXCEPT ![n] = read(saved[n])]
      /\ UNCHANGED dirty
  BY DEF LoadPersistent, ReadLines
<1>3. OwnHistory(n)
  <2>1. dirty' = [dirty EXCEPT ![n] = dirty[n]]
    BY <1>1, <1>2 DEF OnNodes
  <2> QED BY <1>2, <2>1 DEF OwnHistory
<1>4. ASSUME AlwaysServer(n)
      PROVE  Told(n)'
  <2>1. PICK place, ids, last, h, e, m :
           /\ LoadedTo(n, file, place, ids, last, h, e, m)
           /\ heap' = [heap EXCEPT ![n] = h] /\ ents' = [ents EXCEPT ![n] = e]
    BY <1>1, LoadDoes
  <2>2. /\ heap'[n] = h /\ ents'[n] = e /\ view'[n] = read(view[n]) /\ saved'[n] = read(saved[n])
        /\ dirty'[n] = dirty[n]
    BY <1>1, <1>2, <2>1 DEF AllOnNodes, OnNodes
  <2>loaded. LoadedNames(n, file, ids, h, e) /\ \A name \in DOMAIN file : LoadedLine(n, file, ids, name)
    <3>1. NamedTables(n)
      BY <1>4 DEF IInv, NodeOK, TablesOK, TablesType, NamesHaveIds, NamedTables
    <3> QED BY <2>1, <3>1, NamesAreLoaded
  <2>3. \A name \in DOMAIN file : /\ name \in Names /\ e[name] # Nil
                                  /\ h[e[name]].val = file[name] /\ h[e[name]].flags
    BY <2>loaded, StorageAssumption DEF LoadedNames, LoadedLine
  <2>4. \A name \in Names \ DOMAIN file : e[name] = ents[n][name]
                                          /\ (e[name] # Nil => h[e[name]] = heap[n][e[name]])
    BY <2>loaded DEF LoadedNames
  <2> HIDE DEF read
  <2>5. read(view[n]) = Shown(h, e)
    <3>1. \A name \in Names : view[n][name] = IF ents[n][name] = Nil THEN Nil
                                              ELSE heap[n][ents[n][name]].val
      <4>1. view[n] = Shown(heap[n], ents[n])
        BY <1>4 DEF TInv, Told
      <4> QED BY <4>1 DEF Shown
    <3>2. \A name \in Names : (IF name \in DOMAIN file THEN file[name] ELSE view[n][name])
                            = (IF e[name] = Nil THEN Nil ELSE h[e[name]].val)
      BY <2>3, <2>4, <3>1
    <3> QED BY <3>2 DEF Shown, read
  <2>6. read(saved[n]) = Persisted(h, e) \/ dirty[n]
    <3> SUFFICES ASSUME ~ dirty[n]
                 PROVE  read(saved[n]) = Persisted(h, e)
      OBVIOUS
    <3>1. \A name \in Names : saved[n][name] = IF ents[n][name] # Nil /\ heap[n][ents[n][name]].flags
                                               THEN heap[n][ents[n][name]].val ELSE Nil
      <4>1. saved[n] = Persisted(heap[n], ents[n])
        BY <1>4 DEF TInv, Told
      <4> QED BY <4>1 DEF Persisted
    <3>2. \A name \in Names : (IF name \in DOMAIN file THEN file[name] ELSE saved[n][name])
                            = (IF e[name] # Nil /\ h[e[name]].flags THEN h[e[name]].val ELSE Nil)
      BY <2>3, <2>4, <3>1
    <3> QED BY <3>2 DEF Persisted, read
  <2> QED BY <2>2, <2>5, <2>6 DEF Told
<1> QED BY <1>3, <1>4 DEF Tells

\* Flags that are changed are told of, and are to be saved.
LEMMA SetEntryFlagsTells ==
  ASSUME IInv, TInv, NEW n \in Nodes, NEW u, NEW name \in Names, NEW flags \in BOOLEAN,
         SetEntryFlags(n, u, name, flags)
  PROVE  Tells(n)
<1> DEFINE old == EntryOf(n, name)
           new == [old EXCEPT !.flags = flags]
<1>1. /\ Exists(n, name) /\ SetEntry(n, ents[n][name], new) /\ UNCHANGED <<ents, idMap, saved>>
      /\ MarkDirty(n, TRUE) /\ Notify(n, name, old.val)
  BY DEF SetEntryFlags
<1>2. CASE AlwaysServer(n)
  <2>1. old \in Entry /\ old.name = name
    BY <1>1, <1>2, ByName
  <2>2. new.name = name /\ new.val = old.val
    BY <2>1 DEF Entry
  <2> HIDE DEF new
  <2> QED BY <1>1, <1>2, <2>2, ChangeTells
<1>3. CASE ~ AlwaysServer(n)
  BY <1>1, <1>3, HistoryIsOwn DEF Tells
<1> QED BY <1>2, <1>3

\* An entry a server removes from both indexes, under its name and its id, is gone
\* for the listeners too.
LEMMA RemovedTells ==
  ASSUME IInv, TInv, NEW n \in Nodes, AlwaysServer(n), NEW id \in Ids, NEW name \in Names,
         Exists(n, name), RemoveEntry(n, id, name), UNCHANGED saved,
         MarkDirty(n, IsPersistent(EntryOf(n, name))), Notify(n, name, Nil)
  PROVE  Tells(n)
<1> DEFINE e == [ents[n] EXCEPT ![name] = Nil]
           m == [idMap[n] EXCEPT ![id] = Nil]
           v == [view[n] EXCEPT ![name] = Nil]
           d == dirty[n] \/ IsPersistent(EntryOf(n, name))
<1>1. /\ ents[n] \in [Names -> Objs \cup {Nil}] /\ idMap[n] \in [Ids -> Objs \cup {Nil}]
  BY ServerTables
<1>2. e \in [Names -> Objs \cup {Nil}] /\ m \in [Ids -> Objs \cup {Nil}]
  BY <1>1
<1>3. /\ heap' = [heap EXCEPT ![n] = Collected(n, heap[n], e, m)]
      /\ ents' = [ents EXCEPT ![n] = e] /\ idMap' = [idMap EXCEPT ![n] = m]
      /\ view' = [view EXCEPT ![n] = v] /\ dirty' = [dirty EXCEPT ![n] = d]
  BY DEF RemoveEntry, Notify, MarkDirty
<1>4. \A other \in Names : other # name => e[other] = ents[n][other]
  BY <1>1
<1>5. e[name] = Nil
  BY <1>1
<1>6. v = [other \in Names |-> IF e[other] = Nil THEN Nil ELSE view[n][other]]
  <2>1. view[n] = [other \in Names |-> IF ents[n][other] = Nil THEN Nil ELSE heap[n][ents[n][other]].val]
    BY DEF TInv, Told, Shown
  <2>2. \A other \in Names : v[other] = IF e[other] = Nil THEN Nil ELSE view[n][other]
    BY <1>4, <1>5, <2>1
  <2>3. v = [other \in Names |-> v[other]]
    BY <2>1
  <2> QED BY <2>2, <2>3
<1>7. /\ dirty[n] => d
      /\ \A other \in Names : e[other] = Nil /\ Exists(n, other) /\ EntryOf(n, other).flags => d
  BY <1>4 DEF Exists, IsPersistent
<1> HIDE DEF e, m, v, d
<1>8. \A other \in Names : e[other] # Nil => e[other] = ents[n][other]
  BY <1>4, <1>5
<1> QED BY <1>2, <1>3, <1>6, <1>7, <1>8, RemoveTells

\* Where an entry may be removed that a client has.
LEMMA DeleteEntryTells ==
  ASSUME IInv, TInv, NEW n \in Nodes, NEW u, NEW name \in Names, DeleteEntry(n, u, name)
  PROVE  Tells(n)
<1>1. /\ Exists(n, name) /\ RemoveEntry(n, EntryOf(n, name).id, name) /\ UNCHANGED saved
      /\ MarkDirty(n, IsPersistent(EntryOf(n, name))) /\ Notify(n, name, Nil)
  BY DEF DeleteEntry
<1>2. CASE AlwaysServer(n)
  <2>1. EntryOf(n, name).id \in Ids
    BY <1>1, <1>2, ByName
  <2> QED BY <1>1, <1>2, <2>1, RemovedTells
<1>3. CASE ~ AlwaysServer(n)
  BY <1>1, <1>3, HistoryIsOwn DEF Tells
<1> QED BY <1>2, <1>3

\* Removing all entries that are not persistent leaves nothing to save.
LEMMA ClearTells ==
  ASSUME IInv, TInv, NEW n \in Nodes, DeleteAllEntriesImpl(n)
  PROVE  Tells(n)
<1> DEFINE gone == {name \in Names : Exists(n, name) /\ ~ IsPersistent(EntryOf(n, name))}
           ids == {EntryOf(n, name).id : name \in gone}
           e == [name \in Names |-> IF name \in gone THEN Nil ELSE ents[n][name]]
           m == [id \in Ids |-> IF id \in ids THEN Nil ELSE idMap[n][id]]
           v == [name \in Names |-> IF name \in gone THEN Nil ELSE view[n][name]]
<1>1. OnNodes(dirty) /\ OnNodes(saved)
  BY DEF TInv
<1>2. /\ heap' = [heap EXCEPT ![n] = Collected(n, heap[n], e, m)]
      /\ ents' = [ents EXCEPT ![n] = e] /\ idMap' = [idMap EXCEPT ![n] = m]
      /\ view' = [view EXCEPT ![n] = v] /\ dirty' = [dirty EXCEPT ![n] = dirty[n]]
      /\ saved' = [saved EXCEPT ![n] = saved[n]] /\ UNCHANGED saved
  BY <1>1 DEF DeleteAllEntriesImpl, OnNodes
<1>3. CASE AlwaysServer(n)
  <2>1. /\ ents[n] \in [Names -> Objs \cup {Nil}] /\ idMap[n] \in [Ids -> Objs \cup {Nil}]
    BY <1>3, ServerTables
  <2>2. e \in [Names -> Objs \cup {Nil}] /\ m \in [Ids -> Objs \cup {Nil}]
    BY <2>1
  <2>3. v = [name \in Names |-> IF e[name] = Nil THEN Nil ELSE view[n][name]]
    <3>1. view[n] = [name \in Names |-> IF ents[n][name] = Nil THEN Nil ELSE heap[n][ents[n][name]].val]
      BY <1>3 DEF TInv, Told, Shown
    <3>2. \A name \in Names : (IF name \in gone THEN Nil ELSE view[n][name])
                            = (IF e[name] = Nil THEN Nil ELSE view[n][name])
      BY <3>1
    <3> QED BY <3>2
  <2>4. \A name \in Names : e[name] # Nil => e[name] = ents[n][name]
    OBVIOUS
  <2>5. \A name \in Names : e[name] = Nil /\ Exists(n, name) /\ EntryOf(n, name).flags => dirty[n]
    BY DEF Exists, IsPersistent
  <2> HIDE DEF e, m, v
  <2> QED BY <1>2, <1>3, <2>2, <2>3, <2>4, <2>5, RemoveTells
<1>4. CASE ~ AlwaysServer(n)
  BY <1>2, <1>4 DEF Tells, OwnHistory
<1> QED BY <1>3, <1>4
\* A new entry of a client is told of, and saved if it is persistent.
LEMMA AssignNewTells ==
  ASSUME IInv, TInv, NEW n \in Nodes, NEW c, NEW msg \in PeerMessages,
         msg.type = "EntryAssign", AssignNew(n, c, msg)
  PROVE  Tells(n)
<1> DEFINE entry == NewEntry(msg.str, msg.val, msg.flags, NextId(n), 0)
<1>1. /\ ~ Exists(n, msg.str) /\ UNCHANGED saved
      /\ MarkDirty(n, IsPersistent(entry)) /\ Notify(n, entry.name, entry.val)
  BY DEF AssignNew
<1>2. PICK o \in Objs : IsNew(n, o) /\ AddEntry(n, o, entry)
  BY DEF AssignNew
<1>3. msg.str \in Names /\ entry.name = msg.str
  BY PeerMessageFields DEF NewEntry
<1> HIDE DEF entry
<1>4. CASE AlwaysServer(n)
  BY <1>1, <1>2, <1>3, <1>4, AddTells
<1>5. CASE ~ AlwaysServer(n)
  BY <1>1, <1>5, HistoryIsOwn DEF Tells
<1> QED BY <1>4, <1>5

\* The entry an id leads to on a server is the entry of its name.
LEMMA NamedById ==
  ASSUME IInv, NEW n \in Nodes, AlwaysServer(n), NEW msg \in PeerMessages, Lookup(n, msg.id) # Nil
  PROVE  LET o == Lookup(n, msg.id)
             e == heap[n][o]
         IN /\ msg.id \in Ids /\ e \in Entry /\ e.name \in Names
            /\ Exists(n, e.name) /\ ents[n][e.name] = o /\ EntryOf(n, e.name) = e
<1>1. msg.id \in AnyId
  BY PeerMessageFields
<1> QED BY <1>1, ById DEF Exists, EntryOf

\* An assignment of a known id: if it is taken, its value is told of.
LEMMA AssignKnownTells ==
  ASSUME IInv, TInv, NEW n \in Nodes, NEW c, NEW msg \in PeerMessages, NEW rev3,
         msg.type = "EntryAssign", AssignKnown(n, c, msg, rev3)
  PROVE  Tells(n)
<1> DEFINE o == Lookup(n, msg.id)
           e == heap[n][o]
           new == Assigned(msg, e, FALSE, rev3)
           condition == new.flags # e.flags \/ (IsPersistent(new) /\ e.val # msg.val)
<1>1. /\ o # Nil /\ SetEntry(n, o, new) /\ UNCHANGED <<ents, idMap, saved>>
      /\ TakeAssign(n, c, msg, e, FALSE, rev3)
  BY DEF AssignKnown
<1>2. \/ ~ Taken(msg, e) /\ UNCHANGED <<dirty, view>>
      \/ Taken(msg, e) /\ MarkDirty(n, condition) /\ Notify(n, msg.str, msg.val)
  BY <1>1 DEF TakeAssign, Taken
<1>3. CASE ~ AlwaysServer(n)
  BY <1>1, <1>2, <1>3, HistoryIsOwn DEF Tells
<1>4. CASE AlwaysServer(n)
  <2>1. /\ e \in Entry /\ e.name \in Names /\ Exists(n, e.name) /\ ents[n][e.name] = o
        /\ EntryOf(n, e.name) = e
    BY <1>1, <1>4, NamedById
  <2>2. CASE ~ Taken(msg, e)
    <3>1. new = e
      BY <2>2 DEF Assigned
    <3>2. UNCHANGED heap
      <4>1. heap[n] \in [Objs -> Entry] /\ heap = [heap EXCEPT ![n] = heap[n]]
        BY <1>4, ServerTables DEF IInv, AllOnNodes, OnNodes
      <4>2. [heap[n] EXCEPT ![o] = e] = heap[n]
        BY <4>1
      <4> QED BY <1>1, <3>1, <4>1, <4>2 DEF SetEntry
    <3>3. dirty' = [dirty EXCEPT ![n] = dirty[n]] /\ saved' = [saved EXCEPT ![n] = saved[n]]
      BY <1>1, <1>2, <2>2 DEF TInv, OnNodes
    <3> QED BY <1>1, <1>2, <2>2, <3>2, <3>3, QuietTells
  <2>3. CASE Taken(msg, e)
    <3>1. msg.val \in Values /\ msg.seq \in SeqNums /\ msg.flags \in BOOLEAN
      BY PeerMessageFields
    <3>2. TakenFlags(msg, e, FALSE, rev3) \in BOOLEAN
      BY <2>1, <3>1 DEF TakenFlags, Entry
    <3> HIDE DEF o, e
    <3>3. /\ new.name = e.name /\ new.val = msg.val /\ new.seq = msg.seq
          /\ new.flags \in BOOLEAN /\ e.flags \in BOOLEAN
      BY <2>1, <2>3, <3>1, <3>2 DEF Assigned, Entry
    <3>4. ~ Older(msg.seq, e.seq) /\ msg.str = e.name
      BY <2>3 DEF Taken, StaleAssign
    <3>5. /\ condition \in BOOLEAN
          /\ ~ condition => new.flags = e.flags /\ (new.flags => new.val = e.val)
      BY <3>3 DEF IsPersistent
    <3> HIDE DEF condition, new
    <3> QED BY <1>1, <1>2, <1>4, <2>1, <2>3, <3>3, <3>4, <3>5, ChangeTells
  <2> QED BY <2>2, <2>3
<1> QED BY <1>3, <1>4

\* An update of a known id is told of, and saved if its entry is persistent.
LEMMA TakeUpdateTells ==
  ASSUME IInv, TInv, NEW n \in Nodes, NEW c, NEW msg \in PeerMessages,
         msg.type = "EntryUpdate", TakeUpdate(n, c, msg)
  PROVE  Tells(n)
<1> DEFINE o == Lookup(n, msg.id)
           e == heap[n][o]
           new == [e EXCEPT !.val = msg.val, !.seq = msg.seq]
<1>1. /\ o # Nil /\ ~ StaleUpdate(msg, e) /\ SetEntry(n, o, new) /\ UNCHANGED <<ents, idMap, saved>>
      /\ MarkDirty(n, IsPersistent(e)) /\ Notify(n, e.name, msg.val)
  BY DEF TakeUpdate
<1>2. CASE ~ AlwaysServer(n)
  BY <1>1, <1>2, HistoryIsOwn DEF Tells
<1>3. CASE AlwaysServer(n)
  <2>1. /\ e \in Entry /\ e.name \in Names /\ Exists(n, e.name) /\ ents[n][e.name] = o
        /\ EntryOf(n, e.name) = e
    BY <1>1, <1>3, NamedById
  <2> HIDE DEF o, e
  <2>2. /\ new.name = e.name /\ new.val = msg.val /\ new.seq = msg.seq
        /\ new.flags = e.flags /\ e.flags \in BOOLEAN
    BY <2>1 DEF Entry
  <2>3. ~ Older(new.seq, e.seq)
    BY <1>1, <2>2 DEF StaleUpdate, NotNewer
  <2> HIDE DEF new
  <2> QED BY <1>1, <1>3, <2>1, <2>2, <2>3, ChangeTells DEF IsPersistent
<1> QED BY <1>2, <1>3

\* So is a change of flags, whatever they were.
LEMMA TakeFlagsTells ==
  ASSUME IInv, TInv, NEW n \in Nodes, NEW c, NEW msg \in PeerMessages,
         msg.type = "FlagsUpdate", TakeFlags(n, c, msg)
  PROVE  Tells(n)
<1> DEFINE o == Lookup(n, msg.id)
           e == heap[n][o]
           new == [e EXCEPT !.flags = msg.flags]
<1>1. /\ o # Nil /\ SetEntry(n, o, new) /\ UNCHANGED <<ents, idMap, saved>>
      /\ MarkDirty(n, TRUE) /\ Notify(n, e.name, e.val)
  BY DEF TakeFlags
<1>2. CASE ~ AlwaysServer(n)
  BY <1>1, <1>2, HistoryIsOwn DEF Tells
<1>3. CASE AlwaysServer(n)
  <2>1. /\ e \in Entry /\ e.name \in Names /\ Exists(n, e.name) /\ ents[n][e.name] = o
        /\ EntryOf(n, e.name) = e
    BY <1>1, <1>3, NamedById
  <2> HIDE DEF o, e
  <2>2. new.name = e.name /\ new.val = e.val
    BY <2>1 DEF Entry
  <2> HIDE DEF new
  <2> QED BY <1>1, <1>3, <2>1, <2>2, ChangeTells
<1> QED BY <1>2, <1>3

\* On a server the id of a delete leads to an entry that has its name.
LEMMA TakeDeleteTells ==
  ASSUME IInv, TInv, NEW n \in Nodes, NEW c, NEW msg \in PeerMessages, TakeDelete(n, c, msg)
  PROVE  Tells(n)
<1> DEFINE o == Lookup(n, msg.id)
           e == heap[n][o]
<1>1. /\ o # Nil /\ RemoveEntry(n, msg.id, e.name) /\ UNCHANGED saved
      /\ MarkDirty(n, IsPersistent(e))
      /\ IF Exists(n, e.name) THEN Notify(n, e.name, Nil) ELSE UNCHANGED view
  BY DEF TakeDelete
<1>2. CASE ~ AlwaysServer(n)
  BY <1>1, <1>2, HistoryIsOwn DEF Tells
<1>3. CASE AlwaysServer(n)
  <2>1. /\ msg.id \in Ids /\ e.name \in Names /\ Exists(n, e.name) /\ EntryOf(n, e.name) = e
    BY <1>1, <1>3, NamedById
  <2> HIDE DEF e
  <2> QED BY <1>1, <1>3, <2>1, RemovedTells
<1> QED BY <1>2, <1>3

\* The steps only a client takes for a message.
LEMMA ClientTells ==
  ASSUME IInv, TInv, NEW n \in Nodes, NEW c,
         \/ \E msg : AssignUnknown(n, c, msg)
         \/ \E msg : Bind(n, c, msg)
         \/ c \in Conns /\ BindResumed(n, c)
  PROVE  Tells(n)
<1>1. CASE \E msg : AssignUnknown(n, c, msg)
  <2>1. PICK msg : AssignUnknown(n, c, msg)
    BY <1>1
  <2>2. ~ AlwaysServer(n) /\ Notify(n, msg.str, msg.val) /\ UNCHANGED <<dirty, saved>>
    BY <2>1, AlwaysServes DEF AssignUnknown
  <2> QED BY <2>2, HistoryIsOwn DEF Tells
<1>2. ASSUME NEW msg, NEW e, TakeAssign(n, c, msg, e, TRUE, FALSE), UNCHANGED saved
      PROVE  OwnHistory(n)
  <2>1. \/ UNCHANGED <<dirty, view>>
        \/ \E condition : MarkDirty(n, condition) /\ Notify(n, msg.str, msg.val)
    BY <1>2 DEF TakeAssign
  <2> QED BY <1>2, <2>1, HistoryIsOwn
<1>3. CASE \E msg : Bind(n, c, msg)
  <2>1. PICK msg : Bind(n, c, msg)
    BY <1>3
  <2>2. ~ AlwaysServer(n) /\ UNCHANGED saved
    BY <2>1, AlwaysServes DEF Bind
  <2>3. \/ UNCHANGED <<dirty, view>>
        \/ \E e : TakeAssign(n, c, msg, e, TRUE, FALSE)
    BY <2>1 DEF Bind
  <2> QED BY <1>2, <2>2, <2>3, HistoryIsOwn DEF Tells
<1>4. CASE c \in Conns /\ BindResumed(n, c)
  <2>1. ~ AlwaysServer(n)
    BY <1>4 DEF BindResumed, IInv, NothingLeft
  <2>2. UNCHANGED saved /\ \E msg, e : TakeAssign(n, c, msg, e, TRUE, FALSE)
    BY <1>4 DEF BindResumed
  <2> QED BY <1>2, <2>1, <2>2 DEF Tells
<1> QED BY <1>1, <1>3, <1>4

\* A client that takes over a server's table tells its own listeners.
LEMMA ApplyInitialAssignmentsTells ==
  ASSUME TInv, NEW n \in Nodes, NEW c, NEW table, NEW newServer, NEW rev3,
         ApplyInitialAssignments(n, c, table, newServer, rev3)
  PROVE  Tells(n)
<1>1. ~ AlwaysServer(n) /\ UNCHANGED <<dirty, saved>>
  BY Zenon DEF ApplyInitialAssignments, AlwaysServer
<1>2. PICK v : view' = [view EXCEPT ![n] = v]
  BY Zenon DEF ApplyInitialAssignments
<1>3. dirty' = [dirty EXCEPT ![n] = dirty[n]] /\ saved' = [saved EXCEPT ![n] = saved[n]]
  BY <1>1 DEF TInv, OnNodes
<1>4. OwnHistory(n)
  BY <1>2, <1>3 DEF OwnHistory
<1> QED BY <1>1, <1>4 DEF Tells

\* The steps that leave the tables alone; a snapshot is what it should be.
LEMMA QuietStepsTell ==
  ASSUME IInv, TInv, NEW n \in Nodes,
         \/ \E server : SetOutgoing(n, server)
         \/ GetPersistentEntries(n)
         \/ \E t : HandOver(n, t)
         \/ UNCHANGED storageVars
  PROVE  Tells(n)
<1>1. dirty = [dirty EXCEPT ![n] = dirty[n]] /\ saved = [saved EXCEPT ![n] = saved[n]]
  BY DEF TInv, OnNodes
<1>2. CASE GetPersistentEntries(n)
  BY <1>2, QuietTells DEF GetPersistentEntries
<1>3. CASE UNCHANGED <<heap, ents, idMap, view, dirty, saved>>
  <2>1. dirty' = [dirty EXCEPT ![n] = dirty[n]] /\ saved' = [saved EXCEPT ![n] = saved[n]]
    BY <1>1, <1>3
  <2> QED BY <1>3, <2>1, QuietTells
<1> QED BY <1>2, <1>3 DEF SetOutgoing, HandOver, storageVars

\* Whatever a user calls tells the listeners what it should.
LEMMA UserCallTells ==
  ASSUME IInv, TInv, NEW n \in Nodes, NEW u, UserCall(n, u)
  PROVE  Tells(n)
<1>1. ASSUME NEW name \in Names, NEW value \in Values,
             SetEntryValue(n, u, name, value) \/ SetEntryTypeValue(n, u, name, value)
      PROVE  Tells(n)
  <2>1. 0 \in SeqNums /\ 1 \in SeqNums
    BY HalfRangeAssumption DEF SeqNums
  <2>2. \/ \E seq \in {0, 1} : Create(n, u, name, value, seq)
        \/ \E sameType : ChangeValue(n, u, name, value, sameType)
        \/ KeepValue(n, u, name, value)
    BY <1>1 DEF SetEntryValue, SetEntryTypeValue
  <2> QED BY <2>1, <2>2, CreateTells, ChangeValueTells, KeepValueTells
<1>2. ASSUME DeleteAllEntries(n, u)
      PROVE  Tells(n)
  BY <1>2, ClearTells DEF DeleteAllEntries
<1>3. CASE TableCall(n, u)
  BY <1>1, <1>2, <1>3, SetEntryFlagsTells, DeleteEntryTells DEF TableCall
<1> QED BY <1>3, LoadPersistentTells DEF UserCall

\* And so does whatever message of a peer a reader processes.
LEMMA ProcessIncomingTells ==
  ASSUME IInv, TInv, NEW n \in Nodes, NEW c, NEW msg \in PeerMessages, NEW rev3,
         ProcessIncoming(n, c, msg, rev3)
  PROVE  Tells(n)
<1>1. CASE TakeClear(n, c, msg)
  BY <1>1, ClearTells DEF TakeClear
<1>2. CASE Ignored(n, c, msg)
  BY <1>2, QuietStepsTell DEF Ignored
<1> QED BY <1>1, <1>2, AssignNewTells, AssignKnownTells, ClientTells,
           TakeUpdateTells, TakeFlagsTells, TakeDeleteTells DEF ProcessIncoming
\* What a step of one node owes is enough for the invariant, and for every node.
LEMMA TellsIsEnough ==
  ASSUME IInv, TInv, NEW n \in Nodes, Safe(n), Tells(n)
  PROVE  TInv'
<1>1. OnNodes(view) /\ OnNodes(dirty) /\ OnNodes(saved)
  BY DEF TInv
<1>2. PICK v, d, s : /\ view' = [view EXCEPT ![n] = v]
                     /\ dirty' = [dirty EXCEPT ![n] = d]
                     /\ saved' = [saved EXCEPT ![n] = s]
  BY DEF Tells, OwnHistory
<1>3. /\ OnNodes(view)' /\ OnNodes(dirty)' /\ OnNodes(saved)'
      /\ \A m \in Nodes : m # n => view'[m] = view[m] /\ dirty'[m] = dirty[m] /\ saved'[m] = saved[m]
  BY <1>1, <1>2 DEF OnNodes
<1>4. \A m \in Nodes : m # n => /\ AlwaysServer(m)' <=> AlwaysServer(m)
                                /\ heap'[m] = heap[m]
                                /\ Told(m)' <=> Told(m)
  BY <1>3 DEF Safe, Elsewhere, AlwaysServer, Told
<1>5. \A m \in Nodes : AlwaysServer(m)' => Told(m)'
  BY <1>4 DEF TInv, Safe, Tells
<1> QED BY <1>3, <1>5 DEF TInv

\* Every step keeps both invariants.
LEMMA StepTells ==
  ASSUME IInv, TInv, [Next]_storageVars
  PROVE  TInv'
<1>1. CASE Next
  <2>1. PICK n \in Nodes :
            \/ \E server : SetOutgoing(n, server)
            \/ GetPersistentEntries(n)
            \/ \E u \in Users : UserCall(n, u)
            \/ \E c \in Conns, msg \in PeerMessages, rev3 \in BOOLEAN : ProcessIncoming(n, c, msg, rev3)
            \/ \E c \in Conns : BindResumed(n, c)
            \/ \E c \in Conns : \E table, newServer, rev3 :
                  ApplyInitialAssignments(n, c, table, newServer, rev3)
            \/ \E t \in Threads : HandOver(n, t)
    BY <1>1 DEF Next
  <2>2. Safe(n)
    BY <2>1, QuietSteps, UserCallSafe, ProcessIncomingSafe, BindResumedSafe,
       ApplyInitialAssignmentsSafe
  <2>3. Tells(n)
    BY <2>1, QuietStepsTell, UserCallTells, ProcessIncomingTells, ClientTells,
       ApplyInitialAssignmentsTells
  <2> QED BY <2>2, <2>3, TellsIsEnough
<1>2. CASE UNCHANGED storageVars
  BY <1>2 DEF TInv, OnNodes, AlwaysServer, Told, storageVars
<1> QED BY <1>1, <1>2

\* At first there is nothing to tell.
LEMMA NothingToTell ==
  ASSUME Init
  PROVE  TInv
<1>1. OnNodes(view) /\ OnNodes(dirty) /\ OnNodes(saved)
  BY DEF Init, EmptyTables, OnNodes
<1>2. ASSUME NEW n \in Nodes
      PROVE  Told(n)
  <2>1. /\ heap[n] = [o \in Objs |-> FreeEntry] /\ ents[n] = [name \in Names |-> Nil]
        /\ view[n] = [name \in Names |-> Nil] /\ saved[n] = [name \in Names |-> Nil]
    BY <1>2 DEF Init, EmptyTables
  <2>2. Shown(heap[n], ents[n]) = [name \in Names |-> Nil]
    BY <2>1 DEF Shown
  <2>3. Persisted(heap[n], ents[n]) = [name \in Names |-> Nil]
    BY <2>1 DEF Persisted
  <2> QED BY <2>1, <2>2, <2>3 DEF Told
<1> QED BY <1>1, <1>2 DEF TInv

\* In every reachable state each server that was never a client has told its listeners what its table is
\* and has its persistent entries saved, or loaded, or marked as not saved.
THEOREM ToldInvariance == Spec => []TInv
<1>1. Init => TInv
  BY NothingToTell
<1>2. IInv /\ TInv /\ [Next]_storageVars => TInv'
  BY StepTells
<1> QED BY <1>1, <1>2, Invariance, PTL DEF Spec

\* A listener that follows every notification of a server knows its table: the
\* value of each entry, and that there is none of the other names.
THEOREM ViewMatchesHolds == Spec => []ViewMatches
<1>1. ASSUME TInv, NEW n \in Nodes, NEW name \in Names, AlwaysServer(n)
      PROVE  view[n][name] = IF Exists(n, name) THEN EntryOf(n, name).val ELSE Nil
  <2>1. view[n] = Shown(heap[n], ents[n])
    BY <1>1 DEF TInv, Told
  <2> QED BY <2>1 DEF Shown, Exists, EntryOf
<1>2. TInv => ViewMatches
  BY <1>1 DEF ViewMatches
<1> QED BY <1>2, ToldInvariance, PTL

\* A server never misses a change of its persistent entries: what it last gave to
\* be saved, with what a file loaded since has in its place, is what it would give
\* now, or its dirty flag is set.
THEOREM DirtyCoversChangesHolds == Spec => []DirtyCoversChanges
<1>1. TInv => DirtyCoversChanges
  <2>1. \A n \in Nodes : PersistentEntries(n) = Persisted(heap[n], ents[n])
    BY DEF PersistentEntries, Persisted, Exists, IsPersistent, EntryOf
  <2> QED BY <2>1 DEF TInv, Told, DirtyCoversChanges
<1> QED BY <1>1, ToldInvariance, PTL

-----------------------------------------------------------------------------
(* The ids of a client, which may know an id for an entry that has lost    *)
(* its name, or for one that has another id by now: what holds of every    *)
(* node is that an entry of a name is found by the id it has.              *)

NamesResolve(h, e, m) ==
    \A name \in Names : e[name] # Nil =>
        /\ h[e[name]].name = name
        /\ h[e[name]].id # Unassigned => m[h[e[name]].id] = e[name]

ResolveOK(h, e, m) ==
    /\ h \in [Objs -> Entry] /\ e \in [Names -> Objs \cup {Nil}]
    /\ m \in [Ids -> Objs \cup {Nil}]
    /\ NamesResolve(h, e, m)

\* what a reader has left to do is an assignment to an object
ReadersOK(r) == r \in [Conns -> [msg : EntryAssigns, obj : Objs] \cup {Nothing}]

Resolves(n) == ResolveOK(heap[n], ents[n], idMap[n]) /\ ReadersOK(resume[n])

RInv == \A n \in Nodes : Resolves(n)

\* No slot is taken beyond the ids that were given.
Granted(n) ==
    /\ idCount[n] \in AnyId
    /\ \A id \in Ids : idMap[n][id] # Nil => id < idCount[n]

\* So it is on a server whose indexes agree.
LEMMA AgreeingGranted ==
  ASSUME IInv, NEW n \in Nodes, AlwaysServer(n)
  PROVE  Granted(n)
<1>1. TablesOK(heap[n], ents[n], idMap[n], idCount[n])
  BY DEF IInv, NodeOK
<1>2. ASSUME NEW id \in Ids, idMap[n][id] # Nil
      PROVE  id < idCount[n]
  <2> DEFINE name == heap[n][idMap[n][id]].name
  <2>1. heap[n][idMap[n][id]].id = id /\ name \in Names /\ ents[n][name] = idMap[n][id]
    BY <1>1, <1>2 DEF TablesOK, IdsHaveNames
  <2> HIDE DEF name
  <2> QED BY <1>1, <1>2, <2>1 DEF TablesOK, NamesHaveIds
<1> QED BY <1>1, <1>2 DEF TablesOK, TablesType, Granted

\* The id a server is about to give leads nowhere yet.
LEMMA NextIsUnused ==
  ASSUME NEW n, Granted(n), NextId(n) < Unassigned
  PROVE  /\ NextId(n) \in Ids /\ idMap[n][NextId(n)] = Nil
         /\ NextId(n) = idCount[n] /\ NextId(n) + 1 \in AnyId
<1>1. NextId(n) \in Ids /\ NextId(n) + 1 \in AnyId
  BY MessagesAssumption DEF Granted, NextId, AnyId, Ids
<1> QED BY <1>1 DEF Granted, NextId, Ids

\* Different names are names of different objects.
LEMMA ResolveApart ==
  ASSUME NEW h, NEW e, NEW m, ResolveOK(h, e, m), NEW a \in Names, NEW b \in Names,
         e[a] # Nil, e[b] # Nil, a # b
  PROVE  /\ e[a] # e[b]
         /\ h[e[a]].id = h[e[b]].id => h[e[a]].id = Unassigned
BY DEF ResolveOK, NamesResolve

\* Objects may change, but not their names and ids while they are entries.
LEMMA ChangeResolves ==
  ASSUME NEW h, NEW e, NEW m, ResolveOK(h, e, m), NEW o \in Objs, NEW entry \in Entry,
         (\E name \in Names : e[name] = o) => entry.name = h[o].name /\ entry.id = h[o].id
  PROVE  ResolveOK([h EXCEPT ![o] = entry], e, m)
<1> DEFINE hh == [h EXCEPT ![o] = entry]
<1>1. /\ h \in [Objs -> Entry] /\ e \in [Names -> Objs \cup {Nil}] /\ NamesResolve(h, e, m)
      /\ m \in [Ids -> Objs \cup {Nil}]
  BY DEF ResolveOK
<1>2. /\ hh \in [Objs -> Entry]
      /\ \A name \in Names : e[name] # Nil =>
            hh[e[name]].name = h[e[name]].name /\ hh[e[name]].id = h[e[name]].id
  BY <1>1
<1> HIDE DEF hh
<1>3. NamesResolve(hh, e, m)
  BY <1>1, <1>2 DEF NamesResolve
<1> QED BY <1>1, <1>2, <1>3 DEF ResolveOK, hh

\* An object that is no other entry's becomes the entry of its name, without an id
\* or under one that leads nowhere yet.
LEMMA PutResolves ==
  ASSUME NEW h, NEW e, NEW m, ResolveOK(h, e, m), NEW o \in Objs, NEW entry \in Entry,
         NEW name \in Names, entry.name = name,
         \A other \in Names : other # name => e[other] # o,
         NEW mm,
         \/ entry.id = Unassigned /\ mm = m
         \/ entry.id \in Ids /\ m[entry.id] = Nil /\ mm = [m EXCEPT ![entry.id] = o]
  PROVE  ResolveOK([h EXCEPT ![o] = entry], [e EXCEPT ![name] = o], mm)
<1> DEFINE hh == [h EXCEPT ![o] = entry]
           ee == [e EXCEPT ![name] = o]
<1>1. /\ h \in [Objs -> Entry] /\ e \in [Names -> Objs \cup {Nil}] /\ NamesResolve(h, e, m)
      /\ m \in [Ids -> Objs \cup {Nil}]
  BY DEF ResolveOK
<1>2. /\ hh \in [Objs -> Entry] /\ hh[o] = entry
      /\ ee \in [Names -> Objs \cup {Nil}] /\ ee[name] = o
      /\ \A other \in Names : other # name => ee[other] = e[other]
      /\ \A other \in Names : other # name /\ e[other] # Nil => hh[e[other]] = h[e[other]]
  BY <1>1
<1>3. /\ mm \in [Ids -> Objs \cup {Nil}]
      /\ entry.id # Unassigned => mm[entry.id] = o
      /\ \A id \in Ids : m[id] # Nil => mm[id] = m[id]
  BY <1>1
<1> HIDE DEF hh, ee
<1>4. ASSUME NEW other \in Names, ee[other] # Nil
      PROVE  hh[ee[other]].name = other /\ (hh[ee[other]].id # Unassigned => mm[hh[ee[other]].id] = ee[other])
  <2>1. CASE other = name
    BY <1>2, <1>3, <2>1
  <2>2. CASE other # name
    <3>1. ee[other] = e[other] /\ e[other] \in Objs /\ e[other] # Nil /\ hh[e[other]] = h[e[other]]
      BY <1>1, <1>2, <1>4, <2>2
    <3>2. h[e[other]].name = other /\ (h[e[other]].id # Unassigned => m[h[e[other]].id] = e[other])
      BY <1>1, <3>1 DEF NamesResolve
    <3>3. h[e[other]].id \in AnyId
      BY <1>1, <3>1 DEF Entry
    <3>4. h[e[other]].id # Unassigned => h[e[other]].id \in Ids
      BY <3>3, MessagesAssumption DEF AnyId, Ids
    <3> QED BY <1>3, <3>1, <3>2, <3>4
  <2> QED BY <2>1, <2>2
<1>5. NamesResolve(hh, ee, mm)
  BY <1>4 DEF NamesResolve
<1> QED BY <1>2, <1>3, <1>5 DEF ResolveOK, hh, ee

\* Entries may be removed, if no id is taken from one that stays.
LEMMA RemovalResolves ==
  ASSUME NEW h, NEW e, NEW m, ResolveOK(h, e, m),
         NEW hh \in [Objs -> Entry], NEW ee \in [Names -> Objs \cup {Nil}],
         NEW mm \in [Ids -> Objs \cup {Nil}],
         \A name \in Names : ee[name] # Nil =>
            /\ ee[name] = e[name] /\ hh[e[name]] = h[e[name]]
            /\ h[e[name]].id # Unassigned => mm[h[e[name]].id] = m[h[e[name]].id]
  PROVE  ResolveOK(hh, ee, mm)
BY DEF ResolveOK, NamesResolve

\* A step of one node that leaves its readers alone.
LEMMA TablesResolve ==
  ASSUME IInv, RInv, NEW n \in Nodes, NEW h, NEW e, NEW m,
         heap' = [heap EXCEPT ![n] = h], ents' = [ents EXCEPT ![n] = e],
         idMap' = [idMap EXCEPT ![n] = m], UNCHANGED resume, ResolveOK(h, e, m)
  PROVE  Resolves(n)'
<1>1. heap'[n] = h /\ ents'[n] = e /\ idMap'[n] = m /\ resume'[n] = resume[n]
  BY DEF IInv, AllOnNodes, OnNodes
<1> QED BY <1>1 DEF Resolves, RInv

\* An entry that changes, but for its name and id.
LEMMA SetResolves ==
  ASSUME IInv, RInv, NEW n \in Nodes, NEW o \in Objs, NEW entry \in Entry,
         SetEntry(n, o, entry), UNCHANGED <<ents, idMap, resume>>,
         entry.name = heap[n][o].name, entry.id = heap[n][o].id
  PROVE  Resolves(n)'
<1> DEFINE h == [heap[n] EXCEPT ![o] = entry]
<1>1. /\ heap' = [heap EXCEPT ![n] = h] /\ ents' = [ents EXCEPT ![n] = ents[n]]
      /\ idMap' = [idMap EXCEPT ![n] = idMap[n]]
  BY DEF SetEntry, IInv, AllOnNodes, OnNodes
<1>2. ResolveOK(h, ents[n], idMap[n])
  BY ChangeResolves DEF RInv, Resolves
<1> HIDE DEF h
<1> QED BY <1>1, <1>2, TablesResolve

\* The tables of every node have the right types.
LEMMA ResolveTypes ==
  ASSUME RInv, NEW n \in Nodes
  PROVE  /\ heap[n] \in [Objs -> Entry] /\ ents[n] \in [Names -> Objs \cup {Nil}]
         /\ idMap[n] \in [Ids -> Objs \cup {Nil}] /\ Nil \notin Objs
         /\ \A name \in Names : Exists(n, name) =>
               ents[n][name] \in Objs /\ EntryOf(n, name) \in Entry /\ EntryOf(n, name).name = name
         /\ \A id : Lookup(n, id) # Nil => Lookup(n, id) \in Objs /\ id \in Ids
<1>1. ResolveOK(heap[n], ents[n], idMap[n])
  BY DEF RInv, Resolves
<1> QED BY <1>1, StorageAssumption DEF ResolveOK, NamesResolve, Exists, EntryOf, Lookup

\* A new entry: a server's has the next id, and a client's waits for one.
LEMMA NewResolves ==
  ASSUME IInv, RInv, NEW n \in Nodes, NEW o, IsNew(n, o),
         NEW entry \in Entry, entry.name \in Names, AddEntry(n, o, entry), UNCHANGED resume,
         \/ entry.id = Unassigned /\ NoNewId
         \/ entry.id \in Ids /\ idMap[n][entry.id] = Nil /\ AddId(n, o, entry.id)
  PROVE  Resolves(n)'
<1>1. o \in Objs /\ \A other \in Names : other # entry.name => ents[n][other] # o
  BY DEF IsNew, InUse, Referenced
<1>2. PICK m : /\ idMap' = [idMap EXCEPT ![n] = m]
               /\ \/ entry.id = Unassigned /\ m = idMap[n]
                  \/ entry.id \in Ids /\ idMap[n][entry.id] = Nil /\ m = [idMap[n] EXCEPT ![entry.id] = o]
  <2>1. CASE entry.id = Unassigned /\ NoNewId
    <3>1. idMap' = [idMap EXCEPT ![n] = idMap[n]]
      BY <2>1 DEF NoNewId, IInv, AllOnNodes, OnNodes
    <3> QED BY <2>1, <3>1
  <2>2. CASE entry.id \in Ids /\ idMap[n][entry.id] = Nil /\ AddId(n, o, entry.id)
    BY <2>2 DEF AddId
  <2> QED BY <2>1, <2>2
<1>3. ResolveOK([heap[n] EXCEPT ![o] = entry], [ents[n] EXCEPT ![entry.name] = o], m)
  BY <1>1, <1>2, PutResolves DEF RInv, Resolves
<1>4. /\ heap' = [heap EXCEPT ![n] = [heap[n] EXCEPT ![o] = entry]]
      /\ ents' = [ents EXCEPT ![n] = [ents[n] EXCEPT ![entry.name] = o]]
  BY DEF AddEntry, SetEntry
<1> QED BY <1>2, <1>3, <1>4, TablesResolve

\* An entry that has no id yet gets one that leads nowhere.
LEMMA GivenResolves ==
  ASSUME IInv, RInv, NEW n \in Nodes, NEW name \in Names, Exists(n, name),
         NEW entry \in Entry, entry.name = name, entry.id \in Ids, idMap[n][entry.id] = Nil,
         SetEntry(n, ents[n][name], entry), AddId(n, ents[n][name], entry.id), UNCHANGED ents
  PROVE  ResolveOK(heap[n], ents[n], idMap[n])'
<1> DEFINE o == ents[n][name]
<1>1. ResolveOK(heap[n], ents[n], idMap[n]) /\ o \in Objs /\ o # Nil
  BY ResolveTypes DEF RInv, Resolves, Exists
<1>2. ents[n] \in [Names -> Objs \cup {Nil}]
  BY ResolveTypes
<1>3. /\ heap'[n] = [heap[n] EXCEPT ![o] = entry] /\ idMap'[n] = [idMap[n] EXCEPT ![entry.id] = o]
      /\ ents'[n] = [ents[n] EXCEPT ![name] = o]
  BY <1>2 DEF SetEntry, AddId, IInv, AllOnNodes, OnNodes
<1> HIDE DEF o
<1>4. \A other \in Names : other # name => ents[n][other] # o
  <2>1. ents[n][name] = o
    BY DEF o
  <2> QED BY <1>1, <2>1, ResolveApart
<1>5. ResolveOK([heap[n] EXCEPT ![o] = entry], [ents[n] EXCEPT ![name] = o],
                [idMap[n] EXCEPT ![entry.id] = o])
  BY <1>1, <1>4, PutResolves
<1> QED BY <1>3, <1>5

\* The user makes a new entry.
LEMMA CreateResolves ==
  ASSUME IInv, RInv, NEW n \in Nodes, IsServer(n) => Granted(n),
         NEW u, NEW name \in Names, NEW value \in Values,
         NEW seq \in SeqNums, Create(n, u, name, value, seq)
  PROVE  Resolves(n)'
<1> DEFINE id == IF IsServer(n) THEN NextId(n) ELSE Unassigned
           entry == NewEntry(name, value, FALSE, id, seq)
<1>1. PICK o \in Objs : /\ IsNew(n, o) /\ AddEntry(n, o, entry)
                        /\ IF IsServer(n) THEN AddId(n, o, id) ELSE NoNewId
  BY DEF Create
<1>2. UNCHANGED resume /\ (IsServer(n) => id < Unassigned)
  BY DEF Create
<1>3. IF IsServer(n) THEN id \in Ids /\ idMap[n][id] = Nil ELSE id = Unassigned
  BY <1>2, NextIsUnused
<1>4. entry \in Entry /\ entry.name = name /\ entry.id = id
  BY <1>3, MessagesAssumption DEF NewEntry, Entry, AnyId, Ids
<1> HIDE DEF entry, id
<1> QED BY <1>1, <1>2, <1>3, <1>4, NewResolves

\* A server makes a new entry for a client.
LEMMA AssignNewResolves ==
  ASSUME IInv, RInv, NEW n \in Nodes, IsServer(n) => Granted(n),
         NEW c, NEW msg \in PeerMessages, msg.type = "EntryAssign", AssignNew(n, c, msg)
  PROVE  Resolves(n)'
<1> DEFINE id == NextId(n)
           entry == NewEntry(msg.str, msg.val, msg.flags, id, 0)
<1>1. PICK o \in Objs : IsNew(n, o) /\ AddEntry(n, o, entry) /\ AddId(n, o, id)
  BY DEF AssignNew
<1>2. UNCHANGED resume /\ id < Unassigned /\ IsServer(n)
  BY DEF AssignNew
<1>3. id \in Ids /\ idMap[n][id] = Nil
  BY <1>2, NextIsUnused
<1>4. msg.str \in Names /\ msg.val \in Values /\ msg.flags \in BOOLEAN
  BY PeerMessageFields
<1> HIDE DEF id
<1>5. entry \in Entry /\ entry.name = msg.str /\ entry.id = id
  BY <1>3, <1>4, HalfRangeAssumption, MessagesAssumption DEF NewEntry, Entry, AnyId, Ids, SeqNums
<1> HIDE DEF entry
<1> QED BY <1>1, <1>2, <1>3, <1>4, <1>5, NewResolves

\* A user's change of flags leaves the entry its name and id.
LEMMA SetEntryFlagsResolves ==
  ASSUME IInv, RInv, NEW n \in Nodes, NEW u, NEW name \in Names, NEW flags \in BOOLEAN,
         SetEntryFlags(n, u, name, flags)
  PROVE  Resolves(n)'
<1> DEFINE new == [EntryOf(n, name) EXCEPT !.flags = flags]
<1>1. Exists(n, name) /\ SetEntry(n, ents[n][name], new) /\ UNCHANGED <<ents, idMap, resume>>
  BY DEF SetEntryFlags
<1>2. ents[n][name] \in Objs /\ EntryOf(n, name) \in Entry
  BY <1>1, ResolveTypes
<1>3. new \in Entry /\ new.name = EntryOf(n, name).name /\ new.id = EntryOf(n, name).id
  BY <1>2 DEF Entry
<1> HIDE DEF new
<1> QED BY <1>1, <1>2, <1>3, SetResolves DEF EntryOf

\* A change of the value does too, or it gives the entry the id it needs.
LEMMA ValueResolves ==
  ASSUME IInv, RInv, NEW n \in Nodes, IsServer(n) => Granted(n),
         NEW name \in Names, Exists(n, name), NEW value \in Values, NEW seq \in SeqNums,
         SetEntry(n, ents[n][name],
                  [EntryOf(n, name) EXCEPT !.val = value, !.id = IdOf(n, EntryOf(n, name)), !.seq = seq]),
         GiveId(n, ents[n][name], EntryOf(n, name)), UNCHANGED <<ents, resume>>
  PROVE  Resolves(n)'
<1> DEFINE old == EntryOf(n, name)
           new == [old EXCEPT !.val = value, !.id = IdOf(n, old), !.seq = seq]
<1>1. ents[n][name] \in Objs /\ old \in Entry /\ old.name = name
  BY ResolveTypes
<1>2. CASE NeedsId(n, old)
  <2>1. /\ IsServer(n) /\ NextId(n) < Unassigned /\ IdOf(n, old) = NextId(n)
        /\ AddId(n, ents[n][name], NextId(n))
    BY <1>2 DEF NeedsId, GiveId, IdOf
  <2>2. NextId(n) \in Ids /\ idMap[n][NextId(n)] = Nil
    BY <2>1, NextIsUnused
  <2>3. new \in Entry /\ new.name = name /\ new.id = NextId(n)
    <3>1. NextId(n) \in AnyId
      BY <2>2, MessagesAssumption DEF Ids, AnyId
    <3> QED BY <1>1, <2>1, <3>1 DEF Entry
  <2>4. SetEntry(n, ents[n][name], new)
    OBVIOUS
  <2> HIDE DEF new
  <2>5. ResolveOK(heap[n], ents[n], idMap[n])'
    BY <2>1, <2>2, <2>3, <2>4, GivenResolves
  <2> QED BY <2>5 DEF RInv, Resolves
<1>3. CASE ~ NeedsId(n, old)
  <2>1. IdOf(n, old) = old.id /\ UNCHANGED idMap
    BY <1>3 DEF IdOf, GiveId, NoNewId
  <2>2. new \in Entry /\ new.name = old.name /\ new.id = old.id
    BY <1>1, <2>1 DEF Entry
  <2>3. SetEntry(n, ents[n][name], new)
    OBVIOUS
  <2> HIDE DEF new
  <2> QED BY <1>1, <2>1, <2>2, <2>3, SetResolves DEF EntryOf
<1> QED BY <1>2, <1>3

LEMMA ChangeValueResolves ==
  ASSUME IInv, RInv, NEW n \in Nodes, IsServer(n) => Granted(n),
         NEW u, NEW name \in Names, NEW value \in Values, NEW sameType,
         ChangeValue(n, u, name, value, sameType)
  PROVE  Resolves(n)'
<1> DEFINE old == EntryOf(n, name)
           seq == IF role[n] = "idle" THEN old.seq ELSE Inc(old.seq)
<1>1. /\ Exists(n, name) /\ GiveId(n, ents[n][name], old) /\ UNCHANGED <<ents, resume>>
      /\ SetEntry(n, ents[n][name], [old EXCEPT !.val = value, !.id = IdOf(n, old), !.seq = seq])
  BY DEF ChangeValue
<1>2. seq \in SeqNums
  <2>1. old.seq \in SeqNums
    BY <1>1, ResolveTypes DEF Entry
  <2> QED BY <2>1, HalfRangeAssumption DEF Inc, SeqNums
<1> HIDE DEF seq
<1> QED BY <1>1, <1>2, ValueResolves

LEMMA KeepValueResolves ==
  ASSUME IInv, RInv, NEW n \in Nodes, IsServer(n) => Granted(n),
         NEW u, NEW name \in Names, NEW value \in Values, KeepValue(n, u, name, value)
  PROVE  Resolves(n)'
<1> DEFINE old == EntryOf(n, name)
<1>1. /\ Exists(n, name) /\ GiveId(n, ents[n][name], old) /\ UNCHANGED <<ents, resume>>
      /\ SetEntry(n, ents[n][name], [old EXCEPT !.id = NextId(n)])
      /\ IdOf(n, old) = NextId(n) /\ old.val = value
  BY DEF KeepValue, IdOf
<1>2. old \in Entry
  BY <1>1, ResolveTypes
<1>3. [old EXCEPT !.id = NextId(n)] = [old EXCEPT !.val = value, !.id = IdOf(n, old), !.seq = old.seq]
  BY <1>1, <1>2 DEF Entry
<1>4. old.seq \in SeqNums
  BY <1>2 DEF Entry
<1> HIDE DEF old
<1>5. SetEntry(n, ents[n][name], [old EXCEPT !.val = value, !.id = IdOf(n, old), !.seq = old.seq])
  BY <1>1, <1>3
<1> QED BY <1>1, <1>4, <1>5, ValueResolves DEF old

\* A file that is loaded: its names have entries of their own, and the ids given
\* to some of them led nowhere.
LEMMA LoadPersistentResolves ==
  ASSUME IInv, RInv, NEW n \in Nodes, Granted(n),
         NEW u, NEW file \in Files, LoadPersistent(n, u, file)
  PROVE  Resolves(n)'
<1>1. UNCHANGED resume
  BY LoadDoes DEF IInv
<1>2. PICK place, ids, last, h, e, m :
         /\ LoadedTo(n, file, place, ids, last, h, e, m)
         /\ heap' = [heap EXCEPT ![n] = h] /\ ents' = [ents EXCEPT ![n] = e]
         /\ idMap' = [idMap EXCEPT ![n] = m]
  BY LoadDoes DEF IInv
<1>3. LoadedNames(n, file, ids, h, e) /\ \A name \in DOMAIN file : LoadedLine(n, file, ids, name)
  <2>1. NamedTables(n)
    BY DEF RInv, Resolves, ResolveOK, NamesResolve, Granted, NamedTables
  <2> QED BY <1>2, <2>1, NamesAreLoaded
<1>4. /\ last \in idCount[n] .. Unassigned
      /\ ids \in [Given(n, file) -> idCount[n] .. (last - 1)]
      /\ \A x, y \in Given(n, file) : ids[x] = ids[y] => x = y
      /\ m = [i \in Ids |-> m[i]]
      /\ \A i \in Ids :
            \/ \E name \in Given(n, file) : ids[name] = i /\ m[i] = e[name]
            \/ (\A name \in Given(n, file) : ids[name] # i) /\ m[i] = idMap[n][i]
  BY <1>2, Zenon DEF LoadedTo
<1>5. ResolveOK(heap[n], ents[n], idMap[n])
  BY DEF RInv, Resolves
<1>6. Given(n, file) \subseteq DOMAIN file
  BY DEF Given
<1>7. /\ \A name \in Given(n, file) : ids[name] \in Ids /\ idCount[n] <= ids[name]
      /\ \A i \in Ids : i < idCount[n] => m[i] = idMap[n][i]
  BY <1>4, MessagesAssumption DEF Granted, Ids, AnyId
<1>8. \A name \in Given(n, file) : m[ids[name]] = e[name]
  BY <1>4, <1>7
<1>9. m \in [Ids -> Objs \cup {Nil}]
  <2>1. \A i \in Ids : m[i] \in Objs \cup {Nil}
    BY <1>3, <1>4, <1>5, <1>6 DEF ResolveOK, LoadedNames
  <2> QED BY <1>4, <2>1
<1>10. \A id \in Ids : idMap[n][id] # Nil => m[id] = idMap[n][id]
  BY <1>7 DEF Granted
<1>11. ASSUME NEW name \in Names, ents[n][name] # Nil, heap[n][ents[n][name]].id # Unassigned
       PROVE  m[heap[n][ents[n][name]].id] = ents[n][name]
  <2>1. /\ idMap[n][heap[n][ents[n][name]].id] = ents[n][name]
        /\ heap[n][ents[n][name]] \in Entry
    BY <1>5, <1>11 DEF ResolveOK, NamesResolve
  <2>2. heap[n][ents[n][name]].id \in Ids
    BY <1>11, <2>1, MessagesAssumption DEF Entry, AnyId, Ids
  <2> QED BY <1>10, <1>11, <2>1, <2>2
<1>12. ASSUME NEW name \in Names, e[name] # Nil
       PROVE  h[e[name]].name = name /\ (h[e[name]].id # Unassigned => m[h[e[name]].id] = e[name])
  <2>1. CASE name \in Given(n, file)
    BY <1>3, <1>6, <1>8, <2>1 DEF LoadedNames, LoadedLine
  <2>2. CASE name \in DOMAIN file /\ name \notin Given(n, file)
    <3>1. /\ h[e[name]].name = name /\ h[e[name]].id = EntryOrNew(n, name).id
          /\ ents[n][name] # Nil => EntryOrNew(n, name) = heap[n][ents[n][name]]
          /\ ents[n][name] = Nil => EntryOrNew(n, name).id = Unassigned
          /\ ents[n][name] # Nil => e[name] = ents[n][name]
      BY <1>3, <2>2 DEF LoadedNames, LoadedLine
    <3> QED BY <1>11, <3>1
  <2>3. CASE name \notin DOMAIN file
    <3>1. e[name] = ents[n][name] /\ h[e[name]] = heap[n][e[name]]
      BY <1>3, <1>12, <2>3 DEF LoadedNames
    <3>2. heap[n][ents[n][name]].name = name
      BY <1>5, <1>12, <3>1 DEF ResolveOK, NamesResolve
    <3> QED BY <1>11, <1>12, <3>1, <3>2
  <2> QED BY <2>1, <2>2, <2>3
<1>13. ResolveOK(h, e, m)
  BY <1>3, <1>9, <1>12 DEF ResolveOK, NamesResolve, LoadedNames
<1> QED BY <1>1, <1>2, <1>13, TablesResolve

\* An assignment, an update or a change of flags by a known id does so too.
LEMMA KnownResolves ==
  ASSUME IInv, RInv, NEW n \in Nodes, NEW c, NEW msg \in PeerMessages,
         \/ msg.type = "EntryAssign" /\ \E rev3 : AssignKnown(n, c, msg, rev3)
         \/ msg.type = "EntryUpdate" /\ TakeUpdate(n, c, msg)
         \/ msg.type = "FlagsUpdate" /\ TakeFlags(n, c, msg)
  PROVE  Resolves(n)'
<1> DEFINE o == Lookup(n, msg.id)
           e == heap[n][o]
<1>1. o # Nil /\ UNCHANGED <<ents, idMap, resume>>
  BY DEF AssignKnown, TakeUpdate, TakeFlags
<1>2. o \in Objs /\ e \in Entry
  BY <1>1, ResolveTypes
<1>3. PICK entry \in Entry : SetEntry(n, o, entry) /\ entry.name = e.name /\ entry.id = e.id
  <2>1. CASE msg.type = "EntryAssign" /\ \E rev3 : AssignKnown(n, c, msg, rev3)
    <3>1. PICK rev3 : SetEntry(n, o, Assigned(msg, e, FALSE, rev3))
      BY <2>1 DEF AssignKnown
    <3>2. msg.val \in Values /\ msg.seq \in SeqNums /\ msg.flags \in BOOLEAN
      BY <2>1, PeerMessageFields
    <3> HIDE DEF o, e
    <3>3. TakenFlags(msg, e, FALSE, rev3) \in BOOLEAN
      BY <1>2, <3>2 DEF TakenFlags, Entry
    <3>4. /\ Assigned(msg, e, FALSE, rev3) \in Entry
          /\ Assigned(msg, e, FALSE, rev3).name = e.name /\ Assigned(msg, e, FALSE, rev3).id = e.id
      BY <1>2, <3>2, <3>3 DEF Assigned, Entry
    <3> QED BY <3>1, <3>4
  <2>2. CASE msg.type = "EntryUpdate" /\ TakeUpdate(n, c, msg)
    <3> DEFINE new == [e EXCEPT !.val = msg.val, !.seq = msg.seq]
    <3>1. SetEntry(n, o, new)
      BY <2>2 DEF TakeUpdate
    <3>2. msg.val \in Values /\ msg.seq \in SeqNums
      BY <2>2, PeerMessageFields
    <3> HIDE DEF o, e
    <3>3. new \in Entry /\ new.name = e.name /\ new.id = e.id
      BY <1>2, <3>2 DEF Entry
    <3> QED BY <3>1, <3>3
  <2>3. CASE msg.type = "FlagsUpdate" /\ TakeFlags(n, c, msg)
    <3>1. SetEntry(n, o, [e EXCEPT !.flags = msg.flags])
      BY <2>3 DEF TakeFlags
    <3>2. msg.flags \in BOOLEAN
      BY <2>3, PeerMessageFields
    <3> HIDE DEF o, e
    <3> QED BY <1>2, <3>1, <3>2 DEF Entry
  <2> QED BY <2>1, <2>2, <2>3
<1> HIDE DEF o
<1> QED BY <1>1, <1>2, <1>3, SetResolves

\* A name and an id are removed that are those of one entry, or of none.
LEMMA RemovedResolves ==
  ASSUME IInv, RInv, NEW n \in Nodes, NEW id, NEW name,
         RemoveEntry(n, id, name), UNCHANGED resume,
         \A other \in Names : Exists(n, other) /\ EntryOf(n, other).id = id
            => other = name \/ id = Unassigned
  PROVE  Resolves(n)'
<1> DEFINE e == IF name \in Names THEN [ents[n] EXCEPT ![name] = Nil] ELSE ents[n]
           m == IF id \in Ids THEN [idMap[n] EXCEPT ![id] = Nil] ELSE idMap[n]
           h == Collected(n, heap[n], e, m)
<1>1. ResolveOK(heap[n], ents[n], idMap[n])
  BY DEF RInv, Resolves
<1>2. /\ heap[n] \in [Objs -> Entry] /\ ents[n] \in [Names -> Objs \cup {Nil}]
      /\ idMap[n] \in [Ids -> Objs \cup {Nil}] /\ Nil \notin Objs
  BY ResolveTypes
<1>3. /\ heap' = [heap EXCEPT ![n] = h]
      /\ ents' = [ents EXCEPT ![n] = e] /\ idMap' = [idMap EXCEPT ![n] = m]
  BY DEF RemoveEntry
<1>4. e \in [Names -> Objs \cup {Nil}] /\ m \in [Ids -> Objs \cup {Nil}]
  BY <1>2
<1>5. /\ h \in [Objs -> Entry]
      /\ \A o \in Objs : o \in Referenced(e, m) => h[o] = heap[n][o]
  BY <1>2, FreeEntryOK DEF Collected
<1>6. ASSUME NEW other \in Names, e[other] # Nil
      PROVE  /\ e[other] = ents[n][other] /\ h[ents[n][other]] = heap[n][ents[n][other]]
             /\ heap[n][ents[n][other]].id # Unassigned =>
                   m[heap[n][ents[n][other]].id] = idMap[n][heap[n][ents[n][other]].id]
  <2>1. e[other] = ents[n][other] /\ other # name /\ ents[n][other] \in Objs
    BY <1>2, <1>6
  <2>2. h[ents[n][other]] = heap[n][ents[n][other]]
    BY <1>5, <2>1 DEF Referenced
  <2>3. heap[n][ents[n][other]].id # Unassigned => heap[n][ents[n][other]].id # id
    BY <2>1, <1>6 DEF Exists, EntryOf
  <2>4. \A x : x # id => m[x] = idMap[n][x]
    BY <1>2
  <2> QED BY <2>1, <2>2, <2>3, <2>4
<1> HIDE DEF h, e, m
<1>7. ResolveOK(h, e, m)
  BY <1>1, <1>4, <1>5, <1>6, RemovalResolves
<1> QED BY <1>3, <1>7, TablesResolve

\* The user deletes an entry by its name, and with it the id the entry has.
LEMMA DeleteEntryResolves ==
  ASSUME IInv, RInv, NEW n \in Nodes, NEW u, NEW name \in Names, DeleteEntry(n, u, name)
  PROVE  Resolves(n)'
<1>1. Exists(n, name) /\ RemoveEntry(n, EntryOf(n, name).id, name) /\ UNCHANGED resume
  BY DEF DeleteEntry
<1>2. ResolveOK(heap[n], ents[n], idMap[n])
  BY DEF RInv, Resolves
<1>3. \A other \in Names : Exists(n, other) /\ EntryOf(n, other).id = EntryOf(n, name).id
         => other = name \/ EntryOf(n, name).id = Unassigned
  BY <1>1, <1>2, ResolveApart DEF Exists, EntryOf
<1> QED BY <1>1, <1>3, RemovedResolves

\* The server deletes an entry by an id, and with it whatever has the name of the
\* object the id leads to: the entry of that id, if it is an entry's.
LEMMA TakeDeleteResolves ==
  ASSUME IInv, RInv, NEW n \in Nodes, NEW c, NEW msg, TakeDelete(n, c, msg)
  PROVE  Resolves(n)'
<1> DEFINE o == Lookup(n, msg.id)
           name == heap[n][o].name
<1>1. o # Nil /\ RemoveEntry(n, msg.id, name) /\ UNCHANGED resume
  BY DEF TakeDelete
<1>2. ResolveOK(heap[n], ents[n], idMap[n]) /\ o = idMap[n][msg.id] /\ msg.id \in Ids
  BY <1>1 DEF RInv, Resolves, Lookup
<1>3. ASSUME NEW other \in Names, Exists(n, other), EntryOf(n, other).id = msg.id
      PROVE  other = name \/ msg.id = Unassigned
  <2>1. heap[n][ents[n][other]].name = other
        /\ (msg.id # Unassigned => idMap[n][msg.id] = ents[n][other])
    BY <1>2, <1>3 DEF ResolveOK, NamesResolve, Exists, EntryOf
  <2> QED BY <1>2, <2>1
<1> HIDE DEF name
<1> QED BY <1>1, <1>3, RemovedResolves

\* What is not persistent is removed, and the ids of what is removed.
LEMMA ClearResolves ==
  ASSUME IInv, RInv, NEW n \in Nodes, DeleteAllEntriesImpl(n)
  PROVE  Resolves(n)'
<1> DEFINE gone == {name \in Names : Exists(n, name) /\ ~ IsPersistent(EntryOf(n, name))}
           ids == {EntryOf(n, name).id : name \in gone}
           e == [name \in Names |-> IF name \in gone THEN Nil ELSE ents[n][name]]
           m == [id \in Ids |-> IF id \in ids THEN Nil ELSE idMap[n][id]]
           h == Collected(n, heap[n], e, m)
<1>1. ResolveOK(heap[n], ents[n], idMap[n])
  BY DEF RInv, Resolves
<1>2. /\ heap[n] \in [Objs -> Entry] /\ ents[n] \in [Names -> Objs \cup {Nil}]
      /\ idMap[n] \in [Ids -> Objs \cup {Nil}] /\ Nil \notin Objs
  BY ResolveTypes
<1>3. /\ heap' = [heap EXCEPT ![n] = h] /\ ents' = [ents EXCEPT ![n] = e]
      /\ idMap' = [idMap EXCEPT ![n] = m] /\ UNCHANGED resume
  BY DEF DeleteAllEntriesImpl
<1>4. e \in [Names -> Objs \cup {Nil}] /\ m \in [Ids -> Objs \cup {Nil}]
  BY <1>2
<1>5. /\ h \in [Objs -> Entry]
      /\ \A o \in Objs : o \in Referenced(e, m) => h[o] = heap[n][o]
  BY <1>2, FreeEntryOK DEF Collected
<1>6. ASSUME NEW other \in Names, e[other] # Nil
      PROVE  /\ e[other] = ents[n][other] /\ h[ents[n][other]] = heap[n][ents[n][other]]
             /\ heap[n][ents[n][other]].id # Unassigned =>
                   m[heap[n][ents[n][other]].id] = idMap[n][heap[n][ents[n][other]].id]
  <2>1. e[other] = ents[n][other] /\ other \notin gone /\ ents[n][other] \in Objs
    BY <1>2, <1>6
  <2>2. h[ents[n][other]] = heap[n][ents[n][other]]
    BY <1>5, <2>1 DEF Referenced
  <2>3. ASSUME heap[n][ents[n][other]].id # Unassigned
        PROVE  heap[n][ents[n][other]].id \notin ids
    <3> SUFFICES ASSUME NEW name \in gone,
                        heap[n][ents[n][other]].id = heap[n][ents[n][name]].id
                 PROVE  FALSE
      BY DEF EntryOf
    <3>1. name \in Names /\ ents[n][name] # Nil /\ name # other /\ ents[n][other] # Nil
      BY <1>6, <2>1 DEF Exists
    <3> HIDE DEF gone, e, m, h, ids
    <3> QED BY <1>1, <2>3, <3>1, ResolveApart
  <2>4. heap[n][ents[n][other]].id \in AnyId
    BY <1>2, <2>1 DEF Entry
  <2>5. heap[n][ents[n][other]].id # Unassigned => heap[n][ents[n][other]].id \in Ids
    BY <2>4, MessagesAssumption DEF AnyId, Ids
  <2> QED BY <2>1, <2>2, <2>3, <2>5
<1> HIDE DEF h, e, m
<1>7. ResolveOK(h, e, m)
  BY <1>1, <1>4, <1>5, <1>6, RemovalResolves
<1> QED BY <1>3, <1>7, TablesResolve
\* The number is taken or not: the entry keeps its name and its id.
LEMMA AssignedEntry ==
  ASSUME NEW msg \in EntryAssigns, NEW e \in Entry
  PROVE  /\ Assigned(msg, e, TRUE, FALSE) \in Entry
         /\ Assigned(msg, e, TRUE, FALSE).name = e.name
         /\ Assigned(msg, e, TRUE, FALSE).id = e.id
<1>1. msg.val \in Values /\ msg.seq \in SeqNums
  BY DEF EntryAssigns, EntryAssign
<1>2. TakenFlags(msg, e, TRUE, FALSE) \in BOOLEAN
  BY DEF TakenFlags, Entry
<1> QED BY <1>1, <1>2 DEF Assigned, Entry

\* A message of the type of an assignment is one.
LEMMA IsAssignment ==
  ASSUME NEW msg \in PeerMessages, msg.type = "EntryAssign"
  PROVE  msg \in EntryAssigns
<1>1. \A id, seq, value : EntryUpdate(id, seq, value).type = "EntryUpdate"
  BY DEF EntryUpdate, Blank
<1>2. \A id, flags : FlagsUpdate(id, flags).type = "FlagsUpdate"
  BY DEF FlagsUpdate, Blank
<1>3. \A id : EntryDelete(id).type = "EntryDelete"
  BY DEF EntryDelete, Blank
<1>4. ClearEntries.type = "ClearEntries"
  BY DEF ClearEntries, Blank
<1> QED BY <1>1, <1>2, <1>3, <1>4 DEF PeerMessages

\* A client's new entry for a name and an id it did not know.
LEMMA AssignUnknownResolves ==
  ASSUME IInv, RInv, NEW n \in Nodes, NEW c, NEW msg \in PeerMessages,
         msg.type = "EntryAssign", AssignUnknown(n, c, msg)
  PROVE  Resolves(n)'
<1> DEFINE entry == NewEntry(msg.str, msg.val, msg.flags, msg.id, 0)
<1>1. PICK o \in Objs : IsNew(n, o) /\ AddEntry(n, o, entry) /\ AddId(n, o, msg.id)
  BY DEF AssignUnknown
<1>2. msg.id \in AnyId /\ msg.str \in Names /\ msg.val \in Values /\ msg.flags \in BOOLEAN
  BY PeerMessageFields
<1>3. msg.id \in Ids /\ idMap[n][msg.id] = Nil /\ UNCHANGED resume
  <2>1. msg.id # Unassigned /\ Lookup(n, msg.id) = Nil /\ UNCHANGED resume
    BY DEF AssignUnknown
  <2>2. msg.id \in Ids
    BY <1>2, <2>1, MessagesAssumption DEF AnyId, Ids
  <2> QED BY <2>1, <2>2 DEF Lookup
<1>4. entry \in Entry /\ entry.name = msg.str /\ entry.id = msg.id
  BY <1>2, HalfRangeAssumption DEF NewEntry, Entry, SeqNums
<1> HIDE DEF entry
<1> QED BY <1>1, <1>2, <1>3, <1>4, NewResolves

\* A client's entry gets the id of the server, whatever id it had.
LEMMA BindResolves ==
  ASSUME IInv, RInv, NEW n \in Nodes, NEW c \in Conns, NEW msg \in PeerMessages,
         msg.type = "EntryAssign", Bind(n, c, msg)
  PROVE  Resolves(n)'
<1> DEFINE name == msg.str
           o == ents[n][name]
           bound == [EntryOf(n, name) EXCEPT !.id = msg.id]
<1>1. msg \in EntryAssigns /\ msg.id \in AnyId /\ name \in Names
  BY IsAssignment, PeerMessageFields
<1>2. msg.id \in Ids /\ idMap[n][msg.id] = Nil /\ Exists(n, name) /\ UNCHANGED ents
  <2>1. msg.id # Unassigned /\ Lookup(n, msg.id) = Nil /\ Exists(n, name) /\ UNCHANGED ents
    BY DEF Bind
  <2>2. msg.id \in Ids
    BY <1>1, <2>1, MessagesAssumption DEF AnyId, Ids
  <2> QED BY <2>1, <2>2 DEF Lookup
<1>3. /\ o \in Objs /\ EntryOf(n, name) \in Entry /\ EntryOf(n, name).name = name
      /\ ents[n] \in [Names -> Objs \cup {Nil}]
  BY <1>1, <1>2, ResolveTypes
<1>4. bound \in Entry /\ bound.name = name /\ bound.id = msg.id
  BY <1>1, <1>3 DEF Entry
<1>5. PICK entry \in Entry : SetEntry(n, o, entry) /\ entry.name = name /\ entry.id = msg.id
  <2>1. SetEntry(n, o, Assigned(msg, bound, TRUE, FALSE)) \/ SetEntry(n, o, bound)
    BY DEF Bind
  <2> HIDE DEF bound, o
  <2> QED BY <1>1, <1>4, <2>1, AssignedEntry
<1>6. AddId(n, o, msg.id)
  BY DEF Bind
<1>7. ResolveOK(heap[n], ents[n], idMap[n])'
  BY <1>1, <1>2, <1>5, <1>6, GivenResolves
<1>10. ReadersOK(resume'[n])
  <2>1. ReadersOK(resume[n]) /\ resume = [m \in Nodes |-> resume[m]]
    BY DEF RInv, Resolves, IInv, AllOnNodes, OnNodes
  <2>2. CASE UNCHANGED resume
    BY <2>1, <2>2
  <2>3. CASE resume' = [resume EXCEPT ![n][c] = [msg |-> msg, obj |-> o]]
    <3>1. resume'[n] = [resume[n] EXCEPT ![c] = [msg |-> msg, obj |-> o]]
      BY <2>1, <2>3
    <3>2. [msg |-> msg, obj |-> o] \in [msg : EntryAssigns, obj : Objs]
      BY <1>1, <1>3
    <3> HIDE DEF o
    <3> QED BY <2>1, <3>1, <3>2 DEF ReadersOK
  <2> QED BY <2>2, <2>3 DEF Bind
<1> QED BY <1>7, <1>10 DEF Resolves

\* A reader takes up an assignment to an object that may be no entry's by now.
LEMMA BindResumedResolves ==
  ASSUME IInv, RInv, NEW n \in Nodes, NEW c \in Conns, BindResumed(n, c)
  PROVE  Resolves(n)'
<1> DEFINE r == resume[n][c]
           o == r.obj
           e == heap[n][o]
           new == IF o \in Referenced(ents[n], idMap[n])
                  THEN Assigned(r.msg, e, TRUE, FALSE) ELSE FreeEntry
<1>1. /\ r # Nothing /\ SetEntry(n, o, new) /\ UNCHANGED <<ents, idMap>>
      /\ resume' = [resume EXCEPT ![n][c] = Nothing]
  BY DEF BindResumed
<1>2. /\ heap[n] \in [Objs -> Entry] /\ ReadersOK(resume[n])
      /\ ResolveOK(heap[n], ents[n], idMap[n])
  BY ResolveTypes DEF RInv, Resolves
<1>3. r.msg \in EntryAssigns /\ o \in Objs
  BY <1>1, <1>2 DEF ReadersOK
<1> HIDE DEF r, o
<1>4. /\ new \in Entry
      /\ (\E name \in Names : ents[n][name] = o) => new.name = heap[n][o].name /\ new.id = heap[n][o].id
  <2>1. (\E name \in Names : ents[n][name] = o) => o \in Referenced(ents[n], idMap[n])
    BY DEF Referenced
  <2>2. e \in Entry
    BY <1>2, <1>3
  <2> QED BY <1>3, <2>1, <2>2, AssignedEntry, FreeEntryOK
<1> HIDE DEF new
<1>5. ResolveOK([heap[n] EXCEPT ![o] = new], ents[n], idMap[n])
  BY <1>2, <1>3, <1>4, ChangeResolves
<1>6. /\ heap'[n] = [heap[n] EXCEPT ![o] = new] /\ ents'[n] = ents[n] /\ idMap'[n] = idMap[n]
      /\ resume'[n] = [resume[n] EXCEPT ![c] = Nothing]
  BY <1>1 DEF SetEntry, IInv, AllOnNodes, OnNodes
<1>7. ReadersOK(resume'[n])
  BY <1>2, <1>6 DEF ReadersOK
<1> QED BY <1>5, <1>6, <1>7 DEF Resolves
\* A server's table, as it is presented to a client, gives each name an id.
LEMMA PresentationFields ==
  ASSUME NEW table \in Presentations
  PROVE  /\ DOMAIN table \subseteq Names
         /\ \A name \in DOMAIN table :
               /\ table[name].id \in Ids /\ table[name].seq \in SeqNums
               /\ table[name].val \in Values /\ table[name].flags \in BOOLEAN
         /\ \A a, b \in DOMAIN table : table[a].id = table[b].id => a = b
<1> DEFINE columns == [id : Ids, seq : SeqNums, val : Values, flags : BOOLEAN]
           present(p) == [name \in DOMAIN p |->
                             EntryAssign(name, p[name].id, p[name].seq, p[name].val, p[name].flags)]
           distinct(p) == \A x, y \in DOMAIN p : p[x].id = p[y].id => x = y
<1>1. PICK p \in UNION {[known -> columns] : known \in SUBSET Names} :
          distinct(p) /\ table = present(p)
  BY Zenon DEF Presentations
<1>2. PICK known \in SUBSET Names : p \in [known -> columns]
  BY <1>1
<1>3. DOMAIN table = known
  BY <1>1, <1>2
<1>4. \A name \in known : /\ table[name].id = p[name].id /\ table[name].seq = p[name].seq
                          /\ table[name].val = p[name].val /\ table[name].flags = p[name].flags
  BY <1>1, <1>2 DEF EntryAssign
<1>5. \A name \in known : p[name] \in columns
  BY <1>2
<1>6. \A a, b \in known : p[a].id = p[b].id => a = b
  BY <1>1, <1>2
<1> QED BY <1>2, <1>3, <1>4, <1>5, <1>6

\* A client that takes over a server's table has all its entries under the ids of
\* the server, and its own under none.
LEMMA ApplyInitialAssignmentsResolves ==
  ASSUME IInv, RInv, NEW n \in Nodes, NEW c, NEW table \in Presentations,
         NEW newServer \in BOOLEAN, NEW rev3 \in BOOLEAN,
         ApplyInitialAssignments(n, c, table, newServer, rev3)
  PROVE  Resolves(n)'
<1> DEFINE named == DOMAIN table
           new == named \ KnownNames(n)
           present == named \cup KnownNames(n)
           unused == Objs \ {ents[n][name] : name \in Names}
           places == Injection(new, unused)
           kept == {name \in named \ new :
                       ~ newServer /\ NotNewer(table[name].seq, EntryOf(n, name).seq)}
           after(name) ==
               LET e == EntryOf(n, name) IN
               CASE name \notin named -> WithoutId(e)
                 [] name \in new ->
                       NewEntry(name, table[name].val, table[name].flags, table[name].id, table[name].seq)
                 [] name \in kept -> [e EXCEPT !.id = table[name].id]
                 [] OTHER -> [e EXCEPT !.val = table[name].val, !.seq = table[name].seq,
                                       !.id = table[name].id,
                                       !.flags = IF rev3 THEN table[name].flags ELSE @]
           p == CHOOSE q \in places : TRUE
           taken == [name \in Names |-> IF name \in new THEN p[name] ELSE ents[n][name]]
           h == [o \in Objs |->
                    LET owner == {name \in present : ents'[n][name] = o}
                    IN IF owner = {} THEN FreeEntry ELSE after(CHOOSE name \in owner : TRUE)]
           m == [id \in Ids |->
                    LET owner == {name \in named : table[name].id = id}
                    IN IF owner = {} THEN Nil ELSE ents'[n][CHOOSE name \in owner : TRUE]]
<1>1. places # {} /\ ents' = [ents EXCEPT ![n] = taken] /\ UNCHANGED resume
  BY Zenon DEF ApplyInitialAssignments
<1>2. heap' = [heap EXCEPT ![n] = h]
  BY Zenon DEF ApplyInitialAssignments
<1>3. idMap' = [idMap EXCEPT ![n] = m]
  BY Zenon DEF ApplyInitialAssignments
<1>4. /\ heap'[n] = h /\ ents'[n] = taken /\ idMap'[n] = m
  BY <1>1, <1>2, <1>3 DEF IInv, AllOnNodes, OnNodes
<1>5. /\ ents[n] \in [Names -> Objs \cup {Nil}] /\ Nil \notin Objs
      /\ \A name \in KnownNames(n) :
            /\ name \in Names /\ ents[n][name] \in Objs
            /\ EntryOf(n, name) \in Entry /\ EntryOf(n, name).name = name
      /\ \A name \in Names : name \notin KnownNames(n) => ents[n][name] = Nil
  BY ResolveTypes DEF KnownNames, Exists
<1>6. /\ named \subseteq Names
      /\ \A name \in named : /\ table[name].id \in Ids /\ table[name].seq \in SeqNums
                             /\ table[name].val \in Values /\ table[name].flags \in BOOLEAN
      /\ \A a, b \in named : table[a].id = table[b].id => a = b
  BY PresentationFields
<1>7. /\ p \in [new -> unused] /\ \A a, b \in new : p[a] = p[b] => a = b
  <2>1. p \in Injection(new, unused)
    BY <1>1
  <2> HIDE DEF p, new, unused
  <2> QED BY <2>1 DEF Injection, IsInjective
<1> DEFINE e == ents'[n]
<1> HIDE DEF p
<1>8. /\ e \in [Names -> Objs \cup {Nil}]
      /\ \A name \in new : e[name] = p[name] /\ p[name] \in unused
      /\ \A name \in Names : name \notin new => e[name] = ents[n][name]
  <2>1. new \subseteq Names
    BY <1>6
  <2>2. e = [name \in Names |-> IF name \in new THEN p[name] ELSE ents[n][name]]
    BY <1>4
  <2> HIDE DEF e, new
  <2> QED BY <1>5, <1>7, <2>1, <2>2
<1>9. /\ \A name \in present : name \in Names /\ e[name] \in Objs
      /\ \A name \in Names : e[name] # Nil => name \in present
  BY <1>5, <1>6, <1>8
<1>10. \A a, b \in present : e[a] = e[b] => a = b
  <2> SUFFICES ASSUME NEW a \in present, NEW b \in present, e[a] = e[b]
               PROVE  a = b
    OBVIOUS
  <2>1. CASE a \in new /\ b \in new
    BY <1>7, <1>8, <2>1
  <2>2. CASE a \in new /\ b \notin new
    BY <1>5, <1>8, <1>9, <2>2
  <2>3. CASE a \notin new /\ b \in new
    BY <1>5, <1>8, <1>9, <2>3
  <2>4. CASE a \notin new /\ b \notin new
    <3>1. a \in KnownNames(n) /\ b \in KnownNames(n)
      BY <2>4
    <3>2. heap[n][ents[n][a]].name = a /\ heap[n][ents[n][b]].name = b
      BY <1>5, <3>1 DEF EntryOf
    <3> QED BY <1>5, <1>8, <2>4, <3>1, <3>2
  <2> QED BY <2>1, <2>2, <2>3, <2>4
<1>11. ASSUME NEW name \in present
       PROVE  /\ after(name) \in Entry /\ after(name).name = name
              /\ after(name).id = IF name \in named THEN table[name].id ELSE Unassigned
  <2>1. Unassigned \in AnyId /\ \A id \in Ids : id \in AnyId
    BY MessagesAssumption DEF AnyId, Ids
  <2>2. CASE name \notin named
    <3>1. EntryOf(n, name) \in Entry /\ EntryOf(n, name).name = name
      BY <1>5, <2>2
    <3>2. after(name) = [EntryOf(n, name) EXCEPT !.id = Unassigned]
      BY <2>2 DEF WithoutId
    <3> HIDE DEF after
    <3> QED BY <2>1, <2>2, <3>1, <3>2 DEF Entry
  <2>3. CASE name \in new
    <3>1. after(name) = NewEntry(name, table[name].val, table[name].flags, table[name].id, table[name].seq)
      BY <2>3
    <3>2. name \in named /\ name \in Names
      BY <1>6, <2>3
    <3> HIDE DEF after, named
    <3> QED BY <1>6, <2>1, <3>1, <3>2 DEF NewEntry, Entry
  <2>4. CASE name \in named /\ name \notin new
    <3>1. EntryOf(n, name) \in Entry /\ EntryOf(n, name).name = name
      BY <1>5, <2>4
    <3>2. \/ after(name) = [EntryOf(n, name) EXCEPT !.id = table[name].id]
          \/ after(name) = [EntryOf(n, name) EXCEPT !.val = table[name].val, !.seq = table[name].seq,
                                 !.id = table[name].id,
                                 !.flags = IF rev3 THEN table[name].flags ELSE @]
      BY <2>4
    <3> HIDE DEF after, named
    <3> QED BY <1>6, <2>1, <2>4, <3>1, <3>2 DEF Entry
  <2> QED BY <2>2, <2>3, <2>4
<1> HIDE DEF after, named
<1>12. h \in [Objs -> Entry] /\ \A name \in present : h[e[name]] = after(name)
  <2>1. ASSUME NEW o \in Objs, NEW name \in present, e[name] = o
        PROVE  h[o] = after(name)
    <3>1. {other \in present : e[other] = o} = {name}
      BY <1>10, <2>1
    <3>2. (CHOOSE other \in {name} : TRUE) = name
      OBVIOUS
    <3> HIDE DEF present
    <3> QED BY <3>1, <3>2
  <2>2. ASSUME NEW o \in Objs, ~ \E name \in present : e[name] = o
        PROVE  h[o] = FreeEntry
    <3>1. {other \in present : e[other] = o} = {}
      BY <2>2
    <3> HIDE DEF present
    <3> QED BY <3>1
  <2>3. h = [o \in Objs |-> h[o]]
    OBVIOUS
  <2> HIDE DEF h, present
  <2>4. \A o \in Objs : h[o] \in Entry
    BY <1>11, <2>1, <2>2, FreeEntryOK
  <2>5. h \in [Objs -> Entry]
    BY <2>3, <2>4
  <2> QED BY <1>9, <2>1, <2>5
<1>13. m \in [Ids -> Objs \cup {Nil}] /\ \A name \in named : m[table[name].id] = e[name]
  <2>1. ASSUME NEW name \in named
        PROVE  m[table[name].id] = e[name]
    <3>1. table[name].id \in Ids
      BY <1>6
    <3>2. {other \in named : table[other].id = table[name].id} = {name}
      BY <1>6
    <3>3. (CHOOSE other \in {name} : TRUE) = name
      OBVIOUS
    <3> QED BY <3>1, <3>2, <3>3
  <2>2. ASSUME NEW id \in Ids
        PROVE  m[id] \in Objs \cup {Nil}
    <3>1. CASE {other \in named : table[other].id = id} = {}
      BY <3>1
    <3>2. CASE \E name \in named : table[name].id = id
      BY <1>9, <2>1, <3>2
    <3> QED BY <3>1, <3>2
  <2>3. m = [id \in Ids |-> m[id]]
    OBVIOUS
  <2> HIDE DEF m
  <2> QED BY <2>1, <2>2, <2>3
<1> HIDE DEF h, m, e, present
<1>14. NamesResolve(h, e, m)
  <2> SUFFICES ASSUME NEW name \in Names, e[name] # Nil
               PROVE  h[e[name]].name = name /\ (h[e[name]].id # Unassigned => m[h[e[name]].id] = e[name])
    BY DEF NamesResolve
  <2>1. name \in present
    BY <1>9
  <2> QED BY <1>11, <1>12, <1>13, <2>1
<1>15. ResolveOK(h, e, m)
  BY <1>8, <1>12, <1>13, <1>14 DEF ResolveOK
<1> QED BY <1>1, <1>4, <1>15 DEF Resolves, RInv, e

\* The steps that leave the tables alone.
LEMMA QuietStepsResolve ==
  ASSUME IInv, RInv, NEW n \in Nodes,
         \/ \E server : SetOutgoing(n, server)
         \/ GetPersistentEntries(n)
         \/ \E t : HandOver(n, t)
         \/ UNCHANGED storageVars
  PROVE  Resolves(n)'
<1>1. UNCHANGED <<heap, ents, idMap, resume>>
  BY DEF SetOutgoing, GetPersistentEntries, HandOver, storageVars
<1> QED BY <1>1 DEF RInv, Resolves

\* Whatever a user calls leaves every entry under its id.
LEMMA TableCallResolves ==
  ASSUME IInv, RInv, NEW n \in Nodes, IsServer(n) => Granted(n), NEW u, TableCall(n, u)
  PROVE  Resolves(n)'
<1>1. ASSUME NEW name \in Names, NEW value \in Values,
             SetEntryValue(n, u, name, value) \/ SetEntryTypeValue(n, u, name, value)
      PROVE  Resolves(n)'
  <2>1. 0 \in SeqNums /\ 1 \in SeqNums
    BY HalfRangeAssumption DEF SeqNums
  <2>2. \/ \E seq \in {0, 1} : Create(n, u, name, value, seq)
        \/ \E sameType : ChangeValue(n, u, name, value, sameType)
        \/ KeepValue(n, u, name, value)
    BY <1>1 DEF SetEntryValue, SetEntryTypeValue
  <2> QED BY <2>1, <2>2, CreateResolves, ChangeValueResolves, KeepValueResolves
<1>2. ASSUME DeleteAllEntries(n, u)
      PROVE  Resolves(n)'
  BY <1>2, ClearResolves DEF DeleteAllEntries
<1> QED BY <1>1, <1>2, SetEntryFlagsResolves, DeleteEntryResolves DEF TableCall

LEMMA UserCallResolves ==
  ASSUME IInv, RInv, NEW n \in Nodes, Granted(n), NEW u, UserCall(n, u)
  PROVE  Resolves(n)'
BY TableCallResolves, LoadPersistentResolves DEF UserCall

\* And so does whatever message of a peer a reader processes.
LEMMA ProcessIncomingResolves ==
  ASSUME IInv, RInv, NEW n \in Nodes, IsServer(n) => Granted(n),
         NEW c \in Conns, NEW msg \in PeerMessages, NEW rev3, ProcessIncoming(n, c, msg, rev3)
  PROVE  Resolves(n)'
<1>1. CASE TakeClear(n, c, msg)
  BY <1>1, ClearResolves DEF TakeClear
<1>2. CASE Ignored(n, c, msg)
  BY <1>2, QuietStepsResolve DEF Ignored
<1> QED BY <1>1, <1>2, AssignNewResolves, KnownResolves, AssignUnknownResolves, BindResolves,
           TakeDeleteResolves DEF ProcessIncoming

-----------------------------------------------------------------------------
(* What no node ever does to its ids, and no server to its numbers.        *)

\* an object nothing refers to is free
Collects(n) == \A o \in Objs \ InUse(n) : heap[n][o].name = Nil

GInv == \A n \in Nodes : Granted(n) /\ Collects(n)

\* from h to hh, no object that stays an entry's gets an older number
SeqsForward(h, hh) ==
    \A o \in Objs : h[o].name # Nil /\ hh[o].name # Nil => ~ Older(hh[o].seq, h[o].seq)

\* What a step of node n owes.
Grants(n) ==
    /\ Granted(n)' /\ Collects(n)'
    /\ IsServer(n) => /\ Kept(idMap[n], idCount[n], idMap'[n], idCount'[n])
                      /\ SeqsForward(heap[n], heap'[n])

\* A step that changes one object: it may become the entry of a name or of an id
\* that had none, and stays in use unless it is freed.
Touches(n, o, entry) ==
    /\ o \in Objs /\ heap'[n] = [heap[n] EXCEPT ![o] = entry]
    /\ \A name \in Names : \/ ents'[n][name] = ents[n][name]
                           \/ ents[n][name] = Nil /\ ents'[n][name] = o
    /\ \A id \in Ids : \/ idMap'[n][id] = idMap[n][id]
                       \/ /\ idMap[n][id] = Nil /\ idMap'[n][id] = o /\ id < idCount'[n]
                          /\ IsServer(n) => id = idCount[n]
    /\ idCount'[n] \in AnyId /\ idCount'[n] >= idCount[n]
    /\ \A c \in Conns : resume'[n][c].obj = resume[n][c].obj \/ resume[n][c].obj \in {o, Nil}
    /\ entry.name # Nil => o \in InUse(n)'
    /\ IsServer(n) /\ heap[n][o].name # Nil /\ entry.name # Nil => ~ Older(entry.seq, heap[n][o].seq)

LEMMA TouchGrants ==
  ASSUME RInv, GInv, NEW n \in Nodes, NEW o, NEW entry, Touches(n, o, entry)
  PROVE  Grants(n)
<1>1. /\ heap[n] \in [Objs -> Entry] /\ Nil \notin Objs /\ Granted(n) /\ Collects(n)
  BY ResolveTypes DEF GInv
<1>2. \A p \in Objs : heap'[n][p] = IF p = o THEN entry ELSE heap[n][p]
  BY <1>1 DEF Touches
<1>3. Granted(n)'
  <2>1. \A id \in Ids : idMap'[n][id] # Nil => id < idCount'[n]
    BY <1>1, MessagesAssumption DEF Touches, Granted, Ids, AnyId
  <2> QED BY <2>1 DEF Touches, Granted
<1>4. ASSUME NEW p \in Objs, p \notin InUse(n)', p # o
      PROVE  p \notin InUse(n)
  <2>1. ASSUME NEW name \in Names, ents[n][name] = p
        PROVE  FALSE
    <3>1. ents'[n][name] = p
      BY <1>1, <2>1 DEF Touches
    <3> QED BY <1>4, <3>1 DEF InUse, Referenced
  <2>2. ASSUME NEW id \in Ids, idMap[n][id] = p
        PROVE  FALSE
    <3>1. idMap'[n][id] = p
      BY <1>1, <2>2 DEF Touches
    <3> QED BY <1>4, <3>1 DEF InUse, Referenced
  <2>3. ASSUME NEW c \in Conns, resume[n][c].obj = p
        PROVE  FALSE
    <3>1. resume'[n][c].obj = p
      BY <1>1, <1>4, <2>3 DEF Touches
    <3> QED BY <1>4, <3>1 DEF InUse
  <2> QED BY <2>1, <2>2, <2>3 DEF InUse, Referenced
<1>5. Collects(n)'
  <2> SUFFICES ASSUME NEW p \in Objs, p \notin InUse(n)'
               PROVE  heap'[n][p].name = Nil
    BY DEF Collects
  <2>1. CASE p = o
    BY <1>2, <2>1 DEF Touches
  <2>2. CASE p # o
    BY <1>1, <1>2, <1>4, <2>2 DEF Collects
  <2> QED BY <2>1, <2>2
<1>6. ASSUME IsServer(n)
      PROVE  Kept(idMap[n], idCount[n], idMap'[n], idCount'[n])
  BY <1>1, <1>6, MessagesAssumption DEF Touches, Granted, Kept, Ids, AnyId
<1>7. ASSUME IsServer(n)
      PROVE  SeqsForward(heap[n], heap'[n])
  <2> SUFFICES ASSUME NEW p \in Objs, heap[n][p].name # Nil, heap'[n][p].name # Nil
               PROVE  ~ Older(heap'[n][p].seq, heap[n][p].seq)
    BY DEF SeqsForward
  <2>1. CASE p = o
    BY <1>2, <1>7, <2>1 DEF Touches
  <2>2. CASE p # o
    BY <1>1, <1>2, <2>2, NotOlder DEF Entry
  <2> QED BY <2>1, <2>2
<1> QED BY <1>3, <1>5, <1>6, <1>7 DEF Grants

\* An entry changes, and keeps its id.
LEMMA SetGrants ==
  ASSUME IInv, RInv, GInv, NEW n \in Nodes, NEW o \in Objs, NEW entry, SetEntry(n, o, entry),
         UNCHANGED <<ents, idMap, idCount, resume>>, o \in InUse(n),
         IsServer(n) /\ heap[n][o].name # Nil /\ entry.name # Nil => ~ Older(entry.seq, heap[n][o].seq)
  PROVE  Grants(n)
<1>1. heap'[n] = [heap[n] EXCEPT ![o] = entry]
  BY DEF SetEntry, IInv, AllOnNodes, OnNodes
<1>2. o \in InUse(n)'
  BY DEF InUse, Referenced
<1>3. idCount[n] \in AnyId /\ idCount[n] >= idCount[n]
  BY MessagesAssumption DEF GInv, Granted, AnyId
<1>4. Touches(n, o, entry)
  BY <1>1, <1>2, <1>3 DEF Touches
<1> QED BY <1>4, TouchGrants

\* What AddId does to a node whose slots are taken below the count only.
LEMMA AddedId ==
  ASSUME IInv, NEW n \in Nodes, Granted(n), NEW o, NEW id \in Ids, idMap[n][id] = Nil,
         IsServer(n) => id = idCount[n], AddId(n, o, id)
  PROVE  /\ \A i \in Ids : \/ idMap'[n][i] = idMap[n][i]
                           \/ /\ idMap[n][i] = Nil /\ idMap'[n][i] = o /\ i < idCount'[n]
                              /\ IsServer(n) => i = idCount[n]
         /\ idCount'[n] \in AnyId /\ idCount'[n] >= idCount[n]
<1>1. idCount'[n] = IF id < idCount[n] THEN idCount[n] ELSE id + 1
  BY DEF AddId, IInv, AllOnNodes, OnNodes
<1>2. \A i \in Ids : i = id \/ idMap'[n][i] = idMap[n][i]
  BY DEF AddId, IInv, AllOnNodes, OnNodes
<1>3. idMap'[n][id] = o \/ idMap'[n][id] = idMap[n][id]
  BY DEF AddId, IInv, AllOnNodes, OnNodes
<1>4. idCount'[n] \in AnyId /\ idCount'[n] >= idCount[n] /\ id < idCount'[n]
  BY <1>1, MessagesAssumption DEF Granted, Ids, AnyId
<1> QED BY <1>2, <1>3, <1>4

\* A new entry, with or without an id.
LEMMA NewGrants ==
  ASSUME IInv, RInv, GInv, NEW n \in Nodes, NEW o, IsNew(n, o), NEW entry, entry.name \in Names,
         ~ Exists(n, entry.name), AddEntry(n, o, entry), UNCHANGED resume,
         \/ NoNewId
         \/ \E id \in Ids : idMap[n][id] = Nil /\ (IsServer(n) => id = idCount[n]) /\ AddId(n, o, id)
  PROVE  Grants(n)
<1>1. /\ ents[n] \in [Names -> Objs \cup {Nil}] /\ o \in Objs /\ o \notin InUse(n)
      /\ ents[n][entry.name] = Nil /\ Granted(n) /\ Collects(n)
  BY ResolveTypes DEF IsNew, Exists, GInv
<1>2. heap'[n] = [heap[n] EXCEPT ![o] = entry] /\ ents'[n] = [ents[n] EXCEPT ![entry.name] = o]
  BY DEF AddEntry, SetEntry, IInv, AllOnNodes, OnNodes
<1>3. /\ \A i \in Ids : \/ idMap'[n][i] = idMap[n][i]
                        \/ /\ idMap[n][i] = Nil /\ idMap'[n][i] = o /\ i < idCount'[n]
                           /\ IsServer(n) => i = idCount[n]
      /\ idCount'[n] \in AnyId /\ idCount'[n] >= idCount[n]
  <2>1. CASE NoNewId
    BY <1>1, <2>1, MessagesAssumption DEF NoNewId, Granted, AnyId
  <2>2. CASE \E id \in Ids : idMap[n][id] = Nil /\ (IsServer(n) => id = idCount[n]) /\ AddId(n, o, id)
    BY <1>1, <2>2, AddedId
  <2> QED BY <2>1, <2>2
<1>4. ents'[n][entry.name] = o /\ \A name \in Names : name # entry.name => ents'[n][name] = ents[n][name]
  BY <1>1, <1>2
<1>5. o \in InUse(n)'
  BY <1>4 DEF InUse, Referenced
<1>6. heap[n][o].name = Nil
  BY <1>1 DEF Collects
<1>7. Touches(n, o, entry)
  BY <1>1, <1>2, <1>3, <1>4, <1>5, <1>6 DEF Touches
<1> QED BY <1>7, TouchGrants

\* An entry gets an id.
LEMMA GivenGrants ==
  ASSUME IInv, RInv, GInv, NEW n \in Nodes, NEW name \in Names, Exists(n, name), NEW entry,
         SetEntry(n, ents[n][name], entry), UNCHANGED ents,
         NEW id \in Ids, idMap[n][id] = Nil, IsServer(n) => id = idCount[n],
         AddId(n, ents[n][name], id),
         \A c \in Conns : resume'[n][c].obj = resume[n][c].obj \/ resume[n][c].obj = Nil,
         IsServer(n) => ~ Older(entry.seq, EntryOf(n, name).seq)
  PROVE  Grants(n)
<1> DEFINE o == ents[n][name]
<1>1. o \in Objs /\ Granted(n)
  BY ResolveTypes DEF GInv
<1>2. heap'[n] = [heap[n] EXCEPT ![o] = entry]
  BY DEF SetEntry, IInv, AllOnNodes, OnNodes
<1>3. /\ \A i \in Ids : \/ idMap'[n][i] = idMap[n][i]
                        \/ /\ idMap[n][i] = Nil /\ idMap'[n][i] = o /\ i < idCount'[n]
                           /\ IsServer(n) => i = idCount[n]
      /\ idCount'[n] \in AnyId /\ idCount'[n] >= idCount[n]
  BY <1>1, AddedId
<1>4. ents'[n][name] = o
  OBVIOUS
<1>5. o \in InUse(n)'
  BY <1>4 DEF InUse, Referenced
<1>6. EntryOf(n, name) = heap[n][o]
  BY DEF EntryOf
<1>7. \A other \in Names : ents'[n][other] = ents[n][other]
  OBVIOUS
<1> HIDE DEF o
<1>8. Touches(n, o, entry)
  BY <1>1, <1>2, <1>3, <1>5, <1>6, <1>7 DEF Touches
<1> QED BY <1>8, TouchGrants

\* Slots and names are emptied, and what nothing refers to any more is freed.
LEMMA RemovedGrants ==
  ASSUME IInv, RInv, GInv, NEW n \in Nodes, NEW e, NEW m,
         heap' = [heap EXCEPT ![n] = Collected(n, heap[n], e, m)],
         ents' = [ents EXCEPT ![n] = e], idMap' = [idMap EXCEPT ![n] = m], UNCHANGED <<idCount, resume>>,
         \A id \in Ids : m[id] \in {Nil, idMap[n][id]}
  PROVE  Grants(n)
<1>1. /\ heap'[n] = Collected(n, heap[n], e, m) /\ ents'[n] = e /\ idMap'[n] = m
      /\ heap[n] \in [Objs -> Entry] /\ Granted(n)
  BY ResolveTypes DEF IInv, AllOnNodes, OnNodes, GInv
<1>2. \A o \in Objs : heap'[n][o] = IF o \in InUse(n)' THEN heap[n][o] ELSE FreeEntry
  BY <1>1 DEF Collected, InUse
<1>3. Granted(n)' /\ Kept(idMap[n], idCount[n], idMap'[n], idCount'[n])
  BY <1>1, MessagesAssumption DEF Granted, Kept, AnyId
<1>4. Collects(n)'
  BY <1>2 DEF Collects, FreeEntry
<1>5. SeqsForward(heap[n], heap'[n])
  BY <1>1, <1>2, NotOlder DEF SeqsForward, FreeEntry, Entry
<1> QED BY <1>3, <1>4, <1>5 DEF Grants

\* The steps that leave the tables alone.
LEMMA QuietGrants ==
  ASSUME RInv, GInv, NEW n \in Nodes, UNCHANGED <<heap, ents, idMap, idCount, resume>>
  PROVE  Grants(n)
<1>1. heap[n] \in [Objs -> Entry] /\ Granted(n) /\ Collects(n)
  BY ResolveTypes DEF GInv
<1>2. Granted(n)' /\ Collects(n)'
  BY <1>1 DEF Granted, Collects, InUse, Referenced
<1>3. Kept(idMap[n], idCount[n], idMap'[n], idCount'[n]) /\ SeqsForward(heap[n], heap'[n])
  BY <1>1, NotOlder, MessagesAssumption DEF Kept, Granted, AnyId, SeqsForward, Entry
<1> QED BY <1>2, <1>3 DEF Grants

\* The user makes a new entry.
LEMMA CreateGrants ==
  ASSUME IInv, RInv, GInv, NEW n \in Nodes, NEW u, NEW name \in Names, NEW value, NEW seq,
         Create(n, u, name, value, seq)
  PROVE  Grants(n)
<1> DEFINE id == IF IsServer(n) THEN NextId(n) ELSE Unassigned
           entry == NewEntry(name, value, FALSE, id, seq)
<1>1. PICK o \in Objs : /\ IsNew(n, o) /\ AddEntry(n, o, entry)
                        /\ IF IsServer(n) THEN AddId(n, o, id) ELSE NoNewId
  BY DEF Create
<1>2. UNCHANGED resume /\ (IsServer(n) => id < Unassigned) /\ ~ Exists(n, name)
  BY DEF Create
<1>3. Granted(n)
  BY DEF GInv
<1>4. IsServer(n) => id \in Ids /\ idMap[n][id] = Nil /\ id = idCount[n]
  BY <1>2, <1>3, NextIsUnused
<1>5. entry.name = name
  BY DEF NewEntry
<1> HIDE DEF entry, id
<1> QED BY <1>1, <1>2, <1>4, <1>5, NewGrants

\* A server makes a new entry for a client.
LEMMA AssignNewGrants ==
  ASSUME IInv, RInv, GInv, NEW n \in Nodes, NEW c, NEW msg \in PeerMessages,
         msg.type = "EntryAssign", AssignNew(n, c, msg)
  PROVE  Grants(n)
<1> DEFINE id == NextId(n)
           entry == NewEntry(msg.str, msg.val, msg.flags, id, 0)
<1>1. PICK o \in Objs : IsNew(n, o) /\ AddEntry(n, o, entry) /\ AddId(n, o, id)
  BY DEF AssignNew
<1>2. UNCHANGED resume /\ id < Unassigned /\ ~ Exists(n, msg.str)
  BY DEF AssignNew
<1>3. Granted(n)
  BY DEF GInv
<1>4. id \in Ids /\ idMap[n][id] = Nil /\ id = idCount[n]
  BY <1>2, <1>3, NextIsUnused
<1>5. entry.name = msg.str /\ msg.str \in Names
  BY PeerMessageFields DEF NewEntry
<1> HIDE DEF entry, id
<1> QED BY <1>1, <1>2, <1>4, <1>5, NewGrants

\* A client's new entry has the id its server gave.
LEMMA AssignUnknownGrants ==
  ASSUME IInv, RInv, GInv, NEW n \in Nodes, NEW c, NEW msg \in PeerMessages,
         msg.type = "EntryAssign", AssignUnknown(n, c, msg)
  PROVE  Grants(n)
<1> DEFINE entry == NewEntry(msg.str, msg.val, msg.flags, msg.id, 0)
<1>1. PICK o \in Objs : IsNew(n, o) /\ AddEntry(n, o, entry) /\ AddId(n, o, msg.id)
  BY DEF AssignUnknown
<1>2. /\ msg.id # Unassigned /\ Lookup(n, msg.id) = Nil /\ UNCHANGED resume
      /\ ~ Exists(n, msg.str) /\ ~ IsServer(n)
  BY DEF AssignUnknown
<1>3. msg.id \in AnyId /\ msg.str \in Names
  BY PeerMessageFields
<1>4. msg.id \in Ids /\ idMap[n][msg.id] = Nil
  BY <1>2, <1>3, MessagesAssumption DEF AnyId, Ids, Lookup
<1>5. entry.name = msg.str
  BY DEF NewEntry
<1> HIDE DEF entry
<1> QED BY <1>1, <1>2, <1>3, <1>4, <1>5, NewGrants

\* A value changes, or an entry gets the id it needs.
LEMMA ValueGrants ==
  ASSUME IInv, RInv, GInv, NEW n \in Nodes, NEW name \in Names, Exists(n, name), NEW entry,
         SetEntry(n, ents[n][name], entry), GiveId(n, ents[n][name], EntryOf(n, name)),
         entry.seq \in {EntryOf(n, name).seq, Inc(EntryOf(n, name).seq)},
         UNCHANGED <<ents, resume>>
  PROVE  Grants(n)
<1> DEFINE old == EntryOf(n, name)
<1>1. ents[n][name] \in Objs /\ old \in Entry /\ Granted(n)
  BY ResolveTypes DEF GInv
<1>2. ~ Older(entry.seq, old.seq)
  BY <1>1, NotOlder DEF Entry
<1>3. CASE NeedsId(n, old)
  <2>1. NextId(n) < Unassigned /\ AddId(n, ents[n][name], NextId(n))
    BY <1>3 DEF GiveId
  <2>2. NextId(n) \in Ids /\ idMap[n][NextId(n)] = Nil /\ NextId(n) = idCount[n]
    BY <1>1, <2>1, NextIsUnused
  <2> QED BY <1>2, <2>1, <2>2, GivenGrants
<1>4. CASE ~ NeedsId(n, old)
  <2>1. UNCHANGED <<idMap, idCount>>
    BY <1>4 DEF GiveId, NoNewId
  <2>2. ents[n][name] \in InUse(n)
    BY DEF InUse, Referenced
  <2> QED BY <1>1, <1>2, <2>1, <2>2, SetGrants DEF EntryOf
<1> QED BY <1>3, <1>4

LEMMA ChangesGrant ==
  ASSUME IInv, RInv, GInv, NEW n \in Nodes, NEW u, NEW name \in Names, NEW value,
         \/ \E sameType : ChangeValue(n, u, name, value, sameType)
         \/ KeepValue(n, u, name, value)
  PROVE  Grants(n)
<1> DEFINE old == EntryOf(n, name)
<1>1. Exists(n, name) /\ GiveId(n, ents[n][name], old) /\ UNCHANGED <<ents, resume>>
  BY DEF ChangeValue, KeepValue
<1>2. old \in Entry
  BY <1>1, ResolveTypes
<1>3. PICK entry : SetEntry(n, ents[n][name], entry) /\ entry.seq \in {old.seq, Inc(old.seq)}
  <2>1. CASE \E sameType : ChangeValue(n, u, name, value, sameType)
    <3> DEFINE seq == IF role[n] = "idle" THEN old.seq ELSE Inc(old.seq)
               new == [old EXCEPT !.val = value, !.id = IdOf(n, old), !.seq = seq]
    <3>1. SetEntry(n, ents[n][name], new)
      BY <2>1 DEF ChangeValue
    <3>2. seq \in {old.seq, Inc(old.seq)}
      OBVIOUS
    <3> HIDE DEF seq, old
    <3>3. new.seq = seq
      BY <1>2 DEF Entry
    <3> QED BY <3>1, <3>2, <3>3
  <2>2. CASE KeepValue(n, u, name, value)
    <3>1. SetEntry(n, ents[n][name], [old EXCEPT !.id = NextId(n)])
      BY <2>2 DEF KeepValue
    <3>2. [old EXCEPT !.id = NextId(n)].seq = old.seq
      BY <1>2 DEF Entry
    <3> QED BY <3>1, <3>2
  <2> QED BY <2>1, <2>2
<1> QED BY <1>1, <1>3, ValueGrants

LEMMA SetEntryFlagsGrants ==
  ASSUME IInv, RInv, GInv, NEW n \in Nodes, NEW u, NEW name \in Names, NEW flags,
         SetEntryFlags(n, u, name, flags)
  PROVE  Grants(n)
<1> DEFINE new == [EntryOf(n, name) EXCEPT !.flags = flags]
<1>1. /\ Exists(n, name) /\ SetEntry(n, ents[n][name], new)
      /\ UNCHANGED <<ents, idMap, idCount, resume>>
  BY DEF SetEntryFlags
<1>2. ents[n][name] \in Objs /\ EntryOf(n, name) \in Entry /\ EntryOf(n, name) = heap[n][ents[n][name]]
  BY <1>1, ResolveTypes DEF EntryOf
<1>3. ~ Older(new.seq, EntryOf(n, name).seq)
  BY <1>2, NotOlder DEF Entry
<1>4. ents[n][name] \in InUse(n)
  BY DEF InUse, Referenced
<1> HIDE DEF new
<1> QED BY <1>1, <1>2, <1>3, <1>4, SetGrants

\* Names and ids that are removed.
LEMMA RemovalGrants ==
  ASSUME IInv, RInv, GInv, NEW n \in Nodes, UNCHANGED resume,
         \/ \E id, name : RemoveEntry(n, id, name)
         \/ DeleteAllEntriesImpl(n)
  PROVE  Grants(n)
<1>1. idMap[n] \in [Ids -> Objs \cup {Nil}]
  BY ResolveTypes
<1>2. CASE \E id, name : RemoveEntry(n, id, name)
  <2>1. PICK id, name : RemoveEntry(n, id, name)
    BY <1>2
  <2> DEFINE e == IF name \in Names THEN [ents[n] EXCEPT ![name] = Nil] ELSE ents[n]
             m == IF id \in Ids THEN [idMap[n] EXCEPT ![id] = Nil] ELSE idMap[n]
  <2>2. /\ heap' = [heap EXCEPT ![n] = Collected(n, heap[n], e, m)]
        /\ ents' = [ents EXCEPT ![n] = e] /\ idMap' = [idMap EXCEPT ![n] = m] /\ UNCHANGED idCount
    BY <2>1 DEF RemoveEntry
  <2>3. \A i \in Ids : m[i] \in {Nil, idMap[n][i]}
    BY <1>1
  <2> HIDE DEF e, m
  <2> QED BY <2>2, <2>3, RemovedGrants
<1>3. CASE DeleteAllEntriesImpl(n)
  <2> DEFINE gone == {name \in Names : Exists(n, name) /\ ~ IsPersistent(EntryOf(n, name))}
             ids == {EntryOf(n, name).id : name \in gone}
             e == [name \in Names |-> IF name \in gone THEN Nil ELSE ents[n][name]]
             m == [id \in Ids |-> IF id \in ids THEN Nil ELSE idMap[n][id]]
  <2>1. /\ heap' = [heap EXCEPT ![n] = Collected(n, heap[n], e, m)]
        /\ ents' = [ents EXCEPT ![n] = e] /\ idMap' = [idMap EXCEPT ![n] = m] /\ UNCHANGED idCount
    BY <1>3 DEF DeleteAllEntriesImpl
  <2>2. \A i \in Ids : m[i] \in {Nil, idMap[n][i]}
    OBVIOUS
  <2> HIDE DEF e, m
  <2> QED BY <2>1, <2>2, RemovedGrants
<1> QED BY <1>2, <1>3

\* A number that is taken from a message is not older.
LEMMA AssignedForward ==
  ASSUME NEW msg, NEW e \in Entry, NEW mayNeedUpdate, NEW rev3
  PROVE  ~ Older(Assigned(msg, e, mayNeedUpdate, rev3).seq, e.seq)
<1>1. CASE Taken(msg, e)
  <2>1. Assigned(msg, e, mayNeedUpdate, rev3).seq = msg.seq
    BY <1>1 DEF Assigned, Entry
  <2> QED BY <1>1, <2>1 DEF Taken, StaleAssign
<1>2. CASE ~ Taken(msg, e)
  BY <1>2, NotOlder DEF Assigned, Entry
<1> QED BY <1>1, <1>2

\* A reader's changes of an entry it knows by its id.
LEMMA KnownGrants ==
  ASSUME IInv, RInv, GInv, NEW n \in Nodes, NEW c, NEW msg,
         \/ \E rev3 : AssignKnown(n, c, msg, rev3)
         \/ TakeUpdate(n, c, msg)
         \/ TakeFlags(n, c, msg)
  PROVE  Grants(n)
<1> DEFINE o == Lookup(n, msg.id)
           e == heap[n][o]
<1>1. o # Nil /\ UNCHANGED <<ents, idMap, idCount, resume>>
  BY DEF AssignKnown, TakeUpdate, TakeFlags
<1>2. o \in Objs /\ e \in Entry /\ o \in InUse(n)
  BY <1>1, ResolveTypes DEF Lookup, InUse, Referenced
<1>3. PICK entry : SetEntry(n, o, entry) /\ ~ Older(entry.seq, e.seq)
  <2>1. CASE \E rev3 : AssignKnown(n, c, msg, rev3)
    <3>1. PICK rev3 : SetEntry(n, o, Assigned(msg, e, FALSE, rev3))
      BY <2>1 DEF AssignKnown
    <3> HIDE DEF o, e
    <3> QED BY <1>2, <3>1, AssignedForward
  <2>2. CASE TakeUpdate(n, c, msg)
    <3>1. SetEntry(n, o, [e EXCEPT !.val = msg.val, !.seq = msg.seq]) /\ ~ StaleUpdate(msg, e)
      BY <2>2 DEF TakeUpdate
    <3> HIDE DEF o, e
    <3>2. [e EXCEPT !.val = msg.val, !.seq = msg.seq].seq = msg.seq
      BY <1>2 DEF Entry
    <3> QED BY <3>1, <3>2 DEF StaleUpdate, NotNewer
  <2>3. CASE TakeFlags(n, c, msg)
    <3>1. SetEntry(n, o, [e EXCEPT !.flags = msg.flags])
      BY <2>3 DEF TakeFlags
    <3> HIDE DEF o, e
    <3>2. [e EXCEPT !.flags = msg.flags].seq = e.seq /\ e.seq \in SeqNums
      BY <1>2 DEF Entry
    <3> QED BY <3>1, <3>2, NotOlder
  <2> QED BY <2>1, <2>2, <2>3
<1> HIDE DEF o
<1> QED BY <1>1, <1>2, <1>3, SetGrants

\* A client's entry gets the id of its server.
LEMMA BindGrants ==
  ASSUME IInv, RInv, GInv, NEW n \in Nodes, NEW c \in Conns, NEW msg \in PeerMessages,
         msg.type = "EntryAssign", Bind(n, c, msg)
  PROVE  Grants(n)
<1> DEFINE o == ents[n][msg.str]
           bound == [EntryOf(n, msg.str) EXCEPT !.id = msg.id]
<1>1. /\ ~ IsServer(n) /\ msg.id # Unassigned /\ Lookup(n, msg.id) = Nil /\ Exists(n, msg.str)
      /\ AddId(n, o, msg.id) /\ UNCHANGED ents /\ resume[n][c] = Nothing
  BY DEF Bind, Free
<1>2. PICK entry : SetEntry(n, o, entry)
  BY DEF Bind
<1>3. msg.id \in AnyId /\ msg.str \in Names
  BY PeerMessageFields
<1>4. msg.id \in Ids /\ idMap[n][msg.id] = Nil
  BY <1>1, <1>3, MessagesAssumption DEF AnyId, Ids, Lookup
<1>5. \A d \in Conns : resume'[n][d].obj = resume[n][d].obj \/ resume[n][d].obj = Nil
  <2>1. UNCHANGED resume \/ resume' = [resume EXCEPT ![n][c] = [msg |-> msg, obj |-> o]]
    BY DEF Bind
  <2>2. resume = [m \in Nodes |-> resume[m]] /\ ReadersOK(resume[n])
    BY DEF IInv, AllOnNodes, OnNodes, RInv, Resolves
  <2>3. resume[n][c].obj = Nil
    BY <1>1 DEF Nothing
  <2> HIDE DEF o
  <2>4. \A d \in Conns : d # c => resume'[n][d] = resume[n][d]
    BY <2>1, <2>2 DEF ReadersOK
  <2> QED BY <2>3, <2>4
<1> QED BY <1>1, <1>2, <1>3, <1>4, <1>5, GivenGrants

\* A reader takes up an assignment and lets go of the object.
LEMMA BindResumedGrants ==
  ASSUME IInv, RInv, GInv, NEW n \in Nodes, NEW c \in Conns, BindResumed(n, c)
  PROVE  Grants(n)
<1> DEFINE r == resume[n][c]
           o == r.obj
           e == heap[n][o]
           new == IF o \in Referenced(ents[n], idMap[n])
                  THEN Assigned(r.msg, e, TRUE, FALSE) ELSE FreeEntry
<1>1. /\ r # Nothing /\ SetEntry(n, o, new) /\ UNCHANGED <<ents, idMap, idCount>>
      /\ resume' = [resume EXCEPT ![n][c] = Nothing]
  BY DEF BindResumed
<1>2. /\ heap[n] \in [Objs -> Entry] /\ ReadersOK(resume[n]) /\ Granted(n)
  BY ResolveTypes DEF RInv, Resolves, GInv
<1>3. o \in Objs
  BY <1>1, <1>2 DEF ReadersOK
<1>4. \A d \in Conns : resume'[n][d].obj = resume[n][d].obj \/ resume[n][d].obj = o
  <2>1. \A d \in Conns : d # c => resume'[n][d] = resume[n][d]
    BY <1>1, <1>2 DEF IInv, AllOnNodes, OnNodes, ReadersOK
  <2> QED BY <2>1
<1>5. /\ heap'[n] = [heap[n] EXCEPT ![o] = new] /\ UNCHANGED <<ents, idMap, idCount>>
  BY <1>1 DEF SetEntry, IInv, AllOnNodes, OnNodes
<1> HIDE DEF o, r
<1>6. e \in Entry
  BY <1>2, <1>3
<1>7. ~ Older(new.seq, e.seq) \/ new.name = Nil
  BY <1>6, AssignedForward DEF FreeEntry
<1>8. new.name # Nil => o \in InUse(n)'
  <2>1. new.name # Nil => o \in Referenced(ents[n], idMap[n])
    BY DEF FreeEntry
  <2> QED BY <1>5, <2>1 DEF InUse, Referenced
<1>9. idCount[n] \in AnyId /\ idCount[n] >= idCount[n]
  BY <1>2, MessagesAssumption DEF Granted, AnyId
<1> HIDE DEF new
<1>10. Touches(n, o, new)
  BY <1>3, <1>4, <1>5, <1>7, <1>8, <1>9 DEF Touches
<1> QED BY <1>10, TouchGrants

\* A file that is loaded: the ids are the next ones, the new entries' objects were
\* free, and the numbers go forward.
LEMMA LoadPersistentGrants ==
  ASSUME IInv, RInv, GInv, NEW n \in Nodes, NEW u, NEW file \in Files, LoadPersistent(n, u, file)
  PROVE  Grants(n)
<1>1. UNCHANGED resume
  BY LoadDoes DEF IInv
<1>2. PICK place, ids, last, h, e, m :
         /\ LoadedTo(n, file, place, ids, last, h, e, m)
         /\ heap' = [heap EXCEPT ![n] = h] /\ ents' = [ents EXCEPT ![n] = e]
         /\ idMap' = [idMap EXCEPT ![n] = m] /\ idCount' = [idCount EXCEPT ![n] = last]
  BY LoadDoes DEF IInv
<1>3. heap'[n] = h /\ ents'[n] = e /\ idMap'[n] = m /\ idCount'[n] = last
  BY <1>2 DEF IInv, AllOnNodes, OnNodes
<1>4. Granted(n) /\ Collects(n) /\ ResolveOK(heap[n], ents[n], idMap[n]) /\ Nil \notin Objs
  BY ResolveTypes DEF GInv, RInv, Resolves
<1>5. LoadedNames(n, file, ids, h, e) /\ \A name \in DOMAIN file : LoadedLine(n, file, ids, name)
  <2>1. NamedTables(n)
    BY <1>4 DEF ResolveOK, NamesResolve, Granted, NamedTables
  <2> QED BY <1>2, <2>1, NamesAreLoaded
<1>6. /\ last \in idCount[n] .. Unassigned
      /\ ids \in [Given(n, file) -> idCount[n] .. (last - 1)]
      /\ \A i \in Ids :
            \/ \E name \in Given(n, file) : ids[name] = i /\ m[i] = e[name]
            \/ (\A name \in Given(n, file) : ids[name] # i) /\ m[i] = idMap[n][i]
  BY <1>2, Zenon DEF LoadedTo
<1>7. /\ last \in AnyId /\ last >= idCount[n] /\ idCount[n] \in Nat /\ last \in Nat
      /\ \A name \in Given(n, file) : ids[name] < last /\ ids[name] >= idCount[n]
  BY <1>4, <1>6, MessagesAssumption DEF Granted, AnyId
<1>8. \A i \in Ids : i < idCount[n] => m[i] = idMap[n][i]
  BY <1>6, <1>7 DEF Ids
<1>9. \A i \in Ids : m[i] # Nil => i < last
  <2> SUFFICES ASSUME NEW i \in Ids, m[i] # Nil
               PROVE  i < last
    OBVIOUS
  <2>1. CASE \E name \in Given(n, file) : ids[name] = i
    BY <1>7, <2>1
  <2>2. CASE m[i] = idMap[n][i]
    <3>1. i < idCount[n] /\ i \in Nat
      BY <1>4, <2>2 DEF Granted, Ids
    <3> QED BY <1>7, <3>1
  <2> QED BY <1>6, <2>1, <2>2
<1>10. Granted(n)'
  BY <1>3, <1>7, <1>9 DEF Granted
<1>11. ASSUME NEW o \in Objs, o \notin InUse(n)'
       PROVE  heap'[n][o].name = Nil
  <2>1. h[o] = heap[n][o]
    <3>1. \A name \in DOMAIN file : e[name] # o
      BY <1>3, <1>5, <1>11 DEF LoadedNames, InUse, Referenced
    <3> QED BY <1>5, <3>1 DEF LoadedNames
  <2>2. \A name \in Names : ents[n][name] # o
    BY <1>3, <1>4, <1>5, <1>11 DEF LoadedNames, InUse, Referenced
  <2>3. \A i \in Ids : idMap[n][i] # o
    <3> SUFFICES ASSUME NEW i \in Ids, idMap[n][i] = o
                 PROVE  FALSE
      OBVIOUS
    <3>1. m[i] = o
      BY <1>4, <1>8 DEF Granted
    <3> QED BY <1>3, <1>11, <3>1 DEF InUse, Referenced
  <2>4. \A c \in Conns : resume[n][c].obj # o
    BY <1>1, <1>11 DEF InUse
  <2>5. o \notin InUse(n)
    BY <2>2, <2>3, <2>4 DEF InUse, Referenced
  <2> QED BY <1>3, <1>4, <2>1, <2>5 DEF Collects
<1>12. Kept(idMap[n], idCount[n], idMap'[n], idCount'[n])
  BY <1>3, <1>7, <1>8 DEF Kept
<1>13. ASSUME NEW o \in Objs, heap[n][o].name # Nil, h[o].name # Nil
       PROVE  ~ Older(h[o].seq, heap[n][o].seq)
  <2>1. heap[n][o] \in Entry
    BY <1>4 DEF ResolveOK
  <2>2. CASE \E name \in DOMAIN file : e[name] = o
    <3>1. PICK name \in DOMAIN file : e[name] = o
      BY <2>2
    <3>2. name \notin NewNames(n, file)
      BY <1>4, <1>5, <1>13, <3>1 DEF LoadedNames, Collects
    <3>3. ents[n][name] = o /\ o # Nil /\ h[o] = LoadedEntry(n, file, ids, name)
      BY <1>4, <1>5, <3>1, <3>2 DEF LoadedNames
    <3>4. h[o].seq \in {heap[n][o].seq, Inc(heap[n][o].seq)}
      BY <1>5, <3>3 DEF LoadedLine
    <3> QED BY <2>1, <3>4, NotOlder DEF Entry
  <2>3. CASE \A name \in DOMAIN file : e[name] # o
    <3>1. h[o] = heap[n][o]
      BY <1>5, <2>3 DEF LoadedNames
    <3> QED BY <2>1, <3>1, NotOlder DEF Entry
  <2> QED BY <2>2, <2>3
<1>14. SeqsForward(heap[n], heap'[n])
  BY <1>3, <1>13 DEF SeqsForward
<1> QED BY <1>10, <1>11, <1>12, <1>14 DEF Grants, Collects

\* A set of numbers up to a bound has a greatest one.
LEMMA MaxOf ==
  ASSUME NEW S \in SUBSET AnyId, S # {}
  PROVE  Max(S) \in S /\ \A y \in S : Max(S) >= y
<1> DEFINE rest == {Unassigned - s : s \in S}
<1>1. rest \subseteq Nat /\ rest # {}
  BY MessagesAssumption DEF AnyId
<1> HIDE DEF rest
<1>2. \E x \in rest : \A y \in rest : ~ (<<y, x>> \in OpToRel(<, Nat))
  BY <1>1, NatLessThanWellFounded, WFMin
<1>3. PICK x \in rest : \A y \in rest : ~ (y < x)
  BY <1>1, <1>2 DEF OpToRel
<1>4. PICK s \in S : x = Unassigned - s
  BY DEF rest
<1>5. \A y \in S : s >= y
  <2> SUFFICES ASSUME NEW y \in S
               PROVE  s >= y
    OBVIOUS
  <2>1. ~ (Unassigned - y < Unassigned - s)
    BY <1>3, <1>4 DEF rest
  <2>2. y \in Int /\ s \in Int /\ Unassigned \in Int
    BY MessagesAssumption DEF AnyId
  <2> QED BY <2>1, <2>2
<1> QED BY <1>5 DEF Max

\* A client forgets every id but those its server presents.
LEMMA ApplyInitialAssignmentsGrants ==
  ASSUME IInv, RInv, GInv, NEW n \in Nodes, NEW c, NEW table \in Presentations,
         NEW newServer \in BOOLEAN, NEW rev3 \in BOOLEAN,
         ApplyInitialAssignments(n, c, table, newServer, rev3)
  PROVE  Grants(n)
<1> DEFINE named == DOMAIN table
           new == named \ KnownNames(n)
           present == named \cup KnownNames(n)
           kept == {name \in named \ new :
                       ~ newServer /\ NotNewer(table[name].seq, EntryOf(n, name).seq)}
           after(name) ==
               LET e == EntryOf(n, name) IN
               CASE name \notin named -> WithoutId(e)
                 [] name \in new ->
                       NewEntry(name, table[name].val, table[name].flags, table[name].id, table[name].seq)
                 [] name \in kept -> [e EXCEPT !.id = table[name].id]
                 [] OTHER -> [e EXCEPT !.val = table[name].val, !.seq = table[name].seq,
                                       !.id = table[name].id,
                                       !.flags = IF rev3 THEN table[name].flags ELSE @]
           h == [o \in Objs |->
                    LET owner == {name \in present : ents'[n][name] = o}
                    IN IF owner = {} THEN FreeEntry ELSE after(CHOOSE name \in owner : TRUE)]
           m == [id \in Ids |->
                    LET owner == {name \in named : table[name].id = id}
                    IN IF owner = {} THEN Nil ELSE ents'[n][CHOOSE name \in owner : TRUE]]
           counts == {0} \cup {table[name].id + 1 : name \in named}
<1>1. role[n] = "client"
  BY Zenon DEF ApplyInitialAssignments
<1>2. heap' = [heap EXCEPT ![n] = h]
  BY Zenon DEF ApplyInitialAssignments
<1>3. idMap' = [idMap EXCEPT ![n] = m]
  BY Zenon DEF ApplyInitialAssignments
<1>4. idCount' = [idCount EXCEPT ![n] = Max(counts)]
  BY Zenon DEF ApplyInitialAssignments
<1>5. named \subseteq Names /\ \A name \in named : table[name].id \in Ids
  BY PresentationFields
<1> HIDE DEF after
<1>6. heap'[n] = h /\ idMap'[n] = m /\ idCount'[n] = Max(counts)
  <2> HIDE DEF h, m, counts
  <2> QED BY <1>2, <1>3, <1>4 DEF IInv, AllOnNodes, OnNodes
<1>7. counts \in SUBSET AnyId /\ counts # {}
  BY <1>5, MessagesAssumption DEF Ids, AnyId
<1>8. Max(counts) \in AnyId /\ \A y \in counts : Max(counts) >= y
  <2> HIDE DEF counts
  <2> QED BY <1>7, MaxOf
<1>9. Granted(n)'
  <2> SUFFICES ASSUME NEW id \in Ids, m[id] # Nil
               PROVE  id < Max(counts)
    BY <1>6, <1>8 DEF Granted
  <2>1. PICK name \in named : table[name].id = id
    OBVIOUS
  <2>2. id + 1 \in counts
    BY <2>1
  <2> HIDE DEF counts
  <2> QED BY <1>8, <2>2, MessagesAssumption DEF Ids, AnyId
<1>10. Collects(n)'
  <2> SUFFICES ASSUME NEW o \in Objs, o \notin InUse(n)'
               PROVE  h[o].name = Nil
    BY <1>6 DEF Collects
  <2>1. \A name \in present : name \in Names
    BY <1>5 DEF KnownNames
  <2>2. \A name \in present : ents'[n][name] # o
    BY <2>1 DEF InUse, Referenced
  <2>3. {name \in present : ents'[n][name] = o} = {}
    BY <2>2
  <2>4. h[o] = FreeEntry
    BY <2>3
  <2> QED BY <2>4 DEF FreeEntry
<1>11. ~ IsServer(n)
  BY <1>1 DEF IsServer
<1> QED BY <1>9, <1>10, <1>11 DEF Grants

\* Whatever a user calls does what it owes.
LEMMA UserCallGrants ==
  ASSUME IInv, RInv, GInv, NEW n \in Nodes, NEW u, UserCall(n, u)
  PROVE  Grants(n)
<1>1. ASSUME NEW name \in Names, NEW value \in Values,
             SetEntryValue(n, u, name, value) \/ SetEntryTypeValue(n, u, name, value)
      PROVE  Grants(n)
  <2>1. \/ \E seq : Create(n, u, name, value, seq)
        \/ \E sameType : ChangeValue(n, u, name, value, sameType)
        \/ KeepValue(n, u, name, value)
    BY <1>1 DEF SetEntryValue, SetEntryTypeValue
  <2> QED BY <2>1, CreateGrants, ChangesGrant
<1>2. ASSUME DeleteAllEntries(n, u)
      PROVE  Grants(n)
  <2>1. DeleteAllEntriesImpl(n)
    BY <1>2 DEF DeleteAllEntries
  <2>2. UNCHANGED resume
    BY <2>1 DEF DeleteAllEntriesImpl
  <2> QED BY <2>1, <2>2, RemovalGrants
<1>3. ASSUME NEW name \in Names, DeleteEntry(n, u, name)
      PROVE  Grants(n)
  BY <1>3, RemovalGrants DEF DeleteEntry
<1>4. CASE TableCall(n, u)
  BY <1>1, <1>2, <1>3, <1>4, SetEntryFlagsGrants DEF TableCall
<1> QED BY <1>4, LoadPersistentGrants DEF UserCall

\* And so does whatever message of a peer a reader processes.
LEMMA ProcessIncomingGrants ==
  ASSUME IInv, RInv, GInv, NEW n \in Nodes, NEW c \in Conns, NEW msg \in PeerMessages, NEW rev3,
         ProcessIncoming(n, c, msg, rev3)
  PROVE  Grants(n)
<1>1. CASE TakeClear(n, c, msg)
  <2>1. DeleteAllEntriesImpl(n)
    BY <1>1 DEF TakeClear
  <2>2. UNCHANGED resume
    BY <2>1 DEF DeleteAllEntriesImpl
  <2> QED BY <2>1, <2>2, RemovalGrants
<1>2. CASE Ignored(n, c, msg)
  BY <1>2, QuietGrants DEF Ignored, storageVars
<1>3. CASE TakeDelete(n, c, msg)
  BY <1>3, RemovalGrants DEF TakeDelete
<1> QED BY <1>1, <1>2, <1>3, AssignNewGrants, AssignUnknownGrants, BindGrants, KnownGrants
        DEF ProcessIncoming

\* Every step leaves every entry of every node under its id, gives no id again on
\* a server and takes no entry of a server back.
LEMMA StepResolves ==
  ASSUME IInv, RInv, GInv, [Next]_storageVars
  PROVE  RInv' /\ GInv' /\ \A n \in Nodes : Grants(n)
<1>1. ASSUME NEW n \in Nodes, Safe(n), Resolves(n)', Grants(n)
      PROVE  RInv' /\ GInv' /\ \A m \in Nodes : Grants(m)
  <2>1. ASSUME NEW m \in Nodes, m # n
        PROVE  (Resolves(m)' <=> Resolves(m)) /\ Grants(m)
    <3>1. /\ heap'[m] = heap[m] /\ ents'[m] = ents[m] /\ idMap'[m] = idMap[m]
          /\ idCount'[m] = idCount[m] /\ resume'[m] = resume[m]
      BY <1>1, <2>1 DEF Safe, Elsewhere
    <3>2. heap[m] \in [Objs -> Entry] /\ Granted(m) /\ Collects(m)
      BY ResolveTypes DEF GInv
    <3>3. Granted(m)' /\ Collects(m)' /\ (Resolves(m)' <=> Resolves(m))
      BY <3>1, <3>2 DEF Granted, Collects, InUse, Referenced, Resolves
    <3>4. Kept(idMap[m], idCount[m], idMap'[m], idCount'[m]) /\ SeqsForward(heap[m], heap'[m])
      BY <3>1, <3>2, NotOlder, MessagesAssumption DEF Kept, Granted, AnyId, SeqsForward, Entry
    <3> QED BY <3>3, <3>4 DEF Grants
  <2>2. \A m \in Nodes : Grants(m) /\ Resolves(m)'
    BY <1>1, <2>1 DEF RInv
  <2> QED BY <2>2 DEF RInv, GInv, Grants
<1>2. CASE Next
  <2>1. PICK n \in Nodes :
            \/ \E server : SetOutgoing(n, server)
            \/ GetPersistentEntries(n)
            \/ \E u \in Users : UserCall(n, u)
            \/ \E c \in Conns, msg \in PeerMessages, rev3 \in BOOLEAN : ProcessIncoming(n, c, msg, rev3)
            \/ \E c \in Conns : BindResumed(n, c)
            \/ \E c \in Conns, table \in Presentations, newServer \in BOOLEAN, rev3 \in BOOLEAN :
                  ApplyInitialAssignments(n, c, table, newServer, rev3)
            \/ \E t \in Threads : HandOver(n, t)
    BY <1>2 DEF Next
  <2>2. Safe(n)
    BY <2>1, QuietSteps, UserCallSafe, ProcessIncomingSafe, BindResumedSafe,
       ApplyInitialAssignmentsSafe
  <2>3. Granted(n)
    BY DEF GInv
  <2>4. Resolves(n)'
    BY <2>1, <2>3, QuietStepsResolve, UserCallResolves, ProcessIncomingResolves,
       BindResumedResolves, ApplyInitialAssignmentsResolves
  <2>5. ASSUME \/ \E server : SetOutgoing(n, server)
               \/ GetPersistentEntries(n)
               \/ \E t \in Threads : HandOver(n, t)
        PROVE  UNCHANGED <<heap, ents, idMap, idCount, resume>>
    BY <2>5 DEF SetOutgoing, GetPersistentEntries, HandOver
  <2>6. Grants(n)
    BY <2>1, <2>5, QuietGrants, UserCallGrants, ProcessIncomingGrants, BindResumedGrants,
       ApplyInitialAssignmentsGrants
  <2> QED BY <1>1, <2>2, <2>4, <2>6
<1>3. CASE UNCHANGED storageVars
  <2>1. UNCHANGED <<heap, ents, idMap, idCount, resume>>
    BY <1>3 DEF storageVars
  <2>2. \A n \in Nodes : Grants(n)
    BY <2>1, QuietGrants
  <2>3. RInv'
    BY <2>1 DEF RInv, Resolves
  <2> QED BY <2>2, <2>3 DEF GInv, Grants
<1> QED BY <1>2, <1>3

\* Of the empty tables there is nothing to resolve, and no id is given.
LEMMA NothingToResolve ==
  ASSUME Init
  PROVE  RInv /\ GInv
<1> SUFFICES ASSUME NEW n \in Nodes
             PROVE  Resolves(n) /\ Granted(n) /\ Collects(n)
  BY DEF RInv, GInv
<1>1. /\ heap[n] = [o \in Objs |-> FreeEntry] /\ ents[n] = [name \in Names |-> Nil]
      /\ idMap[n] = [id \in Ids |-> Nil] /\ resume[n] = [c \in Conns |-> Nothing]
      /\ idCount[n] = 0
  BY DEF Init, EmptyTables
<1>2. ResolveOK(heap[n], ents[n], idMap[n])
  BY <1>1, FreeEntryOK DEF ResolveOK, NamesResolve
<1>3. Granted(n)
  BY <1>1, MessagesAssumption DEF Granted, AnyId
<1>4. Collects(n)
  BY <1>1 DEF Collects, FreeEntry
<1> QED BY <1>1, <1>2, <1>3, <1>4 DEF Resolves, ReadersOK

\* In every reachable state of every node, a client's too, and while an assignment
\* is half done, an entry of a name is found by the id it has; no slot beyond the
\* given ids is taken, and an object nothing refers to is free.
THEOREM ResolveInvariance == Spec => [](RInv /\ GInv)
<1>1. Init => RInv /\ GInv
  BY NothingToResolve
<1>2. IInv /\ RInv /\ GInv /\ [Next]_storageVars => RInv' /\ GInv'
  BY StepResolves
<1> QED BY <1>1, <1>2, Invariance, PTL DEF Spec

\* An id that a node would put into a message of an entry is one by which it finds
\* the entry, whatever its server has sent it before.
THEOREM EntryIdsResolveHolds == Spec => []EntryIdsResolve
<1>1. ASSUME RInv, NEW n \in Nodes, NEW name \in Names, Exists(n, name)
      PROVE  /\ EntryOf(n, name).name = name
             /\ EntryOf(n, name).id # Unassigned =>
                   Lookup(n, EntryOf(n, name).id) = ents[n][name]
  <2>1. /\ EntryOf(n, name).name = name /\ EntryOf(n, name) \in Entry
        /\ EntryOf(n, name).id # Unassigned => idMap[n][EntryOf(n, name).id] = ents[n][name]
    BY <1>1, ResolveTypes DEF RInv, Resolves, ResolveOK, NamesResolve, Exists, EntryOf
  <2>2. EntryOf(n, name).id # Unassigned => EntryOf(n, name).id \in Ids
    BY <2>1, MessagesAssumption DEF Entry, AnyId, Ids
  <2> QED BY <2>1, <2>2 DEF Lookup
<1>2. RInv => EntryIdsResolve
  BY <1>1 DEF EntryIdsResolve
<1> QED BY <1>2, ResolveInvariance, PTL

\* On a server, each entry of a name is found by the id it has, and no slot beyond
\* the given ids is taken; unless it was a client before, every entry has an id,
\* and every slot that is not empty leads to the entry of a name.
THEOREM ServerIdMapHolds == Spec => []ServerIdMap
<1>1. ASSUME IInv, RInv, GInv, NEW n \in Nodes, IsServer(n), NEW name \in Names, Exists(n, name)
      PROVE  /\ EntryOf(n, name).name = name
             /\ \/ ~ AlwaysServer(n) /\ EntryOf(n, name).id = Unassigned
                \/ /\ EntryOf(n, name).id < idCount[n]
                   /\ idMap[n][EntryOf(n, name).id] = ents[n][name]
  <2>1. EntryOf(n, name).name = name /\ ents[n][name] # Nil
    BY <1>1, ResolveTypes DEF Exists
  <2>2. CASE EntryOf(n, name).id # Unassigned
    <3>1. Lookup(n, EntryOf(n, name).id) = ents[n][name]
      <4>1. /\ EntryOf(n, name) \in Entry
            /\ idMap[n][EntryOf(n, name).id] = ents[n][name]
        BY <1>1, <2>2, ResolveTypes DEF RInv, Resolves, ResolveOK, NamesResolve, Exists, EntryOf
      <4>2. EntryOf(n, name).id \in Ids
        BY <2>2, <4>1, MessagesAssumption DEF Entry, AnyId, Ids
      <4> QED BY <4>1, <4>2 DEF Lookup
    <3>2. EntryOf(n, name).id \in Ids /\ idMap[n][EntryOf(n, name).id] = ents[n][name]
      BY <2>1, <3>1 DEF Lookup
    <3> QED BY <1>1, <2>1, <3>2 DEF GInv, Granted
  <2>3. CASE EntryOf(n, name).id = Unassigned
    <3>1. ~ AlwaysServer(n)
      BY <1>1, <2>3, ByName, MessagesAssumption DEF Ids
    <3> QED BY <2>1, <2>3, <3>1
  <2> QED BY <2>2, <2>3
<1>2. ASSUME IInv, GInv, NEW n \in Nodes, NEW id \in Ids, idMap[n][id] # Nil
      PROVE  /\ id < idCount[n]
             /\ AlwaysServer(n) => /\ heap[n][idMap[n][id]].id = id
                                   /\ ents[n][heap[n][idMap[n][id]].name] = idMap[n][id]
  BY <1>2 DEF GInv, Granted, IInv, NodeOK, TablesOK, IdsHaveNames
<1>3. IInv /\ RInv /\ GInv => ServerIdMap
  BY <1>1, <1>2 DEF ServerIdMap
<1> QED BY <1>3, Invariance, ResolveInvariance, PTL

\* A server never fills a slot of m_idMap that it has emptied: an id that was given
\* to an entry is never given to another.
THEOREM IdsNotReusedHolds == Spec => IdsNotReused
<1>1. IInv /\ RInv /\ GInv /\ [Next]_storageVars =>
        [\A n \in Nodes : IsServer(n) =>
            /\ idCount'[n] >= idCount[n]
            /\ \A id \in Ids : id < idCount[n] /\ idMap[n][id] = Nil => idMap'[n][id] = Nil
        ]_storageVars
  BY StepResolves DEF Grants, Kept
<1> QED BY <1>1, Invariance, ResolveInvariance, PTL DEF Spec, IdsNotReused

\* No step of a server takes an entry back to an older write.
THEOREM ServerSeqForwardHolds == Spec => ServerSeqForward
<1>1. IInv /\ RInv /\ GInv /\ [Next]_storageVars =>
        [\A n \in Nodes, o \in Objs :
            IsServer(n) /\ heap[n][o].name # Nil /\ heap'[n][o].name # Nil =>
                ~ Older(heap'[n][o].seq, heap[n][o].seq)
        ]_storageVars
  BY StepResolves DEF Grants, SeqsForward
<1> QED BY <1>1, Invariance, ResolveInvariance, PTL DEF Spec, ServerSeqForward
=============================================================================
