------------------------------- MODULE Rpc_proofs -------------------------------
(***************************************************************************)
(* Remote procedure calls, for any callers, threads, calls, uids, lost     *)
(* connections and cancelled waits, in three parts.                        *)
(*                                                                         *)
(* Waits: however a wait ends, no two threads wait for one uid of one      *)
(* caller, and a uid is in m_blockingRpcCalls exactly as long as one does, *)
(* but for the cancelled waits that leave it there.  Only the calls'       *)
(* callers and uids, and the getters' places, matter to it.                *)
(*                                                                         *)
(* Answers: a thread gets the answer to its own call.  Its invariant       *)
(* follows a call from its caller to m_responseMap and back.               *)
(*                                                                         *)
(* Faults: what a thread may die of, from the copies there are of each     *)
(* response between the server and m_rpcResults.                           *)
(***************************************************************************)
EXTENDS Rpc, FiniteSetTheorems, SequenceTheorems, TLAPS

CallRecord == [by : Callers, conn : Int, uid : Uids, answers : 0 .. 2]

IsGetter(r) ==
    r = [at |-> r.at, call |-> r.call, woken |-> r.woken, kind |-> r.kind, got |-> r.got]

Waiting(g) == getters[g].at = "waiting"

CallTypes ==
    /\ calls \in Seq(CallRecord)
    /\ uids \in [Callers -> Uids] /\ conn \in [Clients -> Int] /\ losses \in Nat

GetterTypes ==
    /\ getters = [g \in Getters |-> getters[g]]
    /\ \A g \in Getters : IsGetter(getters[g]) /\ (Waiting(g) => getters[g].call \in DOMAIN calls)
    /\ blocking \in [Callers -> SUBSET Uids]

\* No two threads wait for the same uid of the same caller.
OneWaits ==
    \A g, h \in Getters :
        Waiting(g) /\ Waiting(h) /\ Caller(g) = Caller(h) /\ UidOf(g) = UidOf(h) => g = h

\* A thread that waits has its uid in m_blockingRpcCalls.
WaitingBlocks == \A g \in Getters : Waiting(g) => UidOf(g) \in blocking[Caller(g)]

\* A uid that is there is waited for, or left by a cancelled wait.
BlockedHasCause ==
    \A c \in Callers : \A uid \in blocking[c] :
        \/ \E g \in Getters : Waiting(g) /\ Caller(g) = c /\ UidOf(g) = uid
        \/ <<c, uid>> \in leaked

IInv == CallTypes /\ GetterTypes /\ OneWaits /\ WaitingBlocks /\ BlockedHasCause
-----------------------------------------------------------------------------
LEMMA Initially == Init => IInv
<1> SUFFICES ASSUME Init PROVE IInv
  OBVIOUS
<1>1. CallTypes
  <2>1. 0 \in Uids
    BY RpcAssumption DEF Uids
  <2>2. \A c \in Clients : c - 1 \in Int
    BY RpcAssumption DEF Clients
  <2> QED
    BY <2>1, <2>2 DEF Init, CallTypes
<1>2. GetterTypes
  BY DEF Init, GetterTypes, Out, IsGetter, Waiting
<1>3. OneWaits /\ WaitingBlocks /\ BlockedHasCause
  BY DEF Init, OneWaits, WaitingBlocks, BlockedHasCause, Waiting, Out
<1> QED
  BY <1>1, <1>2, <1>3 DEF IInv

\* The calls there were keep their callers and uids.
CallsKept == \A k \in DOMAIN calls :
    k \in DOMAIN calls' /\ calls'[k].by = calls[k].by /\ calls'[k].uid = calls[k].uid

\* The threads keep their places.
GettersKept ==
    /\ getters' = [g \in Getters |-> getters'[g]]
    /\ \A g \in Getters : IsGetter(getters'[g]) /\ getters'[g].at = getters[g].at
                          /\ getters'[g].call = getters[g].call
    /\ blocking' = blocking /\ leaked' = leaked

\* A step that keeps calls and places keeps the invariant.
LEMMA Undisturbed ==
    ASSUME IInv, CallTypes', CallsKept, GettersKept
    PROVE  IInv'
<1>1. \A g \in Getters : Waiting(g)' = Waiting(g)
  BY DEF Waiting, GettersKept
<1>2. \A g \in Getters : Waiting(g) => Caller(g)' = Caller(g) /\ UidOf(g)' = UidOf(g)
  BY DEF IInv, GetterTypes, GettersKept, CallsKept, Caller, UidOf
<1>3. GetterTypes'
  BY <1>1 DEF IInv, GetterTypes, GettersKept, CallsKept
<1>4. OneWaits'
  BY <1>1, <1>2 DEF IInv, OneWaits
<1>5. WaitingBlocks'
  BY <1>1, <1>2 DEF IInv, WaitingBlocks, GettersKept
<1>6. BlockedHasCause'
  BY <1>1, <1>2 DEF IInv, BlockedHasCause, GettersKept
<1> QED
  BY <1>3, <1>4, <1>5, <1>6 DEF IInv

LEMMA SameCalls == UNCHANGED calls => CallsKept
BY DEF CallsKept

LEMMA SameGetters == IInv /\ UNCHANGED getVars => GettersKept
BY DEF IInv, GetterTypes, GettersKept, getVars

LEMMA WokenIsGetter ==
    ASSUME NEW r, NEW w, IsGetter(r)
    PROVE  [r EXCEPT !.woken = w]
           = [at |-> r.at, call |-> r.call, woken |-> w, kind |-> r.kind, got |-> r.got]
BY DEF IsGetter

LEMMA WaitsForACall ==
    ASSUME IInv, NEW g \in Getters, Waiting(g)
    PROVE  Caller(g) \in Callers /\ UidOf(g) \in Uids
<1>1. calls[getters[g].call] \in CallRecord
  BY DEF IInv, GetterTypes, CallTypes
<1> QED
  BY <1>1 DEF CallRecord, Caller, UidOf

\* Steps that change neither calls nor waits.
LEMMA OthersKeep ==
    ASSUME IInv, UNCHANGED <<callerVars, getVars>>
    PROVE  IInv'
<1>1. CallTypes'
  BY DEF IInv, CallTypes, callerVars
<1>2. CallsKept /\ GettersKept
  BY SameCalls, SameGetters DEF callerVars
<1> QED
  BY <1>1, <1>2, Undisturbed

LEMMA CallRpcKeeps ==
    ASSUME IInv, NEW c \in Callers, CallRpc(c)
    PROVE  IInv'
<1>1. uids'[c] \in Uids /\ uids' \in [Callers -> Uids]
  BY RpcAssumption DEF IInv, CallTypes, CallRpc, NextUid, Uids
<1> DEFINE call == [by |-> c, conn |-> IF c = Server THEN 0 ELSE conn[c], uid |-> uids'[c],
                    answers |-> 0]
<1>2. call \in CallRecord
  BY <1>1 DEF IInv, CallTypes, CallRecord, Clients
<1> HIDE DEF call
<1>3. calls' = Append(calls, call)
  BY DEF CallRpc, call
<1>4. CallTypes'
  BY <1>1, <1>2, <1>3 DEF IInv, CallTypes, CallRpc
<1>5. CallsKept
  BY <1>2, <1>3 DEF IInv, CallTypes, CallsKept
<1>6. GettersKept
  BY SameGetters DEF CallRpc
<1> QED
  BY <1>4, <1>5, <1>6, Undisturbed

LEMMA ReconnectKeeps ==
    ASSUME IInv, NEW c \in Clients, Reconnect(c)
    PROVE  IInv'
<1>1. Cardinality(Clients) \in Nat
  BY RpcAssumption, FS_Subset, FS_CardinalityType DEF Clients
<1>2. CallTypes'
  BY <1>1 DEF IInv, CallTypes, Reconnect
<1>3. CallsKept /\ GettersKept
  BY SameCalls, SameGetters DEF Reconnect
<1> QED
  BY <1>2, <1>3, Undisturbed

LEMMA AddResultKeeps ==
    ASSUME IInv, NEW c, NEW k, AddResult(c, k), UNCHANGED <<blocking, leaked>>
    PROVE  GettersKept
<1>1. ASSUME NEW g \in Getters
      PROVE  /\ IsGetter(getters'[g]) /\ getters'[g].at = getters[g].at
             /\ getters'[g].call = getters[g].call
  <2>1. IsGetter(getters[g])
    BY DEF IInv, GetterTypes
  <2>2. getters'[g] = getters[g] \/ getters'[g] = [getters[g] EXCEPT !.woken = TRUE]
    BY DEF AddResult
  <2>3. CASE getters'[g] = getters[g]
    BY <2>1, <2>3
  <2>4. CASE getters'[g] = [getters[g] EXCEPT !.woken = TRUE]
    <3>1. getters'[g] = [at |-> getters[g].at, call |-> getters[g].call, woken |-> TRUE,
                         kind |-> getters[g].kind, got |-> getters[g].got]
      BY <2>1, <2>4, WokenIsGetter
    <3> QED
      BY <3>1 DEF IsGetter
  <2> QED
    BY <2>2, <2>3, <2>4
<1> QED
  BY <1>1 DEF GettersKept, AddResult

LEMMA SendResponseKeeps ==
    ASSUME IInv, NEW k, NEW to, SendResponse(k, to)
    PROVE  IInv'
<1>1. calls' = [calls EXCEPT ![k].answers = IF @ = 0 THEN 1 ELSE 2]
  BY DEF SendResponse
<1>2. calls' \in Seq(CallRecord) /\ CallsKept
  <2>1. CASE k \in DOMAIN calls
    <3> DEFINE new == [calls[k] EXCEPT !.answers = IF @ = 0 THEN 1 ELSE 2]
    <3>1. calls[k] \in CallRecord
      BY <2>1 DEF IInv, CallTypes
    <3>2. new \in CallRecord /\ new.by = calls[k].by /\ new.uid = calls[k].uid
      BY <3>1 DEF CallRecord
    <3>3. calls' = [calls EXCEPT ![k] = new]
      BY <1>1
    <3> HIDE DEF new
    <3>4. calls' \in Seq(CallRecord)
      BY <2>1, <3>2, <3>3, ExceptSeq DEF IInv, CallTypes
    <3>5. CallsKept
      BY <2>1, <3>2, <3>3 DEF IInv, CallTypes, CallsKept
    <3> QED
      BY <3>4, <3>5
  <2>2. CASE k \notin DOMAIN calls
    <3>1. calls' = calls
      BY <1>1, <2>2 DEF IInv, CallTypes
    <3> QED
      BY <3>1 DEF IInv, CallTypes, CallsKept
  <2> QED
    BY <2>1, <2>2
<1>3. CallTypes'
  BY <1>2 DEF IInv, CallTypes, SendResponse
<1>4. GettersKept
  <2>1. UNCHANGED getters \/ \E c : AddResult(c, k)
    BY DEF SendResponse
  <2>2. UNCHANGED <<blocking, leaked>>
    BY DEF SendResponse
  <2> QED
    BY <2>1, <2>2, AddResultKeeps, SameGetters DEF getVars
<1> QED
  BY <1>2, <1>3, <1>4, Undisturbed

LEMMA ReceiveResponseKeeps ==
    ASSUME IInv, NEW c \in Clients, ReceiveResponse(c)
    PROVE  IInv'
<1>1. CallTypes'
  BY DEF IInv, CallTypes, ReceiveResponse, callerVars
<1>2. UNCHANGED getters \/ \E k : AddResult(c, k)
  BY DEF ReceiveResponse
<1>3. UNCHANGED <<calls, blocking, leaked>>
  BY DEF ReceiveResponse, callerVars
<1>4. CallsKept /\ GettersKept
  BY <1>2, <1>3, SameCalls, AddResultKeeps, SameGetters DEF getVars
<1> QED
  BY <1>1, <1>4, Undisturbed
-----------------------------------------------------------------------------
\* What the steps of a getter have in common: the calls stay, and so do the others.
LEMMA GetterSteps ==
    ASSUME IInv, NEW g \in Getters, NEW r, IsGetter(r),
           getters' = [getters EXCEPT ![g] = r], UNCHANGED callerVars
    PROVE  /\ CallTypes'
           /\ getters'[g] = r /\ \A h \in Getters : h # g => getters'[h] = getters[h]
           /\ getters' = [h \in Getters |-> getters'[h]]
           /\ \A h \in Getters : IsGetter(getters'[h])
           /\ \A h \in Getters : h # g =>
                 /\ Waiting(h)' = Waiting(h)
                 /\ Caller(h)' = Caller(h) /\ UidOf(h)' = UidOf(h)
<1>1. CallTypes' /\ calls' = calls
  BY DEF IInv, CallTypes, callerVars
<1>2. /\ getters'[g] = r /\ \A h \in Getters : h # g => getters'[h] = getters[h]
      /\ getters' = [h \in Getters |-> getters'[h]]
  BY DEF IInv, GetterTypes
<1>3. \A h \in Getters : IsGetter(getters'[h])
  BY <1>2 DEF IInv, GetterTypes
<1> QED
  BY <1>1, <1>2, <1>3 DEF Waiting, Caller, UidOf

\* A wait ends, and its uid is removed, or left as a cancelled wait's.
LEMMA EndKeeps ==
    ASSUME IInv, NEW g \in Getters, Waiting(g), NEW r, IsGetter(r), r.at = "out",
           getters' = [getters EXCEPT ![g] = r], UNCHANGED callerVars,
           \/ /\ blocking' = [blocking EXCEPT ![Caller(g)] = @ \ {UidOf(g)}]
              /\ leaked' = leaked
           \/ blocking' = blocking /\ leaked' = leaked \cup {<<Caller(g), UidOf(g)>>}
    PROVE  IInv'
<1> DEFINE c == Caller(g)  u == UidOf(g)
<1>1. c \in Callers /\ u \in Uids
  BY WaitsForACall
<1>2. CallTypes' /\ calls' = calls
  BY GetterSteps DEF callerVars
<1>3. ~ Waiting(g)'
  BY GetterSteps DEF Waiting
<1>4. \A h \in Getters : Waiting(h)' =>
         h # g /\ Waiting(h) /\ Caller(h)' = Caller(h) /\ UidOf(h)' = UidOf(h)
  BY <1>3, GetterSteps
<1>5. blocking' \in [Callers -> SUBSET Uids]
  BY DEF IInv, GetterTypes
<1>6. GetterTypes'
  BY <1>2, <1>4, <1>5, GetterSteps DEF IInv, GetterTypes
<1>7. OneWaits'
  BY <1>4 DEF IInv, OneWaits
<1>8. WaitingBlocks'
  <2> SUFFICES ASSUME NEW h \in Getters, Waiting(h)'
               PROVE  (UidOf(h) \in blocking[Caller(h)])'
    BY DEF WaitingBlocks
  <2>1. h # g /\ Waiting(h) /\ Caller(h)' = Caller(h) /\ UidOf(h)' = UidOf(h)
    BY <1>4
  <2>2. UidOf(h) \in blocking[Caller(h)] /\ (Caller(h) # c \/ UidOf(h) # u)
    BY <2>1 DEF IInv, WaitingBlocks, OneWaits
  <2>3. Caller(h) \in Callers
    BY <2>1, WaitsForACall
  <2>4. UidOf(h) \in blocking'[Caller(h)]
    BY <1>1, <2>2, <2>3 DEF IInv, GetterTypes
  <2>5. (UidOf(h) \in blocking[Caller(h)])' <=> UidOf(h)' \in blocking'[Caller(h)']
    OBVIOUS
  <2> QED
    BY <2>1, <2>4, <2>5
<1>9. BlockedHasCause'
  <2> SUFFICES ASSUME NEW d \in Callers, NEW v \in blocking'[d], <<d, v>> \notin leaked'
               PROVE  \E h \in Getters : (Waiting(h) /\ Caller(h) = d /\ UidOf(h) = v)'
    BY DEF BlockedHasCause
  <2>1. v \in blocking[d] /\ <<d, v>> \notin leaked /\ (d # c \/ v # u)
    BY <1>1 DEF IInv, GetterTypes
  <2>2. PICK h \in Getters : Waiting(h) /\ Caller(h) = d /\ UidOf(h) = v
    BY <2>1 DEF IInv, BlockedHasCause
  <2>3. h # g
    BY <2>1, <2>2
  <2> QED
    BY <2>2, <2>3, GetterSteps
<1> QED
  BY <1>2, <1>6, <1>7, <1>8, <1>9 DEF IInv

LEMMA OutIsGetter ==
    IsGetter(Out) /\ Out.at = "out"
BY DEF Out, IsGetter

LEMMA ReturnIsGetter ==
    ASSUME NEW k, NEW x, NEW r, r = [Out EXCEPT !.call = k, !.got = x]
    PROVE  IsGetter(r) /\ r.at = "out"
BY DEF Out, IsGetter

LEMMA GetEndsKeeps ==
    ASSUME IInv, NEW g \in Getters, Waiting(g), NEW x, GetEnds(g, x), UNCHANGED callerVars,
           UNCHANGED leaked
    PROVE  IInv'
<1> DEFINE r == IF x = 0 THEN Out ELSE [Out EXCEPT !.call = getters[g].call, !.got = x]
<1>1. IsGetter(r) /\ r.at = "out"
  <2>1. CASE x = 0
    BY <2>1, OutIsGetter
  <2>2. CASE x # 0
    <3>1. r = [Out EXCEPT !.call = getters[g].call, !.got = x]
      BY <2>2
    <3> QED
      BY <3>1, ReturnIsGetter
  <2> QED
    BY <2>1, <2>2
<1>2. getters' = [getters EXCEPT ![g] = r]
  BY DEF GetEnds
<1>3. blocking' = [blocking EXCEPT ![Caller(g)] = @ \ {UidOf(g)}]
  BY DEF GetEnds
<1> HIDE DEF r
<1> QED
  BY <1>1, <1>2, <1>3, EndKeeps

LEMMA GetterWakesKeeps ==
    ASSUME IInv, NEW g \in Getters, GetterWakes(g)
    PROVE  IInv'
<1>1. Waiting(g) /\ UNCHANGED callerVars /\ UNCHANGED leaked
  BY DEF GetterWakes, GetUnchanged, Waiting
<1>2. CASE GetEnds(g, GotFrom(Caller(g), UidOf(g)))
  BY <1>1, <1>2, GetEndsKeeps
<1>3. CASE getters' = [getters EXCEPT ![g].woken = FALSE] /\ UNCHANGED blocking
  <2>1. getters'[g] = [getters[g] EXCEPT !.woken = FALSE]
    BY <1>3 DEF IInv, GetterTypes
  <2>2. IsGetter(getters[g])
    BY DEF IInv, GetterTypes
  <2>3. /\ IsGetter(getters'[g]) /\ getters'[g].at = getters[g].at
        /\ getters'[g].call = getters[g].call
    <3>1. getters'[g] = [at |-> getters[g].at, call |-> getters[g].call, woken |-> FALSE,
                         kind |-> getters[g].kind, got |-> getters[g].got]
      BY <2>1, <2>2, WokenIsGetter
    <3> QED
      BY <3>1 DEF IsGetter
  <2>4. GettersKept
    BY <1>1, <1>3, <2>3 DEF IInv, GetterTypes, GettersKept
  <2>5. CallTypes' /\ CallsKept
    BY <1>1, SameCalls DEF IInv, CallTypes, callerVars
  <2> QED
    BY <2>4, <2>5, Undisturbed
<1> QED
  BY <1>2, <1>3 DEF GetterWakes

LEMMA GetterTimesOutKeeps ==
    ASSUME IInv, NEW g \in Getters, GetterTimesOut(g)
    PROVE  IInv'
BY GetEndsKeeps DEF GetterTimesOut, GetUnchanged, Waiting

LEMMA GetterCancelledKeeps ==
    ASSUME IInv, NEW g \in Getters, GetterCancelled(g)
    PROVE  IInv'
<1>1. Waiting(g) /\ UNCHANGED callerVars
  BY DEF GetterCancelled, GetUnchanged, Waiting
<1>2. CASE GetEnds(g, 0) /\ UNCHANGED leaked
  BY <1>1, <1>2, GetEndsKeeps
<1>3. CASE /\ getters' = [getters EXCEPT ![g] = Out]
           /\ leaked' = leaked \cup {<<Caller(g), UidOf(g)>>} /\ UNCHANGED blocking
  <2>1. IsGetter(Out) /\ Out.at = "out"
    BY OutIsGetter
  <2> QED
    BY <1>1, <1>3, <2>1, EndKeeps
<1> QED
  BY <1>2, <1>3 DEF GetterCancelled

LEMMA GetRpcResultKeeps ==
    ASSUME IInv, NEW g \in Getters, NEW k \in DOMAIN calls, NEW kind, GetRpcResult(g, k, kind)
    PROVE  IInv'
<1> DEFINE c == calls[k].by  u == calls[k].uid
           new == [Out EXCEPT !.at = "waiting", !.call = k, !.kind = kind]
<1>1. c \in Callers /\ u \in Uids
  <2>1. calls[k] \in CallRecord
    BY DEF IInv, CallTypes
  <2> QED
    BY <2>1 DEF CallRecord
<1>2. UNCHANGED callerVars /\ UNCHANGED leaked /\ ~ Waiting(g)
  BY DEF GetRpcResult, GetUnchanged, Waiting
\* it returns at once
<1>3. ASSUME NEW r, IsGetter(r), r.at = "out", getters' = [getters EXCEPT ![g] = r],
             UNCHANGED blocking
      PROVE  IInv'
  <2>1. CallTypes' /\ calls' = calls
    BY <1>2, <1>3, GetterSteps DEF callerVars
  <2>2. ~ Waiting(g)'
    BY <1>2, <1>3, GetterSteps DEF Waiting
  <2>3. \A h \in Getters : Waiting(h)' <=> Waiting(h)
    BY <1>2, <1>3, <2>2, GetterSteps
  <2>4. \A h \in Getters : Waiting(h) =>
            getters'[h] = getters[h] /\ Caller(h)' = Caller(h) /\ UidOf(h)' = UidOf(h)
    BY <1>2, <1>3, GetterSteps
  <2>5. GetterTypes'
    BY <1>2, <1>3, <2>1, <2>3, <2>4, GetterSteps DEF IInv, GetterTypes
  <2>6. OneWaits' /\ WaitingBlocks'
    BY <1>3, <2>3, <2>4 DEF IInv, OneWaits, WaitingBlocks
  <2>7. BlockedHasCause'
    BY <1>2, <1>3, <2>3, <2>4 DEF IInv, BlockedHasCause
  <2> QED
    BY <2>1, <2>5, <2>6, <2>7 DEF IInv
\* it waits: nobody else does for this uid
<1>4. ASSUME u \notin blocking[c], getters' = [getters EXCEPT ![g] = new],
             blocking' = [blocking EXCEPT ![c] = @ \cup {u}]
      PROVE  IInv'
  <2>1. IsGetter(new) /\ new.at = "waiting" /\ new.call = k
    <3> DEFINE r == new
    <3>1. r = [Out EXCEPT !.at = "waiting", !.call = k, !.kind = kind]
      OBVIOUS
    <3> HIDE DEF r
    <3>2. IsGetter(r) /\ r.at = "waiting" /\ r.call = k
      BY <3>1 DEF Out, IsGetter
    <3> QED
      BY <3>2 DEF r
  <2> HIDE DEF new
  <2>2. CallTypes' /\ calls' = calls
    BY <1>2, <1>4, <2>1, GetterSteps DEF callerVars
  <2>3. Waiting(g)' /\ Caller(g)' = c /\ UidOf(g)' = u /\ getters'[g].call = k
    BY <1>2, <1>4, <2>1, <2>2, GetterSteps DEF Waiting, Caller, UidOf
  <2>4. \A h \in Getters : h # g => getters'[h] = getters[h] /\ Waiting(h)' = Waiting(h)
            /\ Caller(h)' = Caller(h) /\ UidOf(h)' = UidOf(h)
    BY <1>2, <1>4, <2>1, GetterSteps
  <2>5. \A h \in Getters : Waiting(h) => Caller(h) # c \/ UidOf(h) # u
    BY <1>4 DEF IInv, WaitingBlocks
  <2>6. blocking' \in [Callers -> SUBSET Uids]
    BY <1>1, <1>4 DEF IInv, GetterTypes
  <2>7. GetterTypes'
    BY <1>2, <1>4, <2>1, <2>2, <2>3, <2>4, <2>6, GetterSteps DEF IInv, GetterTypes
  <2>8. OneWaits'
    BY <1>2, <2>3, <2>4, <2>5 DEF IInv, OneWaits
  <2>9. WaitingBlocks'
    <3> SUFFICES ASSUME NEW h \in Getters, Waiting(h)'
                 PROVE  UidOf(h)' \in blocking'[Caller(h)']
      BY DEF WaitingBlocks
    <3>1. CASE h = g
      BY <1>1, <1>4, <2>3, <3>1 DEF IInv, GetterTypes
    <3>2. CASE h # g
      <4>1. Waiting(h) /\ Caller(h) \in Callers /\ UidOf(h) \in blocking[Caller(h)]
        BY <2>4, <3>2, WaitsForACall DEF IInv, WaitingBlocks
      <4>2. UidOf(h) \in blocking'[Caller(h)]
        BY <1>4, <4>1 DEF IInv, GetterTypes
      <4> QED
        BY <2>4, <3>2, <4>2
    <3> QED
      BY <3>1, <3>2
  <2>10. BlockedHasCause'
    <3> SUFFICES ASSUME NEW d \in Callers, NEW v \in blocking'[d], <<d, v>> \notin leaked'
                 PROVE  \E h \in Getters : (Waiting(h) /\ Caller(h) = d /\ UidOf(h) = v)'
      BY DEF BlockedHasCause
    <3>1. CASE d = c /\ v = u
      BY <2>3, <3>1
    <3>2. CASE d # c \/ v # u
      <4>1. v \in blocking[d] /\ <<d, v>> \notin leaked
        BY <1>2, <1>4, <3>2 DEF IInv, GetterTypes
      <4>2. PICK h \in Getters : Waiting(h) /\ Caller(h) = d /\ UidOf(h) = v
        BY <4>1 DEF IInv, BlockedHasCause
      <4>3. h # g
        BY <1>2, <4>2
      <4> QED
        BY <2>4, <4>2, <4>3
    <3> QED
      BY <3>1, <3>2
  <2> QED
    BY <2>2, <2>7, <2>8, <2>9, <2>10 DEF IInv
<1>5. CASE u \in blocking[c]
  <2>1. getters' = [getters EXCEPT ![g] = Out]
    BY <1>5 DEF GetRpcResult
  <2>2. UNCHANGED blocking
    BY <1>1, <1>5 DEF GetRpcResult, IInv, GetterTypes
  <2> QED
    BY <1>3, <2>1, <2>2, OutIsGetter
<1>6. CASE u \notin blocking[c] /\ HasResult(c, u)
  <2>1. getters' = [getters EXCEPT ![g] = [Out EXCEPT !.call = k, !.got = GotFrom(c, u)]]
    BY <1>6 DEF GetRpcResult
  <2>2. UNCHANGED blocking
    BY <1>6 DEF GetRpcResult
  <2>3. /\ IsGetter([Out EXCEPT !.call = k, !.got = GotFrom(c, u)])
        /\ [Out EXCEPT !.call = k, !.got = GotFrom(c, u)].at = "out"
    BY ReturnIsGetter
  <2> QED
    BY <1>3, <2>1, <2>2, <2>3
<1>7. CASE u \notin blocking[c] /\ ~ HasResult(c, u)
  BY <1>4, <1>7 DEF GetRpcResult
<1> QED
  BY <1>5, <1>6, <1>7
LEMMA StepKeeps == IInv /\ [Next]_vars => IInv'
<1> SUFFICES ASSUME IInv, [Next]_vars PROVE IInv'
  OBVIOUS
<1>1. ASSUME NEW c \in Callers, CallRpc(c)
      PROVE  IInv'
  BY <1>1, CallRpcKeeps
<1>2. ASSUME NEW k, ProcessRpc(k)
      PROVE  IInv'
  BY <1>2, OthersKeep DEF ProcessRpc
<1>3. ASSUME NEW c \in Clients, Reconnect(c) \/ ReceiveResponse(c)
      PROVE  IInv'
  BY <1>3, ReconnectKeeps, ReceiveResponseKeeps
<1>4. CASE Start \/ StartThread \/ Stop \/ StopSteps
  BY <1>4, OthersKeep DEF Start, StartThread, Stop, StopSteps, StopNotifies, StopJoins, StopUnchanged
<1>5. ASSUME NEW t, Main(t) \/ CallbackThrows(t)
      PROVE  IInv'
  <2>1. CASE MainRuns(t) \/ MainWakes(t) \/ CallbackThrows(t)
    BY <2>1, OthersKeep DEF MainRuns, MainWakes, CallbackThrows
  <2>2. CASE CallbackReturns(t)
    BY <2>2, SendResponseKeeps DEF CallbackReturns
  <2> QED
    BY <1>5, <2>1, <2>2 DEF Main
<1>6. CASE PollRpc \/ PollTimesOut
  BY <1>6, OthersKeep DEF PollRpc, PollTimesOut
<1>7. ASSUME NEW p, PostSends(p) \/ PostRemoves(p) \/ \E k \in taken : PostRpcResponse(p, k)
      PROVE  IInv'
  <2>1. CASE PostSends(p)
    BY <2>1, SendResponseKeeps DEF PostSends
  <2>2. CASE PostRemoves(p) \/ \E k \in taken : PostRpcResponse(p, k)
    BY <2>2, OthersKeep DEF PostRemoves, PostRpcResponse
  <2> QED
    BY <1>7, <2>1, <2>2
<1>8. ASSUME NEW g \in Getters, NEW k \in DOMAIN calls, NEW kind, GetRpcResult(g, k, kind)
      PROVE  IInv'
  BY <1>8, GetRpcResultKeeps
<1>9. ASSUME NEW g \in Getters, GetterWakes(g) \/ GetterTimesOut(g) \/ GetterCancelled(g)
      PROVE  IInv'
  BY <1>9, GetterWakesKeeps, GetterTimesOutKeeps, GetterCancelledKeeps
<1>10. CASE UNCHANGED vars
  BY <1>10, OthersKeep DEF vars
<1> QED
  BY <1>1, <1>2, <1>3, <1>4, <1>5, <1>6, <1>7, <1>8, <1>9, <1>10 DEF Next

\* Whatever callers, threads and calls there are, however waits end and connections are
\* lost: a uid in m_blockingRpcCalls has one thread waiting for it, or was left there by a
\* cancelled wait, and no thread waits for a uid that is not there (Storage.cs:1113-1228).
THEOREM BlockingHolds == Spec => []BlockingIsWaited
<1>1. ASSUME IInv PROVE BlockingIsWaited
  <2> SUFFICES ASSUME NEW c \in Callers, NEW uid \in Uids
               PROVE  LET waiting == {g \in Getters : getters[g].at = "waiting"
                                                      /\ Caller(g) = c /\ UidOf(g) = uid}
                      IN /\ Cardinality(waiting) <= 1
                         /\ waiting # {} => uid \in blocking[c]
                         /\ uid \in blocking[c] => waiting # {} \/ <<c, uid>> \in leaked
    BY DEF BlockingIsWaited
  <2> DEFINE waiting == {g \in Getters : getters[g].at = "waiting" /\ Caller(g) = c /\ UidOf(g) = uid}
  <2>1. \A g, h \in waiting : g = h
    BY <1>1 DEF IInv, OneWaits, Waiting
  <2>2. waiting = {} \/ \E g : waiting = {g}
    BY <2>1
  <2>3. Cardinality(waiting) <= 1
    <3> HIDE DEF waiting
    <3>1. CASE waiting = {}
      BY <3>1, FS_EmptySet
    <3>2. ASSUME NEW g, waiting = {g} PROVE Cardinality(waiting) <= 1
      BY <3>2, FS_Singleton
    <3> QED
      BY <2>2, <3>1, <3>2
  <2>4. waiting # {} => uid \in blocking[c]
    BY <1>1 DEF IInv, WaitingBlocks, Waiting
  <2>5. uid \in blocking[c] => waiting # {} \/ <<c, uid>> \in leaked
    BY <1>1 DEF IInv, BlockedHasCause, Waiting
  <2> QED
    BY <2>3, <2>4, <2>5
<1>2. IInv => BlockingIsWaited
  BY <1>1
<1> QED
  BY Initially, StepKeeps, <1>2, PTL DEF Spec
-----------------------------------------------------------------------------
(* Whose answer a caller is given.  A response goes to the caller of another call only when *)
(* the two make one key of m_responseMap and PostRpcResponse finds the other's response     *)
(* there.  The second invariant follows a call from sent to pollQueue to taken, and says    *)
(* what has become of its entry once it was taken.                                          *)

IsCall(k) == k \in DOMAIN calls
SameKey(j, k) == KeyOf(j) = KeyOf(k)
Absent(k) == Keyed(k) \notin responses

ThreadRecord == [at : {"run", "wait", "calling", "ended", "faulted"}, woken : BOOLEAN, call : Nat]

\* A call is sent, queued and taken in turn, and once.
OnTheWay ==
    /\ \A k \in sent \cup taken : IsCall(k)
    /\ callQueue \in Seq(Nat) /\ \A i \in DOMAIN callQueue : IsCall(callQueue[i])
    /\ pollQueue \in Seq(Nat)
    /\ \A i \in DOMAIN pollQueue : IsCall(pollQueue[i]) /\ pollQueue[i] \notin sent \cup taken
    /\ \A i, j \in DOMAIN pollQueue : pollQueue[i] = pollQueue[j] => i = j
    /\ threads \in Seq(ThreadRecord)
    /\ \A t \in DOMAIN threads : threads[t].at = "calling" => IsCall(threads[t].call)
    /\ sent \cap taken = {}

\* No two clients ever have the same connection, and the server's own calls have connection 0.
OwnConns ==
    /\ \A c \in Clients : conn[c] < Cardinality(Clients) + losses
    /\ \A c, d \in Clients : c # d => conn[c] # conn[d]
    /\ \A k \in DOMAIN calls :
         /\ calls[k].by = Server => calls[k].conn = 0
         /\ calls[k].by # Server =>
              /\ calls[k].conn < Cardinality(Clients) + losses
              /\ \A c \in Clients \ {calls[k].by} : calls[k].conn # conn[c]
    /\ \A j, k \in DOMAIN calls :
         calls[j].conn = calls[k].conn =>
             calls[j].by = calls[k].by \/ calls[j].by = Server \/ calls[k].by = Server

\* A call that was taken and has no response in m_responseMap was answered, or another call
\* of its key was answered when its entry was there.
Keys ==
    /\ \A r \in responses : r.call \in taken /\ r = Keyed(r.call)
    /\ \A r, s \in responses : r.conn = s.conn /\ r.uid = s.uid => r = s
    /\ \A k \in taken :
         \/ ~ Absent(k) \/ calls[k].answers > 0
         \/ \E j \in taken \ {k} : SameKey(j, k) /\ Absent(j)

\* What PostRpcResponse found is the call's own, or a cause for it not to be.
PosterInv ==
    /\ posters \in [Posters -> [at : {"out", "found", "sent"}, call : Nat, to : Nat]]
    /\ \A p \in Posters : posters[p].at # "out" =>
         LET k == posters[p].call
             to == posters[p].to
         IN /\ k \in taken /\ to \in taken /\ SameKey(k, to)
            /\ posters[p].at = "found" =>
                  k = to \/ calls[k].answers > 0 \/ Repeated(k) \/ Repeated(to)
            /\ posters[p].at = "sent" => calls[k].answers > 0

\* The calls whose answers caller c may be given.
MayGet == [c \in Callers |->
    {k \in DOMAIN calls :
        \/ calls[k].by = c \/ calls[k].answers > 1 \/ Repeated(k)
        \/ \E to \in DOMAIN calls : calls[to].by = c /\ calls[to].uid = calls[k].uid /\ Repeated(to)}]

ResultsFit ==
    /\ results = [c \in Callers |-> results[c]]
    /\ \A c \in Callers : \A r \in results[c] : r.call \in MayGet[c] /\ r.uid = calls[r.call].uid

BackFits ==
    /\ back \in [Clients -> Seq(Nat)]
    /\ \A c \in Clients : \A i \in DOMAIN back[c] : back[c][i] \in MayGet[c]

GotFits ==
    \A g \in Getters : getters[g].got # 0 =>
        /\ getters[g].call \in DOMAIN calls
        /\ getters[g].got \in MayGet[calls[getters[g].call].by]
        /\ calls[getters[g].got].uid = calls[getters[g].call].uid

Given == ResultsFit /\ BackFits /\ GotFits

AnswerInv == IInv /\ OnTheWay /\ OwnConns /\ Keys /\ PosterInv /\ Given

LEMMA AnswersInitially == Init => AnswerInv
<1> SUFFICES ASSUME Init PROVE AnswerInv
  OBVIOUS
<1>1. OnTheWay
  BY DEF Init, OnTheWay
<1>2. OwnConns
  <2>1. \A c \in Clients : c \in Int /\ c - 1 < Cardinality(Clients)
    BY RpcAssumption, FS_Subset, FS_CardinalityType DEF Clients
  <2>2. DOMAIN calls = {} /\ losses = 0 /\ \A c \in Clients : conn[c] = c - 1
    BY DEF Init
  <2> QED
    BY <2>1, <2>2, RpcAssumption, FS_Subset, FS_CardinalityType DEF OwnConns, Clients
<1>3. Keys
  BY DEF Init, Keys
<1>4. PosterInv
  BY DEF Init, PosterInv
<1>5. Given
  BY DEF Init, Given, ResultsFit, BackFits, GotFits, Out
<1> QED
  BY <1>1, <1>2, <1>3, <1>4, <1>5, Initially DEF AnswerInv

\* No call is forgotten, and no answer taken back.
CallsGrow == \A k \in DOMAIN calls :
    /\ k \in DOMAIN calls' /\ calls'[k].by = calls[k].by /\ calls'[k].conn = calls[k].conn
    /\ calls'[k].uid = calls[k].uid /\ calls'[k].answers >= calls[k].answers

LEMMA CallFacts ==
    ASSUME IInv, NEW k \in DOMAIN calls
    PROVE  /\ calls[k] \in CallRecord /\ k \in Nat /\ k \in 1 .. Len(calls)
           /\ calls[k].by \in Callers /\ calls[k].uid \in Uids /\ calls[k].answers \in Nat
           /\ calls[k].conn \in Int
<1>1. calls[k] \in CallRecord /\ k \in 1 .. Len(calls)
  BY DEF IInv, CallTypes
<1> QED
  BY <1>1 DEF CallRecord

LEMMA Stay == IInv /\ UNCHANGED calls => CallsGrow
BY CallFacts DEF CallsGrow

\* What holds of calls goes on holding.
LEMMA Growing ==
    ASSUME IInv, IInv', CallsGrow, NEW k \in DOMAIN calls
    PROVE  /\ IsCall(k)' /\ KeyOf(k)' = KeyOf(k) /\ Keyed(k)' = Keyed(k)
           /\ calls[k].answers > 0 => calls'[k].answers > 0
           /\ calls[k].answers > 1 => calls'[k].answers > 1
           /\ Repeated(k) => Repeated(k)'
<1>1. calls[k] \in CallRecord /\ calls'[k] \in CallRecord
  BY DEF IInv, CallTypes, CallsGrow
<1>2. calls[k].answers \in Nat /\ calls'[k].answers \in Nat /\ calls'[k].answers >= calls[k].answers
  BY <1>1 DEF CallRecord, CallsGrow
<1>3. IsCall(k)' /\ KeyOf(k)' = KeyOf(k) /\ Keyed(k)' = Keyed(k)
  BY DEF CallsGrow, IsCall, KeyOf, Keyed
<1>4. \A j \in DOMAIN calls : Repeated(j) => Repeated(j)'
  BY DEF CallsGrow, Repeated
<1>5. (calls[k].answers > 0 => calls'[k].answers > 0) /\ (calls[k].answers > 1 => calls'[k].answers > 1)
  BY <1>2
<1> QED
  BY <1>3, <1>4, <1>5

LEMMA MayGetGrows ==
    ASSUME IInv, IInv', CallsGrow, NEW c \in Callers
    PROVE  MayGet[c] \subseteq MayGet'[c] /\ MayGet[c] \subseteq DOMAIN calls
<1> SUFFICES ASSUME NEW k \in MayGet[c]
             PROVE  k \in MayGet'[c] /\ k \in DOMAIN calls
  OBVIOUS
<1>1. k \in DOMAIN calls
  BY DEF MayGet
<1>2. CASE calls[k].by = c \/ calls[k].answers > 1 \/ Repeated(k)
  BY <1>1, <1>2, Growing DEF MayGet, CallsGrow
<1>3. ASSUME NEW to \in DOMAIN calls, calls[to].by = c, calls[to].uid = calls[k].uid, Repeated(to)
      PROVE  k \in MayGet'[c]
  BY <1>1, <1>3, Growing DEF MayGet, CallsGrow
<1> QED
  BY <1>1, <1>2, <1>3 DEF MayGet

\* What a step leaves alone stays true.
LEMMA WayStays ==
    ASSUME AnswerInv, IInv', CallsGrow, UNCHANGED <<sent, taken, callQueue, pollQueue, threads>>
    PROVE  OnTheWay'
BY DEF AnswerInv, OnTheWay, CallsGrow, IsCall

LEMMA ConnsStay ==
    ASSUME AnswerInv, UNCHANGED <<conn, losses>>, DOMAIN calls' = DOMAIN calls, CallsGrow
    PROVE  OwnConns'
<1>1. \A k \in DOMAIN calls : calls'[k].by = calls[k].by /\ calls'[k].conn = calls[k].conn
  BY DEF CallsGrow
<1>2. OwnConns
  BY DEF AnswerInv
<1> QED
  BY <1>1, <1>2 DEF OwnConns

LEMMA KeysStay ==
    ASSUME AnswerInv, IInv', CallsGrow, UNCHANGED <<responses, taken>>
    PROVE  Keys'
<1>1. \A k \in taken : /\ IsCall(k) /\ Keyed(k)' = Keyed(k) /\ KeyOf(k)' = KeyOf(k)
                       /\ (calls[k].answers > 0 => calls'[k].answers > 0)
  BY Growing DEF AnswerInv, OnTheWay, IsCall
<1>2. \A r \in responses : r.call \in taken /\ r = Keyed(r.call)
  BY DEF AnswerInv, Keys
<1>3. \A r \in responses' : r.call \in taken' /\ r = Keyed(r.call)'
  BY <1>1, <1>2
<1>4. \A k \in taken : (Absent(k)' <=> Absent(k)) /\ \A j \in taken : SameKey(j, k) => SameKey(j, k)'
  BY <1>1 DEF Absent, SameKey
<1>5. ASSUME NEW k \in taken
      PROVE  \/ ~ Absent(k)' \/ calls'[k].answers > 0
             \/ \E j \in taken \ {k} : SameKey(j, k)' /\ Absent(j)'
  BY <1>1, <1>4 DEF AnswerInv, Keys
<1> QED
  BY <1>3, <1>5 DEF AnswerInv, Keys

LEMMA PostersStay ==
    ASSUME AnswerInv, IInv', CallsGrow, UNCHANGED posters, taken \subseteq taken'
    PROVE  PosterInv'
<1>1. \A k \in taken : /\ IsCall(k) /\ KeyOf(k)' = KeyOf(k)
                       /\ (calls[k].answers > 0 => calls'[k].answers > 0)
                       /\ (Repeated(k) => Repeated(k)')
  BY Growing DEF AnswerInv, OnTheWay, IsCall
<1>2. \A j, k \in taken : SameKey(j, k) => SameKey(j, k)'
  BY <1>1 DEF SameKey
<1> QED
  BY <1>1, <1>2 DEF AnswerInv, PosterInv

LEMMA Fitting ==
    ASSUME AnswerInv, IInv', CallsGrow
    PROVE  /\ ResultsFit /\ BackFits /\ GotFits
           /\ \A c \in Callers : MayGet[c] \subseteq MayGet'[c] /\ MayGet[c] \subseteq DOMAIN calls
           /\ \A k \in DOMAIN calls : k \in DOMAIN calls' /\ calls'[k].by = calls[k].by
                                      /\ calls'[k].uid = calls[k].uid /\ calls[k].by \in Callers
BY MayGetGrows, CallFacts DEF AnswerInv, CallsGrow, Given

LEMMA ResultsStay ==
    ASSUME AnswerInv, IInv', CallsGrow, UNCHANGED results
    PROVE  ResultsFit'
BY Fitting DEF ResultsFit

LEMMA BackStays ==
    ASSUME AnswerInv, IInv', CallsGrow, UNCHANGED back
    PROVE  BackFits'
BY Fitting DEF BackFits, Clients

LEMMA GotStays ==
    ASSUME AnswerInv, IInv', CallsGrow,
           \A g \in Getters : getters'[g].got = getters[g].got /\ getters'[g].call = getters[g].call
    PROVE  GotFits'
BY Fitting DEF GotFits

LEMMA GivenStays ==
    ASSUME AnswerInv, IInv', CallsGrow, UNCHANGED <<results, back, getters>>
    PROVE  Given'
BY ResultsStay, BackStays, GotStays DEF Given
-----------------------------------------------------------------------------
LEMMA CallRpcAnswers ==
    ASSUME AnswerInv, NEW c \in Callers, CallRpc(c)
    PROVE  AnswerInv'
<1>1. IInv' /\ IInv
  BY CallRpcKeeps DEF AnswerInv
<1> DEFINE call == [by |-> c, conn |-> IF c = Server THEN 0 ELSE conn[c], uid |-> uids'[c],
                    answers |-> 0]
           new == Len(calls) + 1
<1>2. /\ calls' = Append(calls, call) /\ call.by = c
      /\ (c = Server => call.conn = 0) /\ (c # Server => call.conn = conn[c])
  BY DEF CallRpc
<1> HIDE DEF call
<1>3. calls \in Seq(CallRecord) /\ calls' \in Seq(CallRecord)
  BY <1>1 DEF IInv, CallTypes
<1>4. /\ DOMAIN calls' = DOMAIN calls \cup {new} /\ new \notin DOMAIN calls /\ new \in Nat
      /\ \A k \in DOMAIN calls : calls'[k] = calls[k]
      /\ calls'[new] = call /\ Len(calls') = new
  <2>1. call \in CallRecord
    <3>1. new \in 1 .. Len(calls') /\ calls'[new] = call
      BY <1>2, <1>3
    <3> QED
      BY <1>3, <3>1
  <2> QED
    BY <1>2, <1>3, <2>1
<1>5. CallsGrow
  BY <1>1, <1>4, CallFacts DEF CallsGrow
<1>6. OnTheWay'
  <2>1. sent' = sent \cup {new}
    BY <1>4 DEF CallRpc
  <2>2. UNCHANGED <<taken, callQueue, pollQueue, threads>>
    BY DEF CallRpc, threadVars, pollVars
  <2> HIDE DEF new
  <2> QED
    BY <1>4, <2>1, <2>2 DEF AnswerInv, OnTheWay, IsCall
<1>7. OwnConns'
  <2>1. UNCHANGED <<conn, losses>> /\ OwnConns
    BY DEF CallRpc, AnswerInv
  <2>2. c # Server => c \in Clients
    BY DEF Clients
  <2> HIDE DEF new
  <2>3. ASSUME NEW k \in DOMAIN calls'
        PROVE  /\ calls'[k].by = Server => calls'[k].conn = 0
               /\ calls'[k].by # Server =>
                    /\ calls'[k].conn < Cardinality(Clients) + losses
                    /\ \A d \in Clients \ {calls'[k].by} : calls'[k].conn # conn[d]
    BY <1>2, <1>4, <2>1, <2>2 DEF OwnConns
  <2>4. ASSUME NEW j \in DOMAIN calls', NEW k \in DOMAIN calls', calls'[j].conn = calls'[k].conn
        PROVE  calls'[j].by = calls'[k].by \/ calls'[j].by = Server \/ calls'[k].by = Server
    <3>1. CASE j \in DOMAIN calls /\ k \in DOMAIN calls
      BY <1>4, <2>1, <2>4, <3>1 DEF OwnConns
    <3>2. CASE j = new /\ k = new
      BY <3>2
    <3>3. CASE j = new /\ k \in DOMAIN calls
      BY <1>2, <1>4, <2>1, <2>2, <2>4, <3>3 DEF OwnConns
    <3>4. CASE k = new /\ j \in DOMAIN calls
      BY <1>2, <1>4, <2>1, <2>2, <2>4, <3>4 DEF OwnConns
    <3> QED
      BY <1>4, <3>1, <3>2, <3>3, <3>4
  <2> QED
    BY <2>1, <2>3, <2>4 DEF OwnConns
<1>8. Keys' /\ PosterInv'
  BY <1>1, <1>5, KeysStay, PostersStay DEF CallRpc, pollVars
<1>9. Given'
  BY <1>1, <1>5, GivenStays DEF CallRpc, getVars
<1> QED
  BY <1>1, <1>6, <1>7, <1>8, <1>9 DEF AnswerInv

\* Threads that are woken stay where they are.
LEMMA WakingThreads ==
    ASSUME OnTheWay,
           threads' = [t \in DOMAIN threads |-> [threads[t] EXCEPT !.woken = @ \/ threads[t].at = "wait"]]
    PROVE  /\ threads' \in Seq(ThreadRecord) /\ DOMAIN threads' = DOMAIN threads
           /\ \A t \in DOMAIN threads : threads'[t].at = threads[t].at /\ threads'[t].call = threads[t].call
<1>1. threads \in Seq(ThreadRecord) /\ DOMAIN threads = 1 .. Len(threads) /\ Len(threads) \in Nat
  BY DEF OnTheWay
<1>2. ASSUME NEW t \in DOMAIN threads
      PROVE  /\ threads'[t] \in ThreadRecord
             /\ threads'[t].at = threads[t].at /\ threads'[t].call = threads[t].call
  <2> DEFINE r == threads[t]
             w == r.woken \/ r.at = "wait"
  <2>1. r \in ThreadRecord
    BY <1>1
  <2>2. threads'[t] = [r EXCEPT !.woken = w]
    BY DEF r, w
  <2>3. w \in BOOLEAN
    OBVIOUS
  <2> HIDE DEF r, w
  <2>4. threads'[t] = [at |-> r.at, woken |-> w, call |-> r.call]
    BY <2>1, <2>2 DEF ThreadRecord
  <2> QED
    BY <2>1, <2>3, <2>4 DEF ThreadRecord, r
<1>3. threads' \in [1 .. Len(threads) -> ThreadRecord]
  BY <1>1, <1>2
<1> QED
  BY <1>1, <1>2, <1>3

LEMMA ProcessRpcAnswers ==
    ASSUME AnswerInv, NEW k, ProcessRpc(k)
    PROVE  AnswerInv'
<1>1. IInv' /\ IInv /\ OnTheWay
  BY OthersKeep DEF AnswerInv, ProcessRpc
<1>2. UNCHANGED calls /\ CallsGrow
  BY <1>1, Stay DEF ProcessRpc, callerVars
<1>3. k \in sent /\ IsCall(k) /\ k \in Nat /\ sent' = sent \ {k} /\ taken' = taken
  BY <1>1, CallFacts DEF ProcessRpc, OnTheWay, IsCall
<1>4. OnTheWay'
  <2>1. CASE polled
    <3>1. pollQueue' = Append(pollQueue, k) /\ UNCHANGED <<callQueue, threads>>
      BY <2>1 DEF ProcessRpc
    <3>2. /\ pollQueue' \in Seq(Nat) /\ DOMAIN pollQueue' = DOMAIN pollQueue \cup {Len(pollQueue) + 1}
          /\ \A i \in DOMAIN pollQueue : pollQueue'[i] = pollQueue[i] /\ pollQueue[i] # k
          /\ pollQueue'[Len(pollQueue) + 1] = k /\ Len(pollQueue) + 1 \notin DOMAIN pollQueue
      BY <1>1, <1>3, <3>1 DEF OnTheWay
    <3>3. ASSUME NEW i \in DOMAIN pollQueue'
          PROVE  pollQueue'[i] \in DOMAIN calls' /\ pollQueue'[i] \notin sent' \cup taken'
      <4>1. CASE i \in DOMAIN pollQueue
        BY <1>1, <1>2, <1>3, <3>2, <4>1 DEF OnTheWay, IsCall
      <4>2. CASE i = Len(pollQueue) + 1
        BY <1>1, <1>2, <1>3, <3>2, <4>2 DEF OnTheWay, IsCall
      <4> QED
        BY <3>2, <4>1, <4>2
    <3>4. \A i, j \in DOMAIN pollQueue' : pollQueue'[i] = pollQueue'[j] => i = j
      BY <1>1, <3>2 DEF OnTheWay
    <3> QED
      BY <1>1, <1>2, <1>3, <3>1, <3>2, <3>3, <3>4 DEF OnTheWay, IsCall
  <2>2. CASE ~ polled
    <3>1. /\ callQueue' = Append(callQueue, k) /\ UNCHANGED pollQueue
          /\ threads' = [t \in DOMAIN threads |->
                           [threads[t] EXCEPT !.woken = @ \/ threads[t].at = "wait"]]
      BY <2>2 DEF ProcessRpc
    <3>2. callQueue' \in Seq(Nat) /\ \A i \in DOMAIN callQueue' : IsCall(callQueue'[i])
      BY <1>1, <1>3, <3>1 DEF OnTheWay
    <3>3. /\ threads' \in Seq(ThreadRecord) /\ DOMAIN threads' = DOMAIN threads
          /\ \A t \in DOMAIN threads : threads'[t].at = threads[t].at /\ threads'[t].call = threads[t].call
      BY <1>1, <3>1, WakingThreads
    <3> QED
      BY <1>1, <1>2, <1>3, <3>1, <3>2, <3>3 DEF OnTheWay, IsCall
  <2> QED
    BY <2>1, <2>2
<1>5. OwnConns'
  BY <1>2, ConnsStay DEF ProcessRpc, callerVars
<1>6. Keys' /\ PosterInv'
  BY <1>1, <1>2, KeysStay, PostersStay DEF ProcessRpc
<1>7. Given'
  BY <1>1, <1>2, GivenStays DEF ProcessRpc, getVars
<1> QED
  BY <1>1, <1>4, <1>5, <1>6, <1>7 DEF AnswerInv

LEMMA ReconnectAnswers ==
    ASSUME AnswerInv, NEW c \in Clients, Reconnect(c)
    PROVE  AnswerInv'
<1>1. IInv' /\ IInv
  BY ReconnectKeeps DEF AnswerInv
<1>2. UNCHANGED calls /\ CallsGrow
  BY <1>1, Stay DEF Reconnect
<1>3. OnTheWay'
  BY <1>2 DEF Reconnect, threadVars, pollVars, AnswerInv, OnTheWay, IsCall
<1>4. OwnConns'
  <2> DEFINE n == Cardinality(Clients)
  <2>1. n \in Nat
    BY RpcAssumption, FS_Subset, FS_CardinalityType DEF Clients
  <2> HIDE DEF n
  <2>2. losses \in Nat /\ losses' = losses + 1 /\ conn' = [conn EXCEPT ![c] = n + losses]
        /\ conn \in [Clients -> Int]
    BY <1>1 DEF Reconnect, IInv, CallTypes, n
  <2>3. /\ \A d \in Clients : conn[d] < n + losses
        /\ \A d, e \in Clients : d # e => conn[d] # conn[e]
        /\ \A k \in DOMAIN calls : calls[k].by # Server => calls[k].conn < n + losses
        /\ \A k \in DOMAIN calls : calls[k].conn \in Int
    BY <1>1, CallFacts DEF AnswerInv, OwnConns, n
  <2>4. \A d \in Clients : conn'[d] = IF d = c THEN n + losses ELSE conn[d]
    BY <2>2
  <2>5. (\A d \in Clients : conn'[d] < n + losses') /\ \A d, e \in Clients : d # e => conn'[d] # conn'[e]
    BY <2>1, <2>2, <2>3, <2>4
  <2>6. ASSUME NEW k \in DOMAIN calls, calls[k].by # Server
        PROVE  calls[k].conn < n + losses' /\ \A d \in Clients \ {calls[k].by} : calls[k].conn # conn'[d]
    BY <2>1, <2>2, <2>3, <2>4, <2>6 DEF AnswerInv, OwnConns
  <2> QED
    BY <1>2, <2>5, <2>6 DEF AnswerInv, OwnConns, n
<1>5. Keys' /\ PosterInv'
  BY <1>1, <1>2, KeysStay, PostersStay DEF Reconnect, pollVars
<1>6. Given'
  <2>1. BackFits'
    <3>1. back' = [back EXCEPT ![c] = <<>>] /\ BackFits /\ \A d \in Callers : MayGet[d] \subseteq MayGet'[d]
      BY <1>1, <1>2, Fitting DEF Reconnect
    <3> QED
      BY <3>1 DEF BackFits, Clients
  <2> QED
    BY <1>1, <1>2, <2>1, ResultsStay, GotStays DEF Given, Reconnect, getVars
<1> QED
  BY <1>1, <1>3, <1>4, <1>5, <1>6 DEF AnswerInv
-----------------------------------------------------------------------------
\* A response is sent.
LEMMA ResponseGrows ==
    ASSUME IInv, NEW k \in DOMAIN calls, NEW to, SendResponse(k, to)
    PROVE  /\ CallsGrow /\ DOMAIN calls' = DOMAIN calls
           /\ calls'[k].answers > 0 /\ (calls[k].answers > 0 => calls'[k].answers > 1)
<1>1. calls' = [calls EXCEPT ![k].answers = IF @ = 0 THEN 1 ELSE 2]
  BY DEF SendResponse
<1>2. calls \in Seq(CallRecord) /\ calls[k] \in CallRecord /\ calls[k].answers \in 0 .. 2
      /\ \A j \in DOMAIN calls : calls[j] \in CallRecord
  BY CallFacts DEF IInv, CallTypes, CallRecord
<1> DEFINE new == [calls[k] EXCEPT !.answers = IF @ = 0 THEN 1 ELSE 2]
<1>3. /\ new.by = calls[k].by /\ new.conn = calls[k].conn /\ new.uid = calls[k].uid
      /\ new.answers = IF calls[k].answers = 0 THEN 1 ELSE 2
  BY <1>2 DEF CallRecord
<1>4. DOMAIN calls' = DOMAIN calls /\ calls'[k] = new /\ \A j \in DOMAIN calls : j # k => calls'[j] = calls[j]
  BY <1>1, <1>2
<1> HIDE DEF new
<1>5. CallsGrow
  <2> SUFFICES ASSUME NEW j \in DOMAIN calls
               PROVE  /\ calls'[j].by = calls[j].by /\ calls'[j].conn = calls[j].conn
                      /\ calls'[j].uid = calls[j].uid /\ calls'[j].answers >= calls[j].answers
    BY <1>4 DEF CallsGrow
  <2>1. CASE j = k
    BY <1>2, <1>3, <1>4, <2>1
  <2>2. CASE j # k
    BY <1>2, <1>4, <2>2 DEF CallRecord
  <2> QED
    BY <2>1, <2>2
<1> QED
  BY <1>2, <1>3, <1>4, <1>5

\* A result is added, whose call is one that its caller may be given the answer to.
LEMMA ResultFits ==
    ASSUME AnswerInv, IInv', CallsGrow, NEW c \in Callers, NEW k \in DOMAIN calls, k \in MayGet'[c],
           AddResult(c, k)
    PROVE  /\ ResultsFit'
           /\ \A g \in Getters : getters'[g].got = getters[g].got /\ getters'[g].call = getters[g].call
<1>1. ResultsFit'
  <2>1. results' = [results EXCEPT ![c] = @ \cup {[uid |-> calls[k].uid, call |-> k]}]
    BY DEF AddResult
  <2>2. ResultsFit /\ calls'[k].uid = calls[k].uid
    BY Fitting
  <2>3. /\ results' = [d \in Callers |-> results'[d]]
        /\ results'[c] = results[c] \cup {[uid |-> calls[k].uid, call |-> k]}
        /\ \A d \in Callers : d # c => results'[d] = results[d]
    BY <2>1, <2>2 DEF ResultsFit
  <2>4. ASSUME NEW d \in Callers, NEW r \in results'[d]
        PROVE  r.call \in MayGet'[d] /\ r.uid = calls'[r.call].uid
    <3>1. CASE r \in results[d]
      BY <3>1, Fitting DEF ResultsFit
    <3>2. CASE r = [uid |-> calls[k].uid, call |-> k] /\ d = c
      BY <2>2, <3>2
    <3> QED
      BY <2>3, <3>1, <3>2
  <2> QED
    BY <2>3, <2>4 DEF ResultsFit
<1>2. ASSUME NEW g \in Getters
      PROVE  getters'[g].got = getters[g].got /\ getters'[g].call = getters[g].call
  <2>1. IsGetter(getters[g])
    BY DEF AnswerInv, IInv, GetterTypes
  <2>2. getters'[g] = getters[g] \/ getters'[g] = [getters[g] EXCEPT !.woken = TRUE]
    BY DEF AddResult
  <2>3. CASE getters'[g] = [getters[g] EXCEPT !.woken = TRUE]
    <3>1. getters'[g] = [at |-> getters[g].at, call |-> getters[g].call, woken |-> TRUE,
                         kind |-> getters[g].kind, got |-> getters[g].got]
      BY <2>1, <2>3, WokenIsGetter
    <3> QED
      BY <3>1
  <2> QED
    BY <2>2, <2>3
<1> QED
  BY <1>1, <1>2

LEMMA SendResponseAnswers ==
    ASSUME AnswerInv, NEW k \in DOMAIN calls, NEW to \in DOMAIN calls, SendResponse(k, to),
           k \in MayGet'[calls[to].by]
    PROVE  IInv' /\ CallsGrow /\ OwnConns' /\ Given'
<1> DEFINE c == calls[to].by
<1>1. IInv /\ IInv' /\ CallsGrow /\ DOMAIN calls' = DOMAIN calls
  BY ResponseGrows, SendResponseKeeps DEF AnswerInv
<1>2. OwnConns'
  BY <1>1, ConnsStay DEF SendResponse
<1>3. c \in Callers /\ k \in Nat
  BY <1>1, CallFacts
<1>4. CASE c = Server
  <2>1. UNCHANGED back /\ (UNCHANGED <<results, getters>> \/ AddResult(c, k))
    BY <1>4 DEF SendResponse
  <2> HIDE DEF c
  <2>2. BackFits'
    BY <1>1, <2>1, BackStays
  <2>3. CASE UNCHANGED <<results, getters>>
    BY <1>1, <1>2, <2>2, <2>3, ResultsStay, GotStays DEF Given
  <2>4. CASE AddResult(c, k)
    <3>1. k \in MayGet'[c]
      BY DEF c
    <3> QED
      BY <1>1, <1>2, <1>3, <2>2, <2>4, <3>1, ResultFits, GotStays DEF Given
  <2> QED
    BY <2>1, <2>3, <2>4
<1>5. CASE c # Server
  <2>1. /\ UNCHANGED <<results, getters>>
        /\ back' = [back EXCEPT ![c] = Append(@, k)] \/ back' = back
    BY <1>5 DEF SendResponse
  <2>2. k \in MayGet'[c] /\ c \in Clients
    BY <1>3, <1>5 DEF Clients
  <2> HIDE DEF c
  <2>3. BackFits'
    <3>1. CASE back' = back
      BY <1>1, <3>1, BackStays
    <3>2. CASE back' = [back EXCEPT ![c] = Append(@, k)]
      <4>1. BackFits /\ \A d \in Callers : MayGet[d] \subseteq MayGet'[d]
        BY <1>1, Fitting
      <4>2. /\ back' \in [Clients -> Seq(Nat)] /\ back'[c] = Append(back[c], k)
            /\ \A d \in Clients : d # c => back'[d] = back[d]
        BY <1>3, <2>2, <3>2, <4>1 DEF BackFits
      <4>3. ASSUME NEW d \in Clients, NEW i \in DOMAIN back'[d]
            PROVE  back'[d][i] \in MayGet'[d]
        <5>1. CASE d # c
          BY <4>1, <4>2, <5>1 DEF BackFits, Clients
        <5>2. CASE d = c /\ i \in DOMAIN back[c]
          <6>1. back[c] \in Seq(Nat)
            BY <2>2, <4>1 DEF BackFits
          <6>2. Append(back[c], k)[i] = back[c][i]
            BY <1>3, <5>2, <6>1
          <6> QED
            BY <2>2, <4>1, <4>2, <5>2, <6>2 DEF BackFits, Clients
        <5>3. CASE d = c /\ i \notin DOMAIN back[c]
          <6>1. back[c] \in Seq(Nat)
            BY <2>2, <4>1 DEF BackFits
          <6>2. back'[d][i] = k
            BY <1>3, <4>2, <5>3, <6>1
          <6> QED
            BY <2>2, <5>3, <6>2
        <5> QED
          BY <5>1, <5>2, <5>3
      <4> QED
        BY <4>2, <4>3 DEF BackFits
    <3> QED
      BY <2>1, <3>1, <3>2
  <2> QED
    BY <1>1, <1>2, <2>1, <2>3, ResultsStay, GotStays DEF Given
<1> QED
  BY <1>1, <1>2, <1>4, <1>5

LEMMA ReceiveResponseAnswers ==
    ASSUME AnswerInv, NEW c \in Clients, ReceiveResponse(c)
    PROVE  AnswerInv'
<1>1. IInv /\ IInv'
  BY ReceiveResponseKeeps DEF AnswerInv
<1>2. UNCHANGED calls /\ CallsGrow
  BY <1>1, Stay DEF ReceiveResponse, callerVars
<1>3. OnTheWay' /\ OwnConns'
  BY <1>1, <1>2, WayStays, ConnsStay DEF ReceiveResponse, callerVars, threadVars, pollVars
<1>4. Keys' /\ PosterInv'
  BY <1>1, <1>2, KeysStay, PostersStay DEF ReceiveResponse, pollVars
<1>5. BackFits /\ c \in Callers /\ \A d \in Callers : MayGet[d] \subseteq MayGet'[d] /\ MayGet[d] \subseteq DOMAIN calls
  BY <1>1, <1>2, Fitting DEF Clients
<1>6. back[c] # <<>> /\ back[c] \in Seq(Nat) /\ back' = [back EXCEPT ![c] = Tail(@)]
  BY <1>5 DEF ReceiveResponse, BackFits
<1>7. BackFits'
  <2>1. /\ back' \in [Clients -> Seq(Nat)]
        /\ \A i \in DOMAIN back'[c] : i + 1 \in DOMAIN back[c] /\ back'[c][i] = back[c][i + 1]
        /\ \A d \in Clients : d # c => back'[d] = back[d]
    BY <1>5, <1>6 DEF BackFits
  <2> QED
    BY <1>5, <2>1 DEF BackFits, Clients
<1>8. ResultsFit' /\ GotFits'
  <2> DEFINE k == Head(back[c])
  <2>1. k = back[c][1] /\ 1 \in DOMAIN back[c]
    BY <1>6
  <2>2. k \in MayGet'[c] /\ k \in DOMAIN calls
    BY <1>5, <2>1 DEF BackFits
  <2>3. UNCHANGED <<results, getters>> \/ AddResult(c, k)
    BY DEF ReceiveResponse
  <2> HIDE DEF k
  <2>4. CASE UNCHANGED <<results, getters>>
    BY <1>1, <1>2, <2>4, ResultsStay, GotStays
  <2>5. CASE AddResult(c, k)
    BY <1>1, <1>2, <1>5, <2>2, <2>5, ResultFits, GotStays
  <2> QED
    BY <2>3, <2>4, <2>5
<1> QED
  BY <1>1, <1>3, <1>4, <1>7, <1>8 DEF AnswerInv, Given
-----------------------------------------------------------------------------
\* Steps of threads that change neither calls nor what was said of them.
LEMMA ThreadMoves ==
    ASSUME OnTheWay, NEW t \in DOMAIN threads, NEW k \in Nat,
           NEW place \in {"run", "wait", "calling", "ended", "faulted"},
           ThreadIs(t, place, k), place = "calling" => IsCall(k)
    PROVE  /\ threads' \in Seq(ThreadRecord)
           /\ \A u \in DOMAIN threads' : threads'[u].at = "calling" => IsCall(threads'[u].call)
<1> DEFINE r == [at |-> place, woken |-> FALSE, call |-> k]
<1>1. r \in ThreadRecord /\ r.at = place /\ r.call = k
  BY DEF ThreadRecord
<1>2. threads' = [threads EXCEPT ![t] = r] /\ threads \in Seq(ThreadRecord)
  BY DEF ThreadIs, OnTheWay
<1> HIDE DEF r
<1>3. threads' \in Seq(ThreadRecord)
  BY <1>1, <1>2, ExceptSeq
<1>4. DOMAIN threads' = DOMAIN threads /\ threads'[t] = r /\ \A u \in DOMAIN threads : u # t => threads'[u] = threads[u]
  BY <1>2
<1> QED
  BY <1>1, <1>3, <1>4 DEF OnTheWay

LEMMA OthersAnswer ==
    ASSUME AnswerInv, OnTheWay',
           UNCHANGED <<callerVars, getVars, back, results, responses, taken, posters>>
    PROVE  AnswerInv'
<1>1. IInv /\ IInv'
  BY OthersKeep DEF AnswerInv
<1>2. UNCHANGED calls /\ CallsGrow
  BY <1>1, Stay DEF callerVars
<1>3. OwnConns' /\ Keys' /\ PosterInv' /\ Given'
  BY <1>1, <1>2, ConnsStay, KeysStay, PostersStay, GivenStays DEF callerVars, getVars
<1> QED
  BY <1>1, <1>3 DEF AnswerInv

LEMMA StartStopAnswers ==
    ASSUME AnswerInv, Start \/ StartThread \/ Stop \/ StopNotifies \/ StopJoins
    PROVE  AnswerInv'
<1>1. OnTheWay /\ UNCHANGED <<calls, sent, taken, callQueue, pollQueue>>
  BY DEF AnswerInv, Start, StartThread, Stop, StopNotifies, StopJoins, StopUnchanged, callerVars, pollVars
<1>2. /\ threads' \in Seq(ThreadRecord)
      /\ \A t \in DOMAIN threads' : threads'[t].at = "calling" => IsCall(threads'[t].call)
  <2>1. CASE Start \/ Stop \/ StopJoins
    BY <1>1, <2>1 DEF OnTheWay, Start, Stop, StopJoins
  <2>2. CASE StartThread
    <3> DEFINE r == [at |-> "run", woken |-> FALSE, call |-> 0]
    <3>1. r \in ThreadRecord /\ r.at # "calling" /\ threads' = Append(threads, r)
      BY <2>2 DEF ThreadRecord, StartThread
    <3> HIDE DEF r
    <3>2. threads \in Seq(ThreadRecord)
      BY <1>1 DEF OnTheWay
    <3>3. /\ threads' \in Seq(ThreadRecord)
          /\ \A t \in DOMAIN threads' : threads'[t] = r \/ (t \in DOMAIN threads /\ threads'[t] = threads[t])
      BY <3>1, <3>2
    <3> QED
      BY <1>1, <3>1, <3>3 DEF OnTheWay
  <2>3. CASE StopNotifies
    <3>1. threads' = [t \in DOMAIN threads |-> [threads[t] EXCEPT !.woken = @ \/ threads[t].at = "wait"]]
      BY <2>3 DEF StopNotifies
    <3>2. /\ threads' \in Seq(ThreadRecord) /\ DOMAIN threads' = DOMAIN threads
          /\ \A t \in DOMAIN threads : threads'[t].at = threads[t].at /\ threads'[t].call = threads[t].call
      BY <1>1, <3>1, WakingThreads
    <3> QED
      BY <1>1, <3>2 DEF OnTheWay
  <2> QED
    BY <2>1, <2>2, <2>3
<1>3. OnTheWay'
  BY <1>1, <1>2 DEF OnTheWay, IsCall
<1> QED
  BY <1>3, OthersAnswer DEF Start, StartThread, Stop, StopNotifies, StopJoins, StopUnchanged, pollVars

LEMMA MainAnswers ==
    ASSUME AnswerInv, NEW t \in DOMAIN threads, MainRuns(t) \/ MainWakes(t) \/ CallbackThrows(t)
    PROVE  AnswerInv'
<1>1. OnTheWay /\ UNCHANGED <<calls, sent, taken, pollQueue>>
  BY DEF AnswerInv, MainRuns, MainWakes, CallbackThrows, callerVars, pollVars
<1>2. ASSUME NEW place \in {"run", "wait", "ended", "faulted"}, ThreadIs(t, place, 0), UNCHANGED callQueue
      PROVE  OnTheWay'
  <2>1. /\ threads' \in Seq(ThreadRecord)
        /\ \A u \in DOMAIN threads' : threads'[u].at = "calling" => IsCall(threads'[u].call)
    BY <1>1, <1>2, ThreadMoves
  <2> QED
    BY <1>1, <1>2, <2>1 DEF OnTheWay, IsCall
<1>3. ASSUME callQueue # <<>>, ThreadIs(t, "calling", Head(callQueue)), callQueue' = Tail(callQueue)
      PROVE  OnTheWay'
  <2> DEFINE k == Head(callQueue)
  <2>1. callQueue \in Seq(Nat) /\ k = callQueue[1] /\ 1 \in DOMAIN callQueue
    BY <1>1, <1>3 DEF OnTheWay
  <2>2. k \in Nat /\ IsCall(k)
    BY <1>1, <2>1 DEF OnTheWay
  <2> HIDE DEF k
  <2>3. ThreadIs(t, "calling", k)
    BY <1>3 DEF k
  <2>4. /\ threads' \in Seq(ThreadRecord)
        /\ \A u \in DOMAIN threads' : threads'[u].at = "calling" => IsCall(threads'[u].call)
    BY <1>1, <2>2, <2>3, ThreadMoves
  <2>5. /\ callQueue' \in Seq(Nat)
        /\ \A i \in DOMAIN callQueue' : i + 1 \in DOMAIN callQueue /\ callQueue'[i] = callQueue[i + 1]
    BY <1>3, <2>1
  <2> QED
    BY <1>1, <2>4, <2>5 DEF OnTheWay, IsCall
<1>4. OnTheWay'
  <2>1. CASE MainRuns(t)
    <3>1. \/ ThreadIs(t, "ended", 0) /\ UNCHANGED callQueue
          \/ ThreadIs(t, "wait", 0) /\ UNCHANGED callQueue
          \/ callQueue # <<>> /\ ThreadIs(t, "calling", Head(callQueue)) /\ callQueue' = Tail(callQueue)
      BY <2>1 DEF MainRuns
    <3> QED
      BY <1>2, <1>3, <3>1
  <2>2. CASE MainWakes(t)
    BY <1>2, <2>2 DEF MainWakes
  <2>3. CASE CallbackThrows(t)
    BY <1>2, <2>3 DEF CallbackThrows
  <2> QED
    BY <2>1, <2>2, <2>3
<1> QED
  BY <1>4, OthersAnswer DEF MainRuns, MainWakes, CallbackThrows, pollVars

LEMMA CallbackReturnsAnswers ==
    ASSUME AnswerInv, NEW t \in DOMAIN threads, CallbackReturns(t)
    PROVE  AnswerInv'
<1> DEFINE k == threads[t].call
           place == IF Throws(k, k) THEN "faulted" ELSE "run"
<1>1. SendResponse(k, k) /\ ThreadIs(t, place, 0) /\ UNCHANGED <<callQueue, pollQueue, pollVars, sent>>
  BY DEF CallbackReturns, SendResponse
<1>2. k \in DOMAIN calls /\ OnTheWay
  BY DEF CallbackReturns, AnswerInv, OnTheWay, IsCall
<1>3. place \in {"run", "wait", "calling", "ended", "faulted"} /\ place # "calling"
  OBVIOUS
<1> HIDE DEF k, place
<1>4. CallsGrow /\ DOMAIN calls' = DOMAIN calls
  BY <1>1, <1>2, ResponseGrows DEF AnswerInv
<1>5. k \in MayGet'[calls[k].by]
  BY <1>2, <1>4, CallFacts DEF AnswerInv, MayGet, CallsGrow
<1>6. IInv' /\ OwnConns' /\ Given'
  BY <1>1, <1>2, <1>5, SendResponseAnswers
<1>7. /\ threads' \in Seq(ThreadRecord)
      /\ \A u \in DOMAIN threads' : threads'[u].at = "calling" => IsCall(threads'[u].call)
  BY <1>1, <1>2, <1>3, ThreadMoves
<1>8. OnTheWay'
  BY <1>1, <1>2, <1>4, <1>7 DEF OnTheWay, IsCall, pollVars
<1>9. Keys' /\ PosterInv'
  BY <1>1, <1>4, <1>6, KeysStay, PostersStay DEF pollVars
<1> QED
  BY <1>6, <1>8, <1>9 DEF AnswerInv
-----------------------------------------------------------------------------
\* Three calls of one key: two of them are one caller's.
LEMMA ThirdRepeats ==
    ASSUME AnswerInv, NEW i \in DOMAIN calls, NEW j \in DOMAIN calls, NEW k \in DOMAIN calls,
           i # j, i # k, j # k, SameKey(i, k), SameKey(j, k)
    PROVE  Repeated(i) \/ Repeated(k)
<1>1. /\ calls[i].conn = calls[k].conn /\ calls[i].uid = calls[k].uid
      /\ calls[j].conn = calls[k].conn /\ calls[j].uid = calls[k].uid
  BY DEF SameKey, KeyOf
<1>2. \/ calls[i].by = calls[k].by \/ calls[j].by = calls[k].by \/ calls[i].by = calls[j].by
  BY <1>1 DEF AnswerInv, OwnConns
<1> QED
  BY <1>1, <1>2 DEF Repeated

LEMMA PollRpcAnswers ==
    ASSUME AnswerInv, PollRpc
    PROVE  AnswerInv'
<1>1. IInv /\ IInv' /\ OnTheWay /\ Keys
  BY OthersKeep DEF AnswerInv, PollRpc
<1>2. UNCHANGED calls /\ CallsGrow
  BY <1>1, Stay DEF PollRpc, callerVars
<1>3. OwnConns' /\ Given'
  BY <1>1, <1>2, ConnsStay, GivenStays DEF PollRpc, callerVars, getVars
<1>4. UNCHANGED <<sent, callQueue, threads, posters>>
  BY DEF PollRpc, threadVars
<1>5. taken \subseteq taken'
  BY DEF PollRpc
<1>6. PosterInv'
  BY <1>1, <1>2, <1>4, <1>5, PostersStay
<1>7. CASE UNCHANGED <<pollQueue, responses, taken>>
  BY <1>1, <1>2, <1>3, <1>4, <1>6, <1>7, WayStays, KeysStay DEF AnswerInv
<1>8. CASE pollQueue # <<>>
  <2> DEFINE k == Head(pollQueue)
  <2>1. /\ pollQueue' = Tail(pollQueue)
        /\ \/ responses' = responses /\ taken' = taken
           \/ /\ ~ Entered(KeyOf(k)) /\ responses' = responses \cup {Keyed(k)}
              /\ taken' = taken \cup {k}
    BY <1>8 DEF PollRpc
  <2>2. pollQueue \in Seq(Nat) /\ k = pollQueue[1] /\ 1 \in DOMAIN pollQueue
    BY <1>1, <1>8 DEF OnTheWay
  <2>3. IsCall(k) /\ k \notin sent \cup taken
    BY <1>1, <2>2 DEF OnTheWay
  <2>4. /\ pollQueue' \in Seq(Nat)
        /\ \A i \in DOMAIN pollQueue' : i + 1 \in DOMAIN pollQueue /\ pollQueue'[i] = pollQueue[i + 1]
                                        /\ i + 1 # 1 /\ i \in Nat
    BY <1>8, <2>1, <2>2
  <2> HIDE DEF k
  <2>5. OnTheWay'
    <3>1. \A i \in DOMAIN pollQueue' : pollQueue'[i] # k
      BY <1>1, <2>2, <2>4 DEF OnTheWay
    <3>2. \A i, j \in DOMAIN pollQueue' : pollQueue'[i] = pollQueue'[j] => i = j
      BY <1>1, <2>4 DEF OnTheWay
    <3>3. \A i \in DOMAIN pollQueue' : IsCall(pollQueue'[i]) /\ pollQueue'[i] \notin sent \cup taken \cup {k}
      BY <1>1, <2>4, <3>1 DEF OnTheWay
    <3>4. taken' = taken \/ taken' = taken \cup {k}
      BY <2>1
    <3> QED
      BY <1>1, <1>2, <1>4, <2>3, <2>4, <3>2, <3>3, <3>4 DEF OnTheWay, IsCall
  <2>6. Keys'
    <3>1. CASE responses' = responses /\ taken' = taken
      BY <1>1, <1>2, <3>1, KeysStay
    <3>2. CASE /\ ~ Entered(KeyOf(k)) /\ responses' = responses \cup {Keyed(k)}
               /\ taken' = taken \cup {k}
      <4>1. /\ \A j : Keyed(j)' = Keyed(j) /\ KeyOf(j)' = KeyOf(j)
            /\ \A j : Keyed(j).call = j /\ Keyed(j).conn = KeyOf(j).conn /\ Keyed(j).uid = KeyOf(j).uid
        BY <1>2 DEF Keyed, KeyOf
      <4>2. \A r \in responses' : r.call \in taken' /\ r = Keyed(r.call)'
        BY <1>1, <3>2, <4>1 DEF Keys
      <4>3. \A r, s \in responses' : r.conn = s.conn /\ r.uid = s.uid => r = s
        BY <1>1, <3>2, <4>1 DEF Keys, Entered
      <4>4. ASSUME NEW j \in taken'
            PROVE  \/ ~ Absent(j)' \/ calls'[j].answers > 0
                   \/ \E i \in taken' \ {j} : SameKey(i, j)' /\ Absent(i)'
        <5>1. CASE j = k
          BY <3>2, <4>1, <5>1 DEF Absent
        <5>2. CASE j \in taken /\ (~ Absent(j) \/ calls[j].answers > 0)
          BY <1>2, <3>2, <4>1, <5>2 DEF Absent
        <5>3. ASSUME j \in taken, NEW i \in taken \ {j}, SameKey(i, j), Absent(i)
              PROVE  \E h \in taken' \ {j} : SameKey(h, j)' /\ Absent(h)'
          <6>1. i # k /\ Keyed(i) # Keyed(k)
            BY <2>3, <4>1
          <6>2. SameKey(i, j)' /\ Absent(i)'
            BY <3>2, <4>1, <5>3, <6>1 DEF SameKey, Absent
          <6> QED
            BY <3>2, <6>2
        <5> QED
          BY <1>1, <3>2, <5>1, <5>2, <5>3 DEF Keys
      <4> QED
        BY <4>2, <4>3, <4>4 DEF Keys
    <3> QED
      BY <2>1, <3>1, <3>2
  <2> QED
    BY <1>1, <1>3, <1>6, <2>5, <2>6 DEF AnswerInv
<1> QED
  BY <1>7, <1>8 DEF PollRpc
-----------------------------------------------------------------------------
\* A thread in PostRpcResponse moves.
LEMMA PosterMoves ==
    ASSUME AnswerInv, NEW p \in Posters, NEW r \in [at : {"out", "found", "sent"}, call : Nat, to : Nat],
           posters' = [posters EXCEPT ![p] = r]
    PROVE  /\ posters' \in [Posters -> [at : {"out", "found", "sent"}, call : Nat, to : Nat]]
           /\ posters'[p] = r /\ \A q \in Posters : q # p => posters'[q] = posters[q]
BY DEF AnswerInv, PosterInv

LEMMA PostRpcResponseAnswers ==
    ASSUME AnswerInv, NEW p \in Posters, NEW k \in taken, PostRpcResponse(p, k)
    PROVE  AnswerInv'
<1>1. IInv /\ IInv' /\ OnTheWay /\ Keys
  BY OthersKeep DEF AnswerInv, PostRpcResponse
<1>2. UNCHANGED calls /\ CallsGrow
  BY <1>1, Stay DEF PostRpcResponse, callerVars
<1>3. OnTheWay' /\ OwnConns' /\ Keys' /\ Given'
  BY <1>1, <1>2, WayStays, ConnsStay, KeysStay, GivenStays
     DEF PostRpcResponse, callerVars, threadVars, getVars
<1>4. PICK r \in responses :
         /\ r.conn = KeyOf(k).conn /\ r.uid = KeyOf(k).uid
         /\ posters' = [posters EXCEPT ![p] = [at |-> "found", call |-> k, to |-> r.call]]
  BY DEF PostRpcResponse
<1> DEFINE to == r.call
           found == [at |-> "found", call |-> k, to |-> to]
<1>5. to \in taken /\ r = Keyed(to) /\ to \in DOMAIN calls /\ k \in DOMAIN calls /\ ~ Absent(to)
  BY <1>1 DEF Keys, OnTheWay, IsCall, Absent
<1>6. SameKey(k, to)
  BY <1>4, <1>5 DEF SameKey, KeyOf, Keyed
<1>7. k = to \/ calls[k].answers > 0 \/ Repeated(k) \/ Repeated(to)
  <2> SUFFICES ASSUME k # to, ~ calls[k].answers > 0
               PROVE  Repeated(k) \/ Repeated(to)
    OBVIOUS
  <2>1. Absent(k)
    <3>1. Keyed(k).conn = r.conn /\ Keyed(k).uid = r.uid /\ Keyed(k).call = k
      BY <1>4 DEF Keyed
    <3> QED
      BY <1>1, <3>1 DEF Keys, Absent
  <2>2. PICK j \in taken \ {k} : SameKey(j, k) /\ Absent(j)
    BY <1>1, <2>1 DEF Keys
  <2>3. j # to /\ j \in DOMAIN calls
    BY <1>1, <1>5, <2>2 DEF OnTheWay, IsCall
  <2>4. SameKey(to, k)
    BY <1>6 DEF SameKey
  <2> HIDE DEF to
  <2> QED
    BY <1>5, <2>2, <2>3, <2>4, ThirdRepeats
<1>8. PosterInv'
  <2>1. found \in [at : {"out", "found", "sent"}, call : Nat, to : Nat]
    BY <1>1, <1>5, CallFacts
  <2>2. posters' = [posters EXCEPT ![p] = found]
    BY <1>4
  <2>3. found.at = "found" /\ found.call = k /\ found.to = to
    OBVIOUS
  <2> HIDE DEF found, to
  <2>4. /\ posters' \in [Posters -> [at : {"out", "found", "sent"}, call : Nat, to : Nat]]
        /\ posters'[p] = found /\ \A q \in Posters : q # p => posters'[q] = posters[q]
    BY <2>1, <2>2, PosterMoves
  <2>5. UNCHANGED taken
    BY DEF PostRpcResponse
  <2>6. \A i, j : (SameKey(i, j)' <=> SameKey(i, j)) /\ (Repeated(i)' <=> Repeated(i))
    BY <1>2 DEF SameKey, KeyOf, Repeated
  <2> QED
    BY <1>2, <1>5, <1>6, <1>7, <2>3, <2>4, <2>5, <2>6 DEF PosterInv, AnswerInv
<1> QED
  BY <1>1, <1>3, <1>8 DEF AnswerInv

LEMMA PostSendsAnswers ==
    ASSUME AnswerInv, NEW p \in Posters, PostSends(p)
    PROVE  AnswerInv'
<1> PICK k, to : k = posters[p].call /\ to = posters[p].to
  OBVIOUS
<1>1. SendResponse(k, to) /\ posters[p].at = "found" /\ OnTheWay
      /\ UNCHANGED <<threadVars, callQueue, pollQueue, responses, taken, poller, sent>>
  BY DEF PostSends, SendResponse, AnswerInv
<1>2. /\ k \in taken /\ to \in taken /\ SameKey(k, to)
      /\ k = to \/ calls[k].answers > 0 \/ Repeated(k) \/ Repeated(to)
  BY <1>1 DEF AnswerInv, PosterInv
<1>3. k \in DOMAIN calls /\ to \in DOMAIN calls
  BY <1>1, <1>2 DEF OnTheWay, IsCall
<1>4. posters[p] \in [at : {"out", "found", "sent"}, call : Nat, to : Nat]
  BY DEF AnswerInv, PosterInv
<1>5. /\ posters' = [posters EXCEPT ![p] = IF Throws(k, to) THEN Idle ELSE [@ EXCEPT !.at = "sent"]]
  BY DEF PostSends
<1>6. PICK r \in [at : {"out", "found", "sent"}, call : Nat, to : Nat] :
         /\ posters' = [posters EXCEPT ![p] = r]
         /\ r.at = "out" \/ (r.at = "sent" /\ r.call = k /\ r.to = to)
  <2>1. CASE Throws(k, to)
    <3>1. Idle \in [at : {"out", "found", "sent"}, call : Nat, to : Nat] /\ Idle.at = "out"
      BY DEF Idle
    <3> QED
      BY <1>5, <2>1, <3>1
  <2>2. CASE ~ Throws(k, to)
    <3> DEFINE s == [posters[p] EXCEPT !.at = "sent"]
    <3>1. /\ s \in [at : {"out", "found", "sent"}, call : Nat, to : Nat]
          /\ s.at = "sent" /\ s.call = k /\ s.to = to
      BY <1>4
    <3>2. posters' = [posters EXCEPT ![p] = s]
      BY <1>5, <2>2
    <3> HIDE DEF s
    <3> QED
      BY <3>1, <3>2
  <2> QED
    BY <2>1, <2>2
<1>7. /\ CallsGrow /\ DOMAIN calls' = DOMAIN calls
      /\ calls'[k].answers > 0 /\ (calls[k].answers > 0 => calls'[k].answers > 1)
  BY <1>1, <1>3, ResponseGrows DEF AnswerInv
<1>8. IInv' /\ IInv
  BY <1>1, SendResponseKeeps DEF AnswerInv
<1>9. k \in MayGet'[calls[to].by]
  <2>1. calls[to].by \in Callers
    BY <1>3, <1>8, CallFacts
  <2>2. k \in DOMAIN calls' /\ to \in DOMAIN calls'
    BY <1>3, <1>7
  <2>3. calls'[to].by = calls[to].by /\ calls'[to].uid = calls'[k].uid
    BY <1>2, <1>3, <1>7 DEF CallsGrow, SameKey, KeyOf
  <2>4. (Repeated(k) => Repeated(k)') /\ (Repeated(to) => Repeated(to)')
    BY <1>3, <1>7, <1>8, Growing
  <2>5. k = to \/ calls'[k].answers > 1 \/ Repeated(k)' \/ Repeated(to)'
    BY <1>2, <1>7, <2>4
  <2> QED
    BY <2>1, <2>2, <2>3, <2>5 DEF MayGet
<1>10. OwnConns' /\ Given'
  BY <1>1, <1>3, <1>9, SendResponseAnswers
<1>11. OnTheWay' /\ Keys'
  BY <1>1, <1>7, <1>8, WayStays, KeysStay DEF threadVars
<1>12. PosterInv'
  <2>1. /\ posters' \in [Posters -> [at : {"out", "found", "sent"}, call : Nat, to : Nat]]
        /\ posters'[p] = r /\ \A q \in Posters : q # p => posters'[q] = posters[q]
    BY <1>6, PosterMoves
  <2>2. \A j \in taken : /\ IsCall(j) /\ KeyOf(j)' = KeyOf(j)
                         /\ (calls[j].answers > 0 => calls'[j].answers > 0)
                         /\ (Repeated(j) => Repeated(j)')
    BY <1>1, <1>7, <1>8, Growing DEF OnTheWay, IsCall
  <2>3. \A i, j \in taken : SameKey(i, j) => SameKey(i, j)'
    BY <2>2 DEF SameKey
  <2>4. taken' = taken
    BY <1>1
  <2> QED
    BY <1>2, <1>6, <1>7, <2>1, <2>2, <2>3, <2>4 DEF AnswerInv, PosterInv
<1> QED
  BY <1>8, <1>10, <1>11, <1>12 DEF AnswerInv

LEMMA PostRemovesAnswers ==
    ASSUME AnswerInv, NEW p \in Posters, PostRemoves(p)
    PROVE  AnswerInv'
<1> PICK k : k = posters[p].call
  OBVIOUS
<1>1. IInv /\ IInv' /\ OnTheWay /\ Keys
  BY OthersKeep DEF AnswerInv, PostRemoves
<1>2. UNCHANGED calls /\ CallsGrow
  BY <1>1, Stay DEF PostRemoves, callerVars
<1>3. OnTheWay' /\ OwnConns' /\ Given'
  BY <1>1, <1>2, WayStays, ConnsStay, GivenStays DEF PostRemoves, callerVars, threadVars, getVars
<1>4. k \in taken /\ calls[k].answers > 0 /\ k \in DOMAIN calls
  BY <1>1 DEF PostRemoves, AnswerInv, PosterInv, OnTheWay, IsCall
<1>5. /\ responses' = WithoutKey(KeyOf(k)) /\ taken' = taken
      /\ posters' = [posters EXCEPT ![p] = Idle]
  BY DEF PostRemoves
<1>6. Keys'
  <2>1. \A j : Keyed(j)' = Keyed(j) /\ KeyOf(j)' = KeyOf(j)
    BY <1>2 DEF Keyed, KeyOf
  <2>2. responses' \subseteq responses
    BY <1>5 DEF WithoutKey
  <2>3. \A j : Absent(j) => Absent(j)'
    BY <2>1, <2>2 DEF Absent
  <2>4. \A j \in taken : Absent(j)' => Absent(j) \/ SameKey(k, j)
    BY <1>5, <2>1 DEF Absent, WithoutKey, SameKey, KeyOf, Keyed
  <2>5. Absent(k)'
    BY <1>5, <2>1 DEF Absent, WithoutKey, Keyed
  <2>6. ASSUME NEW j \in taken
        PROVE  \/ ~ Absent(j)' \/ calls'[j].answers > 0
               \/ \E i \in taken \ {j} : SameKey(i, j)' /\ Absent(i)'
    <3>1. \A i : SameKey(i, j)' <=> SameKey(i, j)
      BY <2>1 DEF SameKey
    <3>2. CASE SameKey(k, j)
      BY <1>2, <1>4, <2>5, <3>1, <3>2
    <3>3. CASE ~ SameKey(k, j)
      BY <1>1, <1>2, <2>3, <2>4, <3>1, <3>3 DEF Keys
    <3> QED
      BY <3>2, <3>3
  <2> QED
    BY <1>1, <1>5, <2>1, <2>2, <2>6 DEF Keys
<1>7. PosterInv'
  <2>1. Idle \in [at : {"out", "found", "sent"}, call : Nat, to : Nat] /\ Idle.at = "out"
    BY DEF Idle
  <2>2. /\ posters' \in [Posters -> [at : {"out", "found", "sent"}, call : Nat, to : Nat]]
        /\ posters'[p] = Idle /\ \A q \in Posters : q # p => posters'[q] = posters[q]
    BY <1>5, <2>1, PosterMoves
  <2>3. \A i, j : (SameKey(i, j)' <=> SameKey(i, j)) /\ (Repeated(i)' <=> Repeated(i))
    BY <1>2 DEF SameKey, KeyOf, Repeated
  <2> QED
    BY <1>2, <1>5, <2>1, <2>2, <2>3 DEF AnswerInv, PosterInv
<1> QED
  BY <1>1, <1>3, <1>6, <1>7 DEF AnswerInv
-----------------------------------------------------------------------------
\* A thread in GetRpcResult moves: it has got nothing, or the answer it may get.
LEMMA GetterAnswers ==
    ASSUME AnswerInv, IInv', NEW g \in Getters, NEW r, getters' = [getters EXCEPT ![g] = r],
           UNCHANGED <<callerVars, sent, back, results, threadVars, callQueue, pollQueue, pollVars>>,
           r.got # 0 => /\ r.call \in DOMAIN calls /\ r.got \in MayGet[calls[r.call].by]
                        /\ calls[r.got].uid = calls[r.call].uid
    PROVE  AnswerInv'
<1>1. IInv /\ UNCHANGED calls /\ CallsGrow
  BY Stay DEF AnswerInv, callerVars
<1>2. OnTheWay' /\ OwnConns' /\ Keys' /\ PosterInv' /\ ResultsFit' /\ BackFits'
  BY <1>1, WayStays, ConnsStay, KeysStay, PostersStay, ResultsStay, BackStays
     DEF callerVars, threadVars, pollVars
<1>3. GotFits'
  <2>1. MayGet' = MayGet
    BY <1>1 DEF MayGet, Repeated
  <2>2. getters'[g] = r /\ \A h \in Getters : h # g => getters'[h] = getters[h]
    BY <1>1 DEF IInv, GetterTypes
  <2> QED
    BY <1>1, <2>1, <2>2 DEF GotFits, AnswerInv, Given
<1> QED
  BY <1>2, <1>3 DEF AnswerInv, Given

\* What GetRpcResult finds.
LEMMA GotIsFit ==
    ASSUME AnswerInv, NEW k \in DOMAIN calls, HasResult(calls[k].by, calls[k].uid)
    PROVE  LET got == GotFrom(calls[k].by, calls[k].uid)
           IN got \in MayGet[calls[k].by] /\ calls[got].uid = calls[k].uid
<1> DEFINE c == calls[k].by
           uid == calls[k].uid
<1>1. c \in Callers /\ ResultsFit
  BY CallFacts DEF AnswerInv, Given
<1>2. \E r \in results[c] : r.uid = uid
  BY DEF HasResult
<1>3. PICK r \in results[c] : r.uid = uid /\ GotFrom(c, uid) = r.call
  BY <1>2 DEF GotFrom
<1> HIDE DEF c, uid
<1>4. r.call \in MayGet[c] /\ calls[r.call].uid = uid
  BY <1>1, <1>3 DEF ResultsFit
<1> QED
  BY <1>3, <1>4 DEF c, uid

LEMMA GetEndsAnswers ==
    ASSUME AnswerInv, IInv', NEW g \in Getters, Waiting(g), NEW x, GetEnds(g, x),
           UNCHANGED <<callerVars, sent, back, results, threadVars, callQueue, pollQueue, pollVars>>,
           x # 0 => x \in MayGet[Caller(g)] /\ calls[x].uid = UidOf(g)
    PROVE  AnswerInv'
<1> DEFINE k == getters[g].call
           r == IF x = 0 THEN Out ELSE [Out EXCEPT !.call = k, !.got = x]
<1>1. getters' = [getters EXCEPT ![g] = r]
  BY DEF GetEnds
<1>2. k \in DOMAIN calls
  BY DEF AnswerInv, IInv, GetterTypes
<1>3. r.got # 0 => r.call = k /\ r.got = x /\ x # 0
  BY DEF Out
<1>4. r.got # 0 => /\ r.call \in DOMAIN calls /\ r.got \in MayGet[calls[r.call].by]
                   /\ calls[r.got].uid = calls[r.call].uid
  BY <1>2, <1>3 DEF Caller, UidOf
<1> HIDE DEF r
<1> QED
  BY <1>1, <1>4, GetterAnswers

LEMMA GetRpcResultAnswers ==
    ASSUME AnswerInv, NEW g \in Getters, NEW k \in DOMAIN calls, NEW kind, GetRpcResult(g, k, kind)
    PROVE  AnswerInv'
<1> DEFINE c == calls[k].by
           uid == calls[k].uid
<1>1. IInv'
  BY GetRpcResultKeeps DEF AnswerInv
<1>2. UNCHANGED <<callerVars, sent, back, results, threadVars, callQueue, pollQueue, pollVars>>
  BY DEF GetRpcResult, GetUnchanged
<1>3. PICK r : /\ getters' = [getters EXCEPT ![g] = r]
               /\ r.got # 0 => r.call = k /\ r.got = GotFrom(c, uid) /\ HasResult(c, uid)
  <2>1. CASE uid \in blocking[c]
    <3>1. getters' = [getters EXCEPT ![g] = Out] /\ Out.got = 0
      BY <2>1 DEF GetRpcResult, Out
    <3> QED
      BY <3>1
  <2>2. CASE uid \notin blocking[c] /\ HasResult(c, uid)
    <3> DEFINE s == [Out EXCEPT !.call = k, !.got = GotFrom(c, uid)]
    <3>1. getters' = [getters EXCEPT ![g] = s]
      BY <2>2 DEF GetRpcResult
    <3>2. s.call = k /\ s.got = GotFrom(c, uid)
      BY DEF Out
    <3> HIDE DEF s
    <3> QED
      BY <2>2, <3>1, <3>2
  <2>3. CASE uid \notin blocking[c] /\ ~ HasResult(c, uid)
    <3> DEFINE s == [Out EXCEPT !.at = "waiting", !.call = k, !.kind = kind]
    <3>1. getters' = [getters EXCEPT ![g] = s]
      BY <2>3 DEF GetRpcResult
    <3>2. s.got = 0
      BY DEF Out
    <3> HIDE DEF s
    <3> QED
      BY <3>1, <3>2
  <2> QED
    BY <2>1, <2>2, <2>3
<1>4. r.got # 0 => /\ r.call \in DOMAIN calls /\ r.got \in MayGet[calls[r.call].by]
                   /\ calls[r.got].uid = calls[r.call].uid
  BY <1>3, GotIsFit
<1> QED
  BY <1>1, <1>2, <1>3, <1>4, GetterAnswers

LEMMA WaitAnswers ==
    ASSUME AnswerInv, NEW g \in Getters, GetterWakes(g) \/ GetterTimesOut(g) \/ GetterCancelled(g)
    PROVE  AnswerInv'
<1>1. IInv' /\ Waiting(g)
  BY GetterWakesKeeps, GetterTimesOutKeeps, GetterCancelledKeeps
     DEF AnswerInv, GetterWakes, GetterTimesOut, GetterCancelled, Waiting
<1>2. UNCHANGED <<callerVars, sent, back, results, threadVars, callQueue, pollQueue, pollVars>>
  BY DEF GetterWakes, GetterTimesOut, GetterCancelled, GetUnchanged
<1>3. CASE GetEnds(g, 0)
  BY <1>1, <1>2, <1>3, GetEndsAnswers
<1>4. CASE HasResult(Caller(g), UidOf(g)) /\ GetEnds(g, GotFrom(Caller(g), UidOf(g)))
  <2>1. getters[g].call \in DOMAIN calls
    BY <1>1 DEF AnswerInv, IInv, GetterTypes
  <2>2. /\ GotFrom(Caller(g), UidOf(g)) \in MayGet[Caller(g)]
        /\ calls[GotFrom(Caller(g), UidOf(g))].uid = UidOf(g)
    BY <1>4, <2>1, GotIsFit DEF Caller, UidOf
  <2> QED
    BY <1>1, <1>2, <1>4, <2>2, GetEndsAnswers
<1>5. CASE getters' = [getters EXCEPT ![g].woken = FALSE]
  <2> DEFINE r == [getters[g] EXCEPT !.woken = FALSE]
  <2>1. IsGetter(getters[g]) /\ GotFits
    BY DEF AnswerInv, IInv, GetterTypes, Given
  <2>2. getters' = [getters EXCEPT ![g] = r]
    BY <1>5
  <2>3. r = [at |-> getters[g].at, call |-> getters[g].call, woken |-> FALSE,
             kind |-> getters[g].kind, got |-> getters[g].got]
    BY <2>1, WokenIsGetter
  <2>4. r.got = getters[g].got /\ r.call = getters[g].call
    BY <2>3
  <2> HIDE DEF r
  <2> QED
    BY <1>1, <1>2, <2>1, <2>2, <2>4, GetterAnswers DEF GotFits
<1>6. CASE getters' = [getters EXCEPT ![g] = Out]
  <2>1. Out.got = 0
    BY DEF Out
  <2> QED
    BY <1>1, <1>2, <1>6, <2>1, GetterAnswers
<1> QED
  BY <1>3, <1>4, <1>5, <1>6 DEF GetterWakes, GetterTimesOut, GetterCancelled
-----------------------------------------------------------------------------
LEMMA StepAnswers == AnswerInv /\ [Next]_vars => AnswerInv'
<1> SUFFICES ASSUME AnswerInv, [Next]_vars PROVE AnswerInv'
  OBVIOUS
<1>1. ASSUME NEW c \in Callers, CallRpc(c)
      PROVE  AnswerInv'
  BY <1>1, CallRpcAnswers
<1>2. ASSUME NEW k, ProcessRpc(k)
      PROVE  AnswerInv'
  BY <1>2, ProcessRpcAnswers
<1>3. ASSUME NEW c \in Clients, Reconnect(c) \/ ReceiveResponse(c)
      PROVE  AnswerInv'
  BY <1>3, ReconnectAnswers, ReceiveResponseAnswers
<1>4. CASE Start \/ StartThread \/ Stop \/ StopSteps
  BY <1>4, StartStopAnswers DEF StopSteps
<1>5. ASSUME NEW t \in DOMAIN threads, Main(t) \/ CallbackThrows(t)
      PROVE  AnswerInv'
  BY <1>5, MainAnswers, CallbackReturnsAnswers DEF Main
<1>6. CASE PollRpc
  BY <1>6, PollRpcAnswers
<1>7. CASE PollTimesOut \/ UNCHANGED vars
  <2>1. OnTheWay' /\ UNCHANGED <<callerVars, getVars, back, results, responses, taken, posters>>
    BY <1>7 DEF AnswerInv, OnTheWay, IsCall, PollTimesOut, vars, callerVars, threadVars, pollVars
  <2> QED
    BY <2>1, OthersAnswer
<1>8. ASSUME NEW p \in Posters, PostSends(p) \/ PostRemoves(p) \/ \E k \in taken : PostRpcResponse(p, k)
      PROVE  AnswerInv'
  BY <1>8, PostSendsAnswers, PostRemovesAnswers, PostRpcResponseAnswers
<1>9. ASSUME NEW g \in Getters, NEW k \in DOMAIN calls, NEW kind, GetRpcResult(g, k, kind)
      PROVE  AnswerInv'
  BY <1>9, GetRpcResultAnswers
<1>10. ASSUME NEW g \in Getters, GetterWakes(g) \/ GetterTimesOut(g) \/ GetterCancelled(g)
      PROVE  AnswerInv'
  BY <1>10, WaitAnswers
<1> QED
  BY <1>1, <1>2, <1>3, <1>4, <1>5, <1>6, <1>7, <1>8, <1>9, <1>10 DEF Next

\* The invariant that follows a call from its caller to m_responseMap and back
\* (RpcServer.cs:80-147, 185-224; Storage.cs:434-447, 1054-1095).
THEOREM AnswerInvariance == Spec => []AnswerInv
BY AnswersInitially, StepAnswers, PTL DEF Spec

\* Whatever callers, threads, calls and lost connections there are: a thread gets the answer
\* to its own call, unless uids have come round or an answer was given twice
\* (Storage.cs:1077-1079, 1180-1226; RpcServer.cs:185-196).
THEOREM ResultIsOwnHolds == Spec => []ResultIsOwn
<1>1. ASSUME AnswerInv
      PROVE  ResultIsOwn
  <2> SUFFICES ASSUME NEW g \in Getters, getters[g].got # 0
               PROVE  \/ getters[g].got = getters[g].call
                      \/ Repeated(getters[g].call) \/ Repeated(getters[g].got)
                      \/ calls[getters[g].got].answers > 1
    BY DEF ResultIsOwn
  <2> DEFINE k == getters[g].call
             got == getters[g].got
  <2>1. /\ k \in DOMAIN calls /\ got \in MayGet[calls[k].by] /\ calls[got].uid = calls[k].uid
        /\ calls[k].by \in Callers
    BY <1>1, CallFacts DEF AnswerInv, Given, GotFits
  <2> HIDE DEF k, got
  <2>2. got \in DOMAIN calls
    BY <2>1 DEF MayGet
  <2>3. CASE calls[got].by = calls[k].by
    BY <2>1, <2>2, <2>3 DEF Repeated, k, got
  <2>4. ASSUME NEW to \in DOMAIN calls, calls[to].by = calls[k].by, calls[to].uid = calls[got].uid,
               Repeated(to)
        PROVE  Repeated(k)
    BY <2>1, <2>4 DEF Repeated
  <2> QED
    BY <2>1, <2>3, <2>4 DEF MayGet, k, got
<1>2. AnswerInv => ResultIsOwn
  BY <1>1
<1> QED
  BY AnswerInvariance, <1>2, PTL
-----------------------------------------------------------------------------
(* What a thread may die of.  A result that is added twice is of a call that was answered   *)
(* twice, of two calls of one caller and uid, or of calls that make one key; the invariant  *)
(* counts the copies of a response between the server and the results.                      *)

\* The calls whose answers caller c may have been sent, as one of its own makes their key.
SentTo == [c \in Callers |->
    {k \in DOMAIN calls : calls[k].answers > 0 /\ \E to \in DOMAIN calls : calls[to].by = c /\ SameKey(to, k)}]

Excused == {k \in DOMAIN calls : Repeated(k) \/ Alias(k) \/ calls[k].answers > 1}

CopyInv ==
    /\ \A c \in Callers : \A r \in results[c] : r.call \in SentTo[c]
    /\ \A c \in Clients : \A i \in DOMAIN back[c] :
         /\ back[c][i] \in SentTo[c]
         /\ \A j \in DOMAIN back[c] : back[c][i] = back[c][j] => i = j \/ calls[back[c][i]].answers > 1
         /\ \A r \in results[c] : r.call = back[c][i] => calls[r.call].answers > 1
    /\ \A f \in faults : f.call \in Excused

FaultInv == AnswerInv /\ CopyInv

LEMMA CopiesGrow ==
    ASSUME IInv, IInv', CallsGrow
    PROVE  /\ Excused \subseteq Excused'
           /\ \A c \in Callers : SentTo[c] \subseteq SentTo'[c] /\ SentTo[c] \subseteq DOMAIN calls
           /\ \A k \in DOMAIN calls : calls[k].answers > 1 => calls'[k].answers > 1
<1>1. \A k \in DOMAIN calls :
        /\ IsCall(k)' /\ KeyOf(k)' = KeyOf(k) /\ (Repeated(k) => Repeated(k)')
        /\ (calls[k].answers > 0 => calls'[k].answers > 0)
        /\ (calls[k].answers > 1 => calls'[k].answers > 1)
  BY Growing
<1>2. \A k \in DOMAIN calls : Alias(k) => Alias(k)'
  BY <1>1 DEF Alias, CallsGrow
<1>3. \A c \in Callers : SentTo[c] \subseteq SentTo'[c] /\ SentTo[c] \subseteq DOMAIN calls
  BY <1>1 DEF SentTo, CallsGrow, IsCall, SameKey
<1> QED
  BY <1>1, <1>2, <1>3 DEF Excused, IsCall

\* What a step adds to the faults has a cause, and it moves no response.
LEMMA CopiesStay ==
    ASSUME FaultInv, IInv', CallsGrow, UNCHANGED <<results, back>>,
           \A f \in faults' : f \in faults \/ f.call \in Excused'
    PROVE  CopyInv'
<1>1. IInv /\ CopyInv /\ BackFits
  BY DEF FaultInv, AnswerInv, Given
<1>2. /\ Excused \subseteq Excused'
      /\ \A c \in Callers : SentTo[c] \subseteq SentTo'[c] /\ SentTo[c] \subseteq DOMAIN calls
      /\ \A k \in DOMAIN calls : calls[k].answers > 1 => calls'[k].answers > 1
  BY <1>1, CopiesGrow
<1> QED
  BY <1>1, <1>2 DEF CopyInv, Clients

\* Two calls of one uid, both sent to one caller.
LEMMA ClashIsExcused ==
    ASSUME AnswerInv, NEW c \in Callers, NEW j \in SentTo[c], NEW k \in DOMAIN calls, j # k,
           calls[j].uid = calls[k].uid, \E to \in DOMAIN calls : calls[to].by = c /\ SameKey(to, k)
    PROVE  Repeated(k) \/ Alias(k)
<1>1. PICK to \in DOMAIN calls : calls[to].by = c /\ SameKey(to, k)
  OBVIOUS
<1>2. j \in DOMAIN calls
  BY DEF SentTo
<1>3. PICK own \in DOMAIN calls : calls[own].by = c /\ SameKey(own, j)
  BY DEF SentTo
<1>4. \A i, h \in DOMAIN calls : SameKey(i, h) =>
        /\ calls[i].uid = calls[h].uid
        /\ calls[i].by = calls[h].by \/ calls[i].by = Server \/ calls[h].by = Server
  BY DEF AnswerInv, OwnConns, SameKey, KeyOf
<1>5. CASE calls[j].by = calls[k].by
  BY <1>2, <1>5 DEF Repeated
<1>6. CASE calls[k].by # c
  BY <1>1, <1>4, <1>6 DEF Alias, SameKey
<1>7. CASE calls[k].by = c /\ calls[j].by # c
  <2>1. CASE own = k
    BY <1>2, <1>3, <1>4, <1>7, <2>1 DEF Alias, SameKey
  <2>2. CASE own # k
    BY <1>2, <1>3, <1>4, <1>7, <2>2 DEF Repeated
  <2> QED
    BY <2>1, <2>2
<1> QED
  BY <1>5, <1>6, <1>7

\* A response sent, and the fault where it throws.
LEMMA SendCopies ==
    ASSUME FaultInv, AnswerInv', NEW k \in DOMAIN calls, NEW to \in DOMAIN calls, SameKey(k, to),
           SendResponse(k, to), NEW who, FaultIf(Throws(k, to), who, k)
    PROVE  CopyInv'
<1>1. PICK c : c = calls[to].by
  OBVIOUS
<1>2. IInv /\ IInv' /\ AnswerInv /\ CopyInv /\ ResultsFit /\ BackFits /\ c \in Callers /\ k \in Nat
  BY <1>1, CallFacts DEF FaultInv, AnswerInv, Given
<1>3. /\ CallsGrow /\ DOMAIN calls' = DOMAIN calls
      /\ calls'[k].answers > 0 /\ (calls[k].answers > 0 => calls'[k].answers > 1)
  BY <1>2, ResponseGrows
<1>4. /\ Excused \subseteq Excused'
      /\ \A d \in Callers : SentTo[d] \subseteq SentTo'[d] /\ SentTo[d] \subseteq DOMAIN calls
      /\ \A j \in DOMAIN calls : calls[j].answers > 1 => calls'[j].answers > 1
  BY <1>2, <1>3, CopiesGrow
<1>5. SameKey(to, k) /\ \A d \in Callers : k \in SentTo[d] => calls'[k].answers > 1
  BY <1>3 DEF SameKey, SentTo
<1>6. k \in SentTo'[c]
  <2>1. SameKey(to, k)' /\ to \in DOMAIN calls' /\ k \in DOMAIN calls' /\ calls'[to].by = c
    BY <1>1, <1>3, <1>5 DEF SameKey, KeyOf, CallsGrow
  <2> QED
    BY <1>2, <1>3, <2>1 DEF SentTo
<1>7. \A f \in faults' : f.call \in Excused'
  <2>1. CASE ~ Throws(k, to)
    BY <1>2, <1>4, <2>1 DEF FaultIf, CopyInv
  <2>2. CASE Throws(k, to)
    <3>1. PICK r \in results[c] : r.uid = calls[k].uid
      BY <1>1, <2>2 DEF Throws, HasResult
    <3>2. r.call \in SentTo[c] /\ r.call \in DOMAIN calls /\ calls[r.call].uid = calls[k].uid
      BY <1>2, <1>4, <3>1 DEF CopyInv, ResultsFit
    <3>3. k \in Excused'
      <4>1. CASE r.call = k
        BY <1>2, <1>3, <1>5, <3>2, <4>1 DEF Excused
      <4>2. CASE r.call # k
        <5>1. Repeated(k) \/ Alias(k)
          BY <1>1, <1>2, <1>5, <3>2, <4>2, ClashIsExcused
        <5> QED
          BY <1>4, <5>1 DEF Excused
      <4> QED
        BY <4>1, <4>2
    <3>4. \A f \in faults' : f \in faults \/ f.call = k
      BY DEF FaultIf
    <3> QED
      BY <1>2, <1>4, <3>3, <3>4 DEF CopyInv
  <2> QED
    BY <2>1, <2>2
<1>8. CASE c = Server
  <2>1. /\ UNCHANGED back
        /\ \/ UNCHANGED results
           \/ results' = [results EXCEPT ![c] = @ \cup {[uid |-> calls[k].uid, call |-> k]}]
    BY <1>1, <1>8 DEF SendResponse, AddResult
  <2>2. /\ \A d \in Callers : d # c => results'[d] = results[d]
        /\ \A r \in results'[c] : r \in results[c] \/ r.call = k
    BY <1>2, <2>1 DEF ResultsFit
  <2>3. \A d \in Callers : \A r \in results'[d] : r.call \in SentTo'[d]
    BY <1>2, <1>4, <1>6, <2>2 DEF CopyInv
  <2>4. \A d \in Clients : d \in Callers /\ d # c /\ results'[d] = results[d]
    BY <1>8, <2>2 DEF Clients
  <2> QED
    BY <1>2, <1>4, <1>7, <2>1, <2>3, <2>4 DEF CopyInv
<1>9. CASE c # Server
  <2>1. /\ UNCHANGED results
        /\ back' = back \/ back' = [back EXCEPT ![c] = Append(@, k)]
    BY <1>1, <1>9 DEF SendResponse
  <2>2. CASE back' = back
    BY <1>2, <1>4, <1>7, <2>1, <2>2 DEF CopyInv, Clients
  <2>3. CASE back' = [back EXCEPT ![c] = Append(@, k)]
    <3>1. c \in Clients /\ back[c] \in Seq(Nat)
      BY <1>2, <1>9 DEF Clients, BackFits
    <3>2. back'[c] = Append(back[c], k) /\ \A d \in Clients : d # c => back'[d] = back[d]
      BY <1>2, <2>3, <3>1 DEF BackFits
    <3> DEFINE n == Len(back[c]) + 1
    <3>3. /\ DOMAIN back'[c] = DOMAIN back[c] \cup {n} /\ n \notin DOMAIN back[c]
          /\ back'[c][n] = k /\ \A i \in DOMAIN back[c] : back'[c][i] = back[c][i]
      BY <1>2, <3>1, <3>2
    <3> HIDE DEF n
    <3>4. ASSUME NEW i \in DOMAIN back'[c]
          PROVE  /\ back'[c][i] \in SentTo'[c]
                 /\ \A j \in DOMAIN back'[c] : back'[c][i] = back'[c][j] =>
                      i = j \/ calls'[back'[c][i]].answers > 1
                 /\ \A r \in results'[c] : r.call = back'[c][i] => calls'[r.call].answers > 1
      <4>1. CASE i \in DOMAIN back[c]
        <5>1. back[c][i] \in SentTo[c] /\ back'[c][i] = back[c][i]
          BY <1>2, <3>1, <3>3, <4>1 DEF CopyInv
        <5>2. back[c][i] = k => calls'[k].answers > 1
          BY <1>2, <1>5, <5>1
        <5> QED
          BY <1>2, <1>4, <2>1, <3>1, <3>3, <4>1, <5>1, <5>2 DEF CopyInv
      <4>2. CASE i = n
        <5>1. \A j \in DOMAIN back[c] : back[c][j] = k => calls'[k].answers > 1
          BY <1>2, <1>5, <3>1 DEF CopyInv
        <5>2. \A r \in results[c] : r.call = k => calls'[k].answers > 1
          BY <1>2, <1>5 DEF CopyInv
        <5> QED
          BY <1>6, <2>1, <3>3, <4>2, <5>1, <5>2
      <4> QED
        BY <3>3, <4>1, <4>2
    <3>5. \A d \in Callers : \A r \in results'[d] : r.call \in SentTo'[d]
      BY <1>2, <1>4, <2>1 DEF CopyInv
    <3>6. ASSUME NEW d \in Clients, d # c, NEW i \in DOMAIN back'[d]
          PROVE  /\ back'[d][i] \in SentTo'[d]
                 /\ \A j \in DOMAIN back'[d] : back'[d][i] = back'[d][j] =>
                      i = j \/ calls'[back'[d][i]].answers > 1
                 /\ \A r \in results'[d] : r.call = back'[d][i] => calls'[r.call].answers > 1
      BY <1>2, <1>4, <2>1, <3>2, <3>6 DEF CopyInv, Clients
    <3> QED
      BY <1>7, <3>4, <3>5, <3>6 DEF CopyInv
  <2> QED
    BY <2>1, <2>2, <2>3
<1> QED
  BY <1>8, <1>9

LEMMA ReceiveCopies ==
    ASSUME FaultInv, AnswerInv', NEW c \in Clients, ReceiveResponse(c)
    PROVE  CopyInv'
<1>1. IInv /\ IInv' /\ AnswerInv /\ CopyInv /\ ResultsFit /\ BackFits /\ c \in Callers
  BY DEF FaultInv, AnswerInv, Given, Clients
<1>2. UNCHANGED calls /\ CallsGrow
  BY <1>1, Stay DEF ReceiveResponse, callerVars
<1>3. SentTo' = SentTo /\ Excused' = Excused
  BY <1>2 DEF SentTo, Excused, SameKey, KeyOf, Repeated, Alias
<1>4. back[c] # <<>> /\ back[c] \in Seq(Nat) /\ back' = [back EXCEPT ![c] = Tail(@)]
  BY <1>1 DEF ReceiveResponse, BackFits
<1>5. /\ \A i \in DOMAIN back'[c] : /\ i + 1 \in DOMAIN back[c] /\ back'[c][i] = back[c][i + 1]
                                    /\ i + 1 # 1 /\ i \in Nat
      /\ \A d \in Clients : d # c => back'[d] = back[d]
  BY <1>1, <1>4 DEF BackFits
<1>6. PICK k : k = Head(back[c])
  OBVIOUS
<1>7. k = back[c][1] /\ 1 \in DOMAIN back[c]
  BY <1>4, <1>6
<1>8. k \in SentTo[c] /\ k \in DOMAIN calls
  BY <1>1, <1>7 DEF CopyInv, SentTo
<1>9. \A f \in faults' : f.call \in Excused
  <2>1. CASE ~ HasResult(c, calls[k].uid)
    BY <1>1, <1>6, <2>1 DEF ReceiveResponse, FaultIf, CopyInv
  <2>2. CASE HasResult(c, calls[k].uid)
    <3>1. PICK r \in results[c] : r.uid = calls[k].uid
      BY <2>2 DEF HasResult
    <3>2. r.call \in SentTo[c] /\ r.call \in DOMAIN calls /\ calls[r.call].uid = calls[k].uid
      BY <1>1, <3>1 DEF CopyInv, ResultsFit, SentTo
    <3>3. k \in Excused
      <4>1. CASE r.call = k
        BY <1>1, <1>7, <1>8, <4>1 DEF CopyInv, Excused
      <4>2. CASE r.call # k
        <5>1. Repeated(k) \/ Alias(k)
          BY <1>1, <1>8, <3>2, <4>2, ClashIsExcused DEF SentTo
        <5> QED
          BY <1>8, <5>1 DEF Excused
      <4> QED
        BY <4>1, <4>2
    <3>4. \A f \in faults' : f \in faults \/ f.call = k
      BY <1>6 DEF ReceiveResponse, FaultIf
    <3> QED
      BY <1>1, <3>3, <3>4 DEF CopyInv
  <2> QED
    BY <2>1, <2>2
<1>10. /\ \A d \in Callers : d # c => results'[d] = results[d]
       /\ \A r \in results'[c] : r \in results[c] \/ r.call = k
  <2>1. \/ UNCHANGED results
        \/ results' = [results EXCEPT ![c] = @ \cup {[uid |-> calls[k].uid, call |-> k]}]
    BY <1>6 DEF ReceiveResponse, AddResult
  <2> QED
    BY <1>1, <2>1 DEF ResultsFit
<1>11. \A d \in Callers : \A r \in results'[d] : r.call \in SentTo[d]
  BY <1>1, <1>8, <1>10 DEF CopyInv
<1>12. ASSUME NEW i \in DOMAIN back'[c]
       PROVE  /\ back'[c][i] \in SentTo[c]
              /\ \A j \in DOMAIN back'[c] : back'[c][i] = back'[c][j] =>
                   i = j \/ calls[back'[c][i]].answers > 1
              /\ \A r \in results'[c] : r.call = back'[c][i] => calls[r.call].answers > 1
  <2>1. i + 1 \in DOMAIN back[c] /\ back'[c][i] = back[c][i + 1] /\ i + 1 # 1
    BY <1>5
  <2>2. back[c][i + 1] = k => calls[k].answers > 1
    BY <1>1, <1>7, <2>1 DEF CopyInv
  <2>3. \A j \in DOMAIN back'[c] : back'[c][i] = back'[c][j] =>
          i = j \/ calls[back'[c][i]].answers > 1
    BY <1>1, <1>5, <2>1 DEF CopyInv
  <2> QED
    BY <1>1, <1>10, <2>1, <2>2, <2>3 DEF CopyInv
<1>13. ASSUME NEW d \in Clients, d # c, NEW i \in DOMAIN back'[d]
       PROVE  /\ back'[d][i] \in SentTo[d]
              /\ \A j \in DOMAIN back'[d] : back'[d][i] = back'[d][j] =>
                   i = j \/ calls[back'[d][i]].answers > 1
              /\ \A r \in results'[d] : r.call = back'[d][i] => calls[r.call].answers > 1
  BY <1>1, <1>5, <1>10, <1>13 DEF CopyInv, Clients
<1> QED
  BY <1>2, <1>3, <1>9, <1>11, <1>12, <1>13 DEF CopyInv

LEMMA PollCopies ==
    ASSUME FaultInv, AnswerInv', PollRpc
    PROVE  CopyInv'
<1>1. IInv /\ IInv' /\ AnswerInv /\ OnTheWay /\ Keys
  BY DEF FaultInv, AnswerInv
<1>2. UNCHANGED calls /\ CallsGrow /\ UNCHANGED <<results, back>>
  BY <1>1, Stay DEF PollRpc, callerVars
<1>3. \A f \in faults' : f \in faults \/ f.call \in Excused'
  <2>1. CASE UNCHANGED faults
    BY <2>1
  <2>2. CASE pollQueue # <<>> /\ FaultIf(Entered(KeyOf(Head(pollQueue))), "poll", Head(pollQueue))
    <3>1. PICK k : k = Head(pollQueue)
      OBVIOUS
    <3>2. k = pollQueue[1] /\ 1 \in DOMAIN pollQueue
      BY <1>1, <2>2, <3>1 DEF OnTheWay
    <3>3. k \in DOMAIN calls /\ k \notin taken
      BY <1>1, <3>2 DEF OnTheWay, IsCall
    <3>4. Entered(KeyOf(k)) => k \in Excused
      <4> SUFFICES ASSUME Entered(KeyOf(k)) PROVE k \in Excused
        OBVIOUS
      <4>1. PICK r \in responses : r.conn = KeyOf(k).conn /\ r.uid = KeyOf(k).uid
        BY DEF Entered
      <4>2. r.call \in DOMAIN calls /\ r.call # k /\ SameKey(r.call, k)
            /\ calls[r.call].conn = calls[k].conn /\ calls[r.call].uid = calls[k].uid
        BY <1>1, <3>3, <4>1 DEF Keys, OnTheWay, IsCall, SameKey, KeyOf, Keyed
      <4>3. CASE calls[r.call].by = calls[k].by
        BY <3>3, <4>2, <4>3 DEF Excused, Repeated
      <4>4. CASE calls[r.call].by # calls[k].by
        BY <1>1, <3>3, <4>2, <4>4 DEF Excused, Alias, SameKey, AnswerInv, OwnConns
      <4> QED
        BY <4>3, <4>4
    <3>5. Excused' = Excused
      BY <1>2 DEF Excused, Repeated, Alias, KeyOf
    <3> QED
      BY <2>2, <3>1, <3>4, <3>5 DEF FaultIf
  <2> QED
    BY <2>1, <2>2 DEF PollRpc
<1> QED
  BY <1>1, <1>2, <1>3, CopiesStay

LEMMA ReconnectCopies ==
    ASSUME FaultInv, AnswerInv', NEW c \in Clients, Reconnect(c)
    PROVE  CopyInv'
<1>1. IInv /\ CopyInv /\ BackFits /\ UNCHANGED <<calls, results, faults>> /\ back' = [back EXCEPT ![c] = <<>>]
  BY DEF FaultInv, AnswerInv, Given, Reconnect
<1>2. SentTo' = SentTo /\ Excused' = Excused
  BY <1>1 DEF SentTo, Excused, SameKey, KeyOf, Repeated, Alias
<1>3. back'[c] = <<>> /\ \A d \in Clients : d # c => back'[d] = back[d]
  BY <1>1 DEF BackFits
<1> QED
  BY <1>1, <1>2, <1>3 DEF CopyInv

LEMMA CallCopies ==
    ASSUME FaultInv, AnswerInv', NEW c \in Callers, CallRpc(c)
    PROVE  CopyInv'
<1>1. IInv /\ IInv' /\ calls \in Seq(CallRecord) /\ calls' \in Seq(CallRecord)
  BY DEF FaultInv, AnswerInv, IInv, CallTypes
<1>2. PICK call : calls' = Append(calls, call)
  BY DEF CallRpc
<1>3. DOMAIN calls \subseteq DOMAIN calls' /\ \A k \in DOMAIN calls : calls'[k] = calls[k]
  <2>1. Len(calls') = Len(calls) + 1 /\ \A k \in DOMAIN calls : calls'[k] = calls[k]
    BY <1>1, <1>2
  <2> QED
    BY <1>1, <2>1
<1>4. CallsGrow
  BY <1>1, <1>3, CallFacts DEF CallsGrow
<1> QED
  BY <1>1, <1>4, CopiesStay DEF CallRpc

LEMMA StepFaults == FaultInv /\ [Next]_vars => FaultInv'
<1> SUFFICES ASSUME FaultInv, [Next]_vars PROVE FaultInv'
  OBVIOUS
<1>1. AnswerInv' /\ AnswerInv /\ IInv /\ IInv'
  BY StepAnswers DEF FaultInv, AnswerInv
<1> SUFFICES CopyInv'
  BY <1>1 DEF FaultInv
<1>2. ASSUME UNCHANGED <<calls, results, back, faults>>
      PROVE  CopyInv'
  BY <1>1, <1>2, Stay, CopiesStay
<1>3. ASSUME NEW c \in Callers, CallRpc(c)
      PROVE  CopyInv'
  BY <1>1, <1>3, CallCopies
<1>4. ASSUME NEW c \in Clients, Reconnect(c) \/ ReceiveResponse(c)
      PROVE  CopyInv'
  BY <1>1, <1>4, ReconnectCopies, ReceiveCopies
<1>5. CASE (\E k \in DOMAIN calls : ProcessRpc(k)) \/ Start \/ StartThread \/ Stop \/ StopSteps
  BY <1>2, <1>5 DEF ProcessRpc, Start, StartThread, Stop, StopSteps, StopNotifies, StopJoins,
                    StopUnchanged, callerVars
<1>6. ASSUME NEW t \in DOMAIN threads, Main(t) \/ CallbackThrows(t)
      PROVE  CopyInv'
  <2>1. CASE MainRuns(t) \/ MainWakes(t) \/ CallbackThrows(t)
    BY <1>2, <2>1 DEF MainRuns, MainWakes, CallbackThrows, callerVars
  <2>2. CASE CallbackReturns(t)
    <3>1. PICK k : k = threads[t].call
      OBVIOUS
    <3>2. SendResponse(k, k) /\ FaultIf(Throws(k, k), "main", k)
      BY <2>2, <3>1 DEF CallbackReturns
    <3>3. k \in DOMAIN calls /\ SameKey(k, k)
      BY <1>1, <2>2, <3>1 DEF CallbackReturns, AnswerInv, OnTheWay, IsCall, SameKey
    <3> QED
      BY <1>1, <3>2, <3>3, SendCopies
  <2> QED
    BY <1>6, <2>1, <2>2 DEF Main
<1>7. CASE PollRpc
  BY <1>1, <1>7, PollCopies
<1>8. ASSUME NEW p \in Posters, PostSends(p)
      PROVE  CopyInv'
  <2>1. PICK k, to : k = posters[p].call /\ to = posters[p].to
    OBVIOUS
  <2>2. SendResponse(k, to) /\ FaultIf(Throws(k, to), "post", k)
    BY <1>8, <2>1 DEF PostSends
  <2>3. k \in DOMAIN calls /\ to \in DOMAIN calls /\ SameKey(k, to)
    BY <1>1, <1>8, <2>1 DEF PostSends, AnswerInv, PosterInv, OnTheWay, IsCall
  <2> QED
    BY <1>1, <2>2, <2>3, SendCopies
<1>9. ASSUME NEW p \in Posters, PostRemoves(p) \/ \E k \in taken : PostRpcResponse(p, k)
      PROVE  CopyInv'
  BY <1>2, <1>9 DEF PostRemoves, PostRpcResponse, callerVars
<1>10. ASSUME NEW g \in Getters, \/ \E k, kind : GetRpcResult(g, k, kind)
                                 \/ GetterWakes(g) \/ GetterTimesOut(g) \/ GetterCancelled(g)
       PROVE  CopyInv'
  BY <1>2, <1>10 DEF GetRpcResult, GetterWakes, GetterTimesOut, GetterCancelled, GetUnchanged, callerVars
<1>11. CASE PollTimesOut \/ UNCHANGED vars
  BY <1>2, <1>11 DEF PollTimesOut, vars, callerVars
<1> QED
  BY <1>3, <1>4, <1>5, <1>6, <1>7, <1>8, <1>9, <1>10, <1>11 DEF Next

\* No thread dies of Dictionary.Add, but for repeated uids, calls of connection 0 that the
\* server's own are taken for, and calls answered twice (Storage.cs:443, 1092; RpcServer.cs:196).
THEOREM FaultHasCauseHolds == Spec => []FaultHasCause
<1>1. Init => FaultInv
  <2>1. Init => CopyInv
    BY DEF Init, CopyInv
  <2> QED
    BY <2>1, AnswersInitially DEF FaultInv
<1>2. FaultInv => FaultHasCause
  BY DEF FaultInv, CopyInv, Excused, FaultHasCause
<1> QED
  BY <1>1, StepFaults, <1>2, PTL DEF Spec
=============================================================================
