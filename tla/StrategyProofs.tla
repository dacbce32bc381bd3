-------------------------- MODULE StrategyProofs --------------------------
(***************************************************************************)
(* Proofs about Strategy, for any exchanges and any number of requests     *)
(* that does not use up the strategy's request ids: what is asked for with *)
(* a callback is answered by it, QrySymbolSync never returns the symbol of *)
(* another request, and Start returns with all accounts read.              *)
(***************************************************************************)
EXTENDS Strategy, TLAPS

-----------------------------------------------------------------------------
(* The inductive invariant.                                                *)

RequestKinds == {"account", "symbol", "sync"}
AnswerFrames == [kind : RequestKinds, no : Numbers, val : {"ok", "error"}]
StatusFrames == [kind : {"status"}, source : Sources, val : Statuses]
NoFrame == [kind |-> "none"]
MainPlaces == {"new", "connect", "query", "account", "accountWait", "ready", "sync",
               "syncWait", "failed", "joined", "terminated"}
DataPlaces == {"off", "start", "read", "store", "clear", "notify", "ended"}

(* The types the argument needs. *)
Typed ==
  /\ mCurRid \in 0 .. MaxRequests
  /\ kinds \in Seq(RequestKinds) /\ Len(kinds) = mCurRid
  /\ main \in [pc : MainPlaces, no : 0 .. MaxRequests]
  /\ data \in [pc : DataPlaces, frame : {NoFrame} \cup AnswerFrames]
  /\ data.pc \in {"store", "clear"} => data.frame \in AnswerFrames
  /\ inflight \subseteq [no : Numbers, kind : RequestKinds, source : Sources]
  /\ unit \in Seq(StatusFrames \cup AnswerFrames)
  /\ mWaitingRid \in 0 .. MaxRequests /\ mQryResult \in 0 .. MaxRequests
  /\ notified \in BOOLEAN
  /\ got \in [no : 0 .. MaxRequests, symbol : 0 .. MaxRequests, late : BOOLEAN]

(* What is under way are requests and answers to requests, and what is     *)
(* waited for is a request of QrySymbolSync.                               *)
IsRequest(n, k) == n \in 1 .. mCurRid /\ kinds[n] = k
Genuine ==
  /\ \A q \in inflight : IsRequest(q.no, q.kind)
  /\ \A i \in DOMAIN unit :
       unit[i].kind # "status" => IsRequest(unit[i].no, unit[i].kind)
  /\ mWaitingRid # None => IsRequest(mWaitingRid, "sync")
  /\ answered \subseteq 1 .. mCurRid

(* Before Start has returned nothing waits for a symbol. *)
Starting == main.pc \in {"new", "connect", "query", "account", "accountWait", "failed"}
Asking == main.pc \in {"account", "accountWait"}
StartsAlone ==
  Starting =>
    /\ mWaitingRid = None /\ mQryResult = None
    /\ data.pc \notin {"store", "clear"}
    /\ data.pc = "notify" => Asking

(* Accounts are queried one after the other: the answer of one has been    *)
(* read before the next is asked for.                                      *)
NoneOut ==
  /\ \A q \in inflight : q.kind # "account"
  /\ \A i \in DOMAIN unit : unit[i].kind # "account"
LastOut ==
  /\ \A q, r \in inflight : q.kind = "account" /\ r.kind = "account" => q = r
  /\ \A i, j \in DOMAIN unit : unit[i].kind = "account" /\ unit[j].kind = "account" => i = j
  /\ \A q \in inflight, i \in DOMAIN unit :
       ~ (q.kind = "account" /\ unit[i].kind = "account")
  /\ \A q \in inflight : q.kind = "account" => q.no = mCurRid
  /\ \A i \in DOMAIN unit : unit[i].kind = "account" => unit[i].no = mCurRid
AllRead == \A n \in 1 .. mCurRid : kinds[n] = "account" => n \in answered
EarlierRead == \A n \in 1 .. mCurRid - 1 : kinds[n] = "account" => n \in answered
AccountTold == data.pc = "notify" \/ (main.pc = "accountWait" /\ notified)
OneAccount ==
  /\ ~Asking => NoneOut /\ AllRead
  /\ Asking => LastOut /\ EarlierRead
  /\ Asking /\ AccountTold => NoneOut /\ AllRead
  /\ main.pc = "accountWait" /\ notified => data.pc # "notify"

(* As long as none has come to its time limit, what the data thread keeps  *)
(* is for the QrySymbolSync that waits, and nothing is kept otherwise.     *)
KeptForCaller ==
  ~got.late =>
    /\ got.symbol \in {None, got.no}
    /\ main.pc = "ready" =>
         /\ mWaitingRid = None /\ mQryResult = None
         /\ data.pc \notin {"store", "clear", "notify"}
    /\ main.pc \in {"sync", "syncWait"} =>
         /\ mWaitingRid \in {None, main.no} /\ mQryResult \in {None, main.no}
         /\ data.pc \in {"store", "clear"} =>
              mWaitingRid = main.no /\ data.frame.no = main.no
         /\ data.pc = "notify" => mWaitingRid = None
    /\ main.pc = "syncWait" /\ notified =>
         mWaitingRid = None /\ data.pc \notin {"store", "clear", "notify"}

IInv == Typed /\ Genuine /\ StartsAlone /\ OneAccount /\ KeptForCaller /\ AsyncHanded

(* The request ids of a strategy do not come round again: it makes fewer   *)
(* requests than REQUEST_ID_RANGE, a million (PageCommStruct.h:55).        *)
NoWrap == MaxRequests < RidRange

-----------------------------------------------------------------------------
(* Lemmas about request ids, the unit and the list of requests.            *)

(* Before ids come round, a request's id is its number, and is the         *)
(* strategy's own (GetRid, Run).                                           *)
LEMMA IdIsNumber ==
  ASSUME NoWrap, NEW n \in Numbers
  PROVE  Rid(n) = n /\ Own(Rid(n)) /\ n # None
  <1> USE StrategyAssumption DEF StrategyAssumption, NoWrap, Numbers
  <1>1. n - 1 \in 0 .. RidRange - 1
    OBVIOUS
  <1>2. (n - 1) % RidRange = n - 1
    BY <1>1
  <1> QED
    BY <1>2 DEF Rid, Own, mRidStart, mRidEnd, None

Frames == StatusFrames \cup AnswerFrames

(* Only answers tell the kind of a request. *)
LEMMA FrameKinds ==
  /\ \A f \in Frames : f.kind # "status" => f \in AnswerFrames
  /\ \A f \in AnswerFrames : f.kind \in RequestKinds /\ f.kind # "status" /\ f.no \in Numbers
  BY DEF Frames, StatusFrames, AnswerFrames, RequestKinds

(* The first frame of the unit is read. *)
LEMMA FrameRead ==
  ASSUME Typed, unit # <<>>, unit' = Tail(unit)
  PROVE  /\ Head(unit) = unit[1] /\ 1 \in DOMAIN unit /\ unit[1] \in Frames
         /\ unit' \in Seq(Frames)
         /\ \A i \in DOMAIN unit' : i + 1 \in DOMAIN unit /\ unit'[i] = unit[i + 1]
         /\ \A i, j \in DOMAIN unit' : i + 1 = j + 1 => i = j
         /\ \A i \in DOMAIN unit' : i + 1 # 1
  <1>1. unit \in Seq(Frames)
    BY DEF Typed, Frames
  <1> QED
    BY <1>1

(* The gateway writes a frame. *)
LEMMA FrameWritten ==
  ASSUME Typed, NEW f \in Frames, unit' = Append(unit, f)
  PROVE  /\ unit' \in Seq(Frames)
         /\ \A i \in DOMAIN unit' : (i \in DOMAIN unit /\ unit'[i] = unit[i]) \/ unit'[i] = f
         /\ \A i, j \in DOMAIN unit' :
              \/ i \in DOMAIN unit /\ unit'[i] = unit[i]
              \/ j \in DOMAIN unit /\ unit'[j] = unit[j]
              \/ i = j
  <1>1. unit \in Seq(Frames)
    BY DEF Typed, Frames
  <1> QED
    BY <1>1

(* A request is made: the requests made before are what they were. *)
LEMMA RequestMade ==
  ASSUME Typed, NEW kind \in RequestKinds, NEW s \in Sources, Write(kind, s)
  PROVE  /\ mCurRid' = mCurRid + 1 /\ mCurRid' \in Numbers
         /\ kinds' \in Seq(RequestKinds) /\ Len(kinds') = mCurRid'
         /\ \A n \in 1 .. mCurRid : n \in 1 .. mCurRid' /\ kinds'[n] = kinds[n]
         /\ kinds'[mCurRid'] = kind
         /\ inflight' \subseteq [no : Numbers, kind : RequestKinds, source : Sources]
         /\ \A q \in inflight' :
              q \in inflight \/ (q.no = mCurRid' /\ q.kind = kind)
         /\ \A q, r \in inflight' : q \in inflight \/ r \in inflight \/ q = r
  <1> USE StrategyAssumption DEF StrategyAssumption, Typed, Write, Numbers
  <1>1. /\ mCurRid' = mCurRid + 1 /\ mCurRid' \in Numbers /\ mCurRid \in Nat
    OBVIOUS
  <1>2. /\ kinds' \in Seq(RequestKinds) /\ Len(kinds') = mCurRid'
        /\ \A n \in 1 .. mCurRid : n \in 1 .. mCurRid' /\ kinds'[n] = kinds[n]
        /\ kinds'[mCurRid'] = kind
    <2>1. kinds \in Seq(RequestKinds) /\ Len(kinds) = mCurRid /\ kinds' = Append(kinds, kind)
      OBVIOUS
    <2> QED
      BY <1>1, <2>1
  <1> DEFINE q0 == [no |-> mCurRid + 1, kind |-> kind, source |-> s]
  <1>3. inflight' = inflight \cup {q0}
    OBVIOUS
  <1>4. q0.no = mCurRid' /\ q0.kind = kind
        /\ q0 \in [no : Numbers, kind : RequestKinds, source : Sources]
    BY <1>1
  <1> HIDE DEF q0
  <1> QED
    BY <1>1, <1>2, <1>3, <1>4

-----------------------------------------------------------------------------
(* Every step preserves the inductive invariant.                           *)

channels == <<mCurRid, inflight, unit, kinds, answered, handed>>

(* What is under way stays as it is, and nothing new is waited for. *)
LEMMA ChannelsKept ==
  ASSUME IInv, UNCHANGED channels, mWaitingRid' \in {mWaitingRid, None}
  PROVE  /\ Genuine' /\ AsyncHanded'
         /\ NoneOut => NoneOut'
         /\ LastOut => LastOut'
         /\ AllRead => AllRead'
         /\ EarlierRead => EarlierRead'
  BY DEF IInv, channels, Genuine, IsRequest, AsyncHanded, NoneOut, LastOut, AllRead,
         EarlierRead

LEMMA InitInvariant == ASSUME Init PROVE IInv
  <1> USE StrategyAssumption DEF StrategyAssumption, Init, None
  <1>1. Typed
    <2>1. kinds \in Seq(RequestKinds) /\ Len(kinds) = mCurRid
          /\ unit \in Seq(StatusFrames \cup AnswerFrames)
      OBVIOUS
    <2>2. data \in [pc : DataPlaces, frame : {NoFrame} \cup AnswerFrames]
      BY DEF DataPlaces, NoFrame
    <2>3. main \in [pc : MainPlaces, no : 0 .. MaxRequests]
      BY DEF MainPlaces
    <2> QED
      BY <2>1, <2>2, <2>3 DEF Typed
  <1> QED
    BY <1>1 DEF IInv, Genuine, StartsAlone, Starting, Asking, OneAccount, NoneOut, AllRead,
                KeptForCaller, AsyncHanded

(* Steps of the main thread that make no request. *)
LEMMA MainStep ==
  ASSUME IInv,
         \/ StartThread \/ Connected \/ LoginTimeout \/ WaitAccount \/ AccountDone \/ Started
         \/ WaitSymbol \/ TakeResult \/ TimeOut \/ Stop \/ Block \/ Terminate \/ Signal
  PROVE  IInv'
  <1> USE StrategyAssumption DEF StrategyAssumption, None
  <1> USE DEF At, GoTo, Returned, flags, result, history, gateway
  <1>0. Typed /\ StartsAlone /\ OneAccount /\ KeptForCaller
    BY DEF IInv
  <1>1. UNCHANGED channels /\ mWaitingRid' = mWaitingRid
    BY DEF channels, StartThread, Connected, LoginTimeout, WaitAccount, AccountDone, Started,
       WaitSymbol, TakeResult, TimeOut, Stop, Block, Terminate, Signal
  <1>2. /\ Genuine' /\ AsyncHanded'
        /\ NoneOut => NoneOut'
        /\ LastOut => LastOut'
        /\ AllRead => AllRead'
        /\ EarlierRead => EarlierRead'
    BY <1>1, ChannelsKept
  <1>3. Typed' /\ StartsAlone' /\ OneAccount' /\ KeptForCaller'
    <2>1. CASE StartThread
      <3>1. Typed'
        BY <1>0, <1>1, <2>1 DEF Typed, channels, MainPlaces, DataPlaces, StartThread
      <3>2. StartsAlone'
        BY <1>0, <2>1 DEF Typed, StartsAlone, Starting, Asking, StartThread
      <3>3. OneAccount'
        BY <1>0, <1>2, <2>1
           DEF Typed, StartsAlone, Starting, OneAccount, Asking, AccountTold, StartThread
      <3>4. KeptForCaller'
        BY <1>0, <2>1 DEF Typed, KeptForCaller, StartsAlone, Starting, Asking, StartThread
      <3> QED
        BY <3>1, <3>2, <3>3, <3>4
    <2>2. CASE Connected
      <3>1. Typed'
        BY <1>0, <1>1, <2>2 DEF Typed, channels, MainPlaces, DataPlaces, Connected
      <3>2. StartsAlone'
        BY <1>0, <2>2 DEF Typed, StartsAlone, Starting, Asking, Connected
      <3>3. OneAccount'
        BY <1>0, <1>2, <2>2
           DEF Typed, StartsAlone, Starting, OneAccount, Asking, AccountTold, Connected
      <3>4. KeptForCaller'
        BY <1>0, <2>2 DEF Typed, KeptForCaller, StartsAlone, Starting, Asking, Connected
      <3> QED
        BY <3>1, <3>2, <3>3, <3>4
    <2>3. CASE LoginTimeout
      <3>1. Typed'
        BY <1>0, <1>1, <2>3 DEF Typed, channels, MainPlaces, DataPlaces, LoginTimeout
      <3>2. StartsAlone'
        BY <1>0, <2>3 DEF Typed, StartsAlone, Starting, Asking, LoginTimeout
      <3>3. OneAccount'
        BY <1>0, <1>2, <2>3
           DEF Typed, StartsAlone, Starting, OneAccount, Asking, AccountTold, LoginTimeout
      <3>4. KeptForCaller'
        BY <1>0, <2>3 DEF Typed, KeptForCaller, StartsAlone, Starting, Asking, LoginTimeout
      <3> QED
        BY <3>1, <3>2, <3>3, <3>4
    <2>4. CASE WaitAccount
      <3>1. Typed'
        BY <1>0, <1>1, <2>4 DEF Typed, channels, MainPlaces, DataPlaces, WaitAccount
      <3>2. StartsAlone'
        BY <1>0, <2>4 DEF Typed, StartsAlone, Starting, Asking, WaitAccount
      <3>3. OneAccount'
        BY <1>0, <1>2, <2>4
           DEF Typed, StartsAlone, Starting, OneAccount, Asking, AccountTold, WaitAccount
      <3>4. KeptForCaller'
        BY <1>0, <2>4 DEF Typed, KeptForCaller, StartsAlone, Starting, Asking, WaitAccount
      <3> QED
        BY <3>1, <3>2, <3>3, <3>4
    <2>5. CASE AccountDone
      <3>1. Typed'
        BY <1>0, <1>1, <2>5 DEF Typed, channels, MainPlaces, DataPlaces, AccountDone
      <3>2. StartsAlone'
        BY <1>0, <2>5 DEF Typed, StartsAlone, Starting, Asking, OneAccount, AccountDone
      <3>3. OneAccount'
        BY <1>0, <1>2, <2>5
           DEF Typed, StartsAlone, Starting, OneAccount, Asking, AccountTold, AccountDone
      <3>4. KeptForCaller'
        BY <1>0, <2>5 DEF Typed, KeptForCaller, StartsAlone, Starting, Asking, AccountDone
      <3> QED
        BY <3>1, <3>2, <3>3, <3>4
    <2>6. CASE Started
      <3>1. Typed'
        BY <1>0, <1>1, <2>6 DEF Typed, channels, MainPlaces, DataPlaces, Started
      <3>2. StartsAlone'
        BY <1>0, <2>6 DEF Typed, StartsAlone, Starting, Asking, Started
      <3>3. OneAccount'
        BY <1>0, <1>2, <2>6
           DEF Typed, StartsAlone, Starting, OneAccount, Asking, AccountTold, Started
      <3>4. KeptForCaller'
        BY <1>0, <2>6 DEF Typed, KeptForCaller, StartsAlone, Starting, Asking, Started
      <3> QED
        BY <3>1, <3>2, <3>3, <3>4
    <2>7. CASE WaitSymbol
      <3>1. Typed'
        BY <1>0, <1>1, <2>7 DEF Typed, channels, MainPlaces, DataPlaces, WaitSymbol
      <3>2. StartsAlone'
        BY <1>0, <2>7 DEF Typed, StartsAlone, Starting, Asking, WaitSymbol
      <3>3. OneAccount'
        BY <1>0, <1>2, <2>7
           DEF Typed, StartsAlone, Starting, OneAccount, Asking, AccountTold, WaitSymbol
      <3>4. KeptForCaller'
        BY <1>0, <2>7 DEF Typed, KeptForCaller, StartsAlone, Starting, Asking, WaitSymbol
      <3> QED
        BY <3>1, <3>2, <3>3, <3>4
    <2>8. CASE TakeResult
      <3>1. Typed'
        <4>1. /\ mQryResult' \in 0 .. MaxRequests
              /\ UNCHANGED <<data, mWaitingRid, notified>>
          BY <1>0, <2>8 DEF Typed, TakeResult
        <4>2. main' \in [pc : MainPlaces, no : 0 .. MaxRequests]
          BY <1>0, <2>8 DEF Typed, TakeResult, MainPlaces
        <4>3. got' \in [no : 0 .. MaxRequests, symbol : 0 .. MaxRequests, late : BOOLEAN]
          BY <1>0, <2>8 DEF Typed, TakeResult
        <4> QED
          BY <1>0, <1>1, <4>1, <4>2, <4>3 DEF Typed, channels
      <3>2. StartsAlone'
        BY <1>0, <2>8 DEF Typed, StartsAlone, Starting, Asking, TakeResult
      <3>3. OneAccount'
        BY <1>0, <1>2, <2>8
           DEF Typed, StartsAlone, Starting, OneAccount, Asking, AccountTold, TakeResult
      <3>4. KeptForCaller'
        BY <1>0, <2>8 DEF Typed, KeptForCaller, StartsAlone, Starting, Asking, TakeResult
      <3> QED
        BY <3>1, <3>2, <3>3, <3>4
    <2>9. CASE TimeOut
      <3>1. Typed'
        BY <1>0, <1>1, <2>9 DEF Typed, channels, MainPlaces, DataPlaces, TimeOut
      <3>2. StartsAlone'
        BY <1>0, <2>9 DEF Typed, StartsAlone, Starting, Asking, TimeOut
      <3>3. OneAccount'
        BY <1>0, <1>2, <2>9
           DEF Typed, StartsAlone, Starting, OneAccount, Asking, AccountTold, TimeOut
      <3>4. KeptForCaller'
        BY <1>0, <2>9 DEF Typed, KeptForCaller, StartsAlone, Starting, Asking, TimeOut
      <3> QED
        BY <3>1, <3>2, <3>3, <3>4
    <2>10. CASE Stop
      <3>1. Typed'
        BY <1>0, <1>1, <2>10 DEF Typed, channels, MainPlaces, DataPlaces, Stop
      <3>2. StartsAlone'
        BY <1>0, <2>10 DEF Typed, StartsAlone, Starting, Asking, Stop
      <3>3. OneAccount'
        BY <1>0, <1>2, <2>10
           DEF Typed, StartsAlone, Starting, OneAccount, Asking, AccountTold, Stop
      <3>4. KeptForCaller'
        BY <1>0, <2>10 DEF Typed, KeptForCaller, StartsAlone, Starting, Asking, Stop
      <3> QED
        BY <3>1, <3>2, <3>3, <3>4
    <2>11. CASE Block
      <3>1. Typed'
        BY <1>0, <1>1, <2>11 DEF Typed, channels, MainPlaces, DataPlaces, Block
      <3>2. StartsAlone'
        BY <1>0, <2>11 DEF Typed, StartsAlone, Starting, Asking, Block
      <3>3. OneAccount'
        BY <1>0, <1>2, <2>11
           DEF Typed, StartsAlone, Starting, OneAccount, Asking, AccountTold, Block
      <3>4. KeptForCaller'
        BY <1>0, <2>11 DEF Typed, KeptForCaller, StartsAlone, Starting, Asking, Block
      <3> QED
        BY <3>1, <3>2, <3>3, <3>4
    <2>12. CASE Terminate
      <3>1. Typed'
        BY <1>0, <1>1, <2>12 DEF Typed, channels, MainPlaces, DataPlaces, Terminate
      <3>2. StartsAlone'
        BY <1>0, <2>12 DEF Typed, StartsAlone, Starting, Asking, Terminate
      <3>3. OneAccount'
        BY <1>0, <1>2, <2>12
           DEF Typed, StartsAlone, Starting, OneAccount, Asking, AccountTold, Terminate
      <3>4. KeptForCaller'
        BY <1>0, <2>12 DEF Typed, KeptForCaller, StartsAlone, Starting, Asking, Terminate
      <3> QED
        BY <3>1, <3>2, <3>3, <3>4
    <2>13. CASE Signal
      <3>1. Typed'
        BY <1>0, <1>1, <2>13 DEF Typed, channels, MainPlaces, DataPlaces, Signal
      <3>2. StartsAlone'
        BY <1>0, <2>13 DEF Typed, StartsAlone, Starting, Asking, Signal
      <3>3. OneAccount'
        BY <1>0, <1>2, <2>13
           DEF Typed, StartsAlone, Starting, OneAccount, Asking, AccountTold, Signal
      <3>4. KeptForCaller'
        BY <1>0, <2>13 DEF Typed, KeptForCaller, StartsAlone, Starting, Asking, Signal
      <3> QED
        BY <3>1, <3>2, <3>3, <3>4
    <2> QED
      BY <2>1, <2>2, <2>3, <2>4, <2>5, <2>6, <2>7, <2>8, <2>9, <2>10, <2>11, <2>12, <2>13
  <1> QED
    BY <1>2, <1>3 DEF IInv

(* Requests: the account query of Start, when no other is out, and those   *)
(* of the strategy, when Start has returned.                               *)
LEMMA RequestStep ==
  ASSUME NoWrap, IInv, NEW s \in Sources,
         QueryAccount(s) \/ QrySymbol(s) \/ QrySymbolSync(s)
  PROVE  IInv'
  <1> USE StrategyAssumption DEF StrategyAssumption, None
  <1> USE DEF At, GoTo, flags, result, history, gateway
  <1>0. Typed /\ Genuine /\ StartsAlone /\ OneAccount /\ KeptForCaller /\ AsyncHanded
    BY DEF IInv
  <1> DEFINE kind == IF QueryAccount(s) THEN "account"
                     ELSE IF QrySymbol(s) THEN "symbol" ELSE "sync"
  <1>1. /\ kind \in RequestKinds /\ Write(kind, s)
        /\ UNCHANGED <<data, unit, mQryResult, notified, got, handed, answered>>
        /\ kind = "account" => /\ main.pc = "query" /\ main' = [main EXCEPT !.pc = "account"]
                               /\ UNCHANGED mWaitingRid
        /\ kind = "symbol" => main.pc = "ready" /\ UNCHANGED <<main, mWaitingRid>>
        /\ kind = "sync" => /\ main.pc = "ready"
                            /\ main' = [pc |-> "sync", no |-> mCurRid + 1]
                            /\ mWaitingRid' = Rid(mCurRid + 1)
    <2>1. CASE QueryAccount(s)
      BY <2>1 DEF QueryAccount, RequestKinds
    <2>2. CASE ~QueryAccount(s) /\ QrySymbol(s)
      BY <2>2 DEF QrySymbol, RequestKinds
    <2>3. CASE ~QueryAccount(s) /\ ~QrySymbol(s)
      BY <2>3 DEF QrySymbolSync, RequestKinds
    <2> QED
      BY <2>1, <2>2, <2>3
  <1> HIDE DEF kind
  <1>2. /\ mCurRid' = mCurRid + 1 /\ mCurRid' \in Numbers /\ mCurRid \in Nat
        /\ kinds' \in Seq(RequestKinds) /\ Len(kinds') = mCurRid'
        /\ \A n \in 1 .. mCurRid : n \in 1 .. mCurRid' /\ kinds'[n] = kinds[n]
        /\ kinds'[mCurRid'] = kind
        /\ inflight' \subseteq [no : Numbers, kind : RequestKinds, source : Sources]
        /\ \A q \in inflight' :
             q \in inflight \/ (q.no = mCurRid' /\ q.kind = kind)
        /\ \A q, r \in inflight' : q \in inflight \/ r \in inflight \/ q = r
    BY <1>0, <1>1, RequestMade DEF Typed
  <1>3. kind = "sync" => mWaitingRid' = mCurRid'
    BY <1>1, <1>2, IdIsNumber
  <1>4. mWaitingRid' \in 0 .. MaxRequests
    BY <1>0, <1>1, <1>2, <1>3 DEF Typed, RequestKinds, Numbers
  <1>5. Typed'
    <2>1. main' \in [pc : MainPlaces, no : 0 .. MaxRequests]
      BY <1>0, <1>1, <1>2 DEF Typed, MainPlaces, RequestKinds, Numbers
    <2> QED
      BY <1>0, <1>1, <1>2, <1>4, <2>1 DEF Typed, Numbers
  <1>6. Genuine'
    <2>1. \A q \in inflight' : IsRequest(q.no, q.kind)'
      BY <1>0, <1>2 DEF Genuine, IsRequest, Numbers
    <2>2. \A i \in DOMAIN unit' :
            unit'[i].kind # "status" => IsRequest(unit[i].no, unit[i].kind)'
      BY <1>0, <1>1, <1>2 DEF Genuine, IsRequest
    <2>3. mWaitingRid' # None => IsRequest(mWaitingRid, "sync")'
      BY <1>0, <1>1, <1>2, <1>3 DEF Genuine, IsRequest, RequestKinds, Numbers
    <2>4. answered' \subseteq 1 .. mCurRid'
      BY <1>0, <1>1, <1>2 DEF Genuine
    <2> QED
      BY <1>1, <2>1, <2>2, <2>3, <2>4 DEF Genuine
  <1>7. StartsAlone'
    BY <1>0, <1>1 DEF Typed, StartsAlone, Starting, Asking, RequestKinds
  <1>8. OneAccount'
    <2>1. NoneOut /\ AllRead /\ ~Asking
      BY <1>0, <1>1 DEF OneAccount, Asking, RequestKinds
    <2>2. CASE kind = "account"
      <3>1. LastOut'
        BY <1>1, <1>2, <2>1 DEF NoneOut, LastOut
      <3>2. EarlierRead'
        <4>1. mCurRid' - 1 = mCurRid /\ answered' = answered
          BY <1>1, <1>2
        <4>2. \A n \in 1 .. mCurRid : kinds'[n] = "account" => n \in answered
          BY <1>2, <2>1 DEF AllRead
        <4> QED
          BY <4>1, <4>2 DEF EarlierRead
      <3>3. main'.pc = "account" /\ data'.pc # "notify"
        BY <1>0, <1>1, <2>2 DEF Typed, StartsAlone, Starting, Asking
      <3> QED
        BY <3>1, <3>2, <3>3 DEF OneAccount, Asking, AccountTold
    <2>3. CASE kind # "account"
      <3>1. NoneOut' /\ AllRead'
        BY <1>1, <1>2, <2>1, <2>3 DEF NoneOut, AllRead, Numbers
      <3>2. main'.pc \in {"ready", "sync"}
        BY <1>1, <2>3 DEF RequestKinds
      <3> QED
        BY <3>1, <3>2 DEF OneAccount, Asking
    <2> QED
      BY <2>2, <2>3
  <1>9. KeptForCaller'
    BY <1>0, <1>1, <1>2, <1>3 DEF Typed, KeptForCaller, RequestKinds
  <1>10. AsyncHanded'
    BY <1>0, <1>1, <1>2 DEF AsyncHanded, Genuine
  <1> QED
    BY <1>5, <1>6, <1>7, <1>8, <1>9, <1>10 DEF IInv

(* Steps of the data thread that read no answer. *)
LEMMA DataStep ==
  ASSUME IInv, Run \/ Leave \/ StoreResult \/ ClearWaiting \/ Notify
  PROVE  IInv'
  <1> USE StrategyAssumption DEF StrategyAssumption, None
  <1> USE DEF DataAt, DataGoTo, flags, result, history, gateway
  <1>0. Typed /\ StartsAlone /\ OneAccount /\ KeptForCaller
    BY DEF IInv
  <1>1. UNCHANGED channels /\ mWaitingRid' \in {mWaitingRid, None}
    BY DEF channels, Run, Leave, StoreResult, ClearWaiting, Notify
  <1>2. /\ Genuine' /\ AsyncHanded'
        /\ NoneOut => NoneOut'
        /\ LastOut => LastOut'
        /\ AllRead => AllRead'
        /\ EarlierRead => EarlierRead'
    BY <1>1, ChannelsKept
  <1>3. UNCHANGED <<main, got>>
    BY DEF Run, Leave, StoreResult, ClearWaiting, Notify
  <1>4. data.frame' = data.frame /\ data'.pc \in DataPlaces
        /\ data' \in [pc : DataPlaces, frame : {NoFrame} \cup AnswerFrames]
    BY <1>0 DEF Typed, DataPlaces, Run, Leave, StoreResult, ClearWaiting, Notify
  <1>5. Typed' /\ StartsAlone' /\ OneAccount' /\ KeptForCaller'
    <2>1. CASE Run
      <3>1. Typed'
        BY <1>0, <1>1, <1>3, <1>4, <2>1 DEF Typed, channels, Run
      <3>2. StartsAlone' /\ KeptForCaller'
        BY <1>0, <1>3, <2>1 DEF Typed, StartsAlone, Starting, Asking, KeptForCaller, Run
      <3>3. OneAccount'
        BY <1>0, <1>2, <1>3, <2>1 DEF Typed, OneAccount, Asking, AccountTold, Run
      <3> QED
        BY <3>1, <3>2, <3>3
    <2>2. CASE Leave
      <3>1. Typed'
        BY <1>0, <1>1, <1>3, <1>4, <2>2 DEF Typed, channels, Leave
      <3>2. StartsAlone' /\ KeptForCaller'
        BY <1>0, <1>3, <2>2 DEF Typed, StartsAlone, Starting, Asking, KeptForCaller, Leave
      <3>3. OneAccount'
        BY <1>0, <1>2, <1>3, <2>2 DEF Typed, OneAccount, Asking, AccountTold, Leave
      <3> QED
        BY <3>1, <3>2, <3>3
    <2>3. CASE StoreResult
      <3>1. ~Starting /\ data.pc = "store" /\ data'.pc = "clear"
        BY <1>0, <2>3 DEF Typed, StartsAlone, StoreResult
      <3>2. mQryResult' \in {mQryResult, data.frame.no} /\ mWaitingRid' = mWaitingRid
            /\ notified' = notified
        BY <2>3 DEF StoreResult
      <3>3. mQryResult' \in 0 .. MaxRequests /\ data.frame \in AnswerFrames
        BY <1>0, <3>1, <3>2 DEF Typed, AnswerFrames, Numbers
      <3>4. Typed'
        BY <1>0, <1>1, <1>3, <1>4, <3>2, <3>3 DEF Typed, channels
      <3>5. StartsAlone'
        BY <1>3, <3>1 DEF StartsAlone, Starting
      <3>6. KeptForCaller'
        BY <1>0, <1>3, <1>4, <3>1, <3>2 DEF Typed, KeptForCaller
      <3>7. OneAccount'
        BY <1>0, <1>2, <1>3, <3>1 DEF OneAccount, Asking, AccountTold, Starting
      <3> QED
        BY <3>4, <3>5, <3>6, <3>7
    <2>4. CASE ClearWaiting
      <3>1. ~Starting /\ data.pc = "clear" /\ data'.pc = "notify"
        BY <1>0, <2>4 DEF Typed, StartsAlone, ClearWaiting
      <3>2. Typed'
        BY <1>0, <1>1, <1>3, <1>4, <2>4, <3>1 DEF Typed, channels, ClearWaiting
      <3>3. StartsAlone'
        BY <1>3, <3>1 DEF StartsAlone, Starting
      <3>4. KeptForCaller'
        BY <1>0, <1>3, <1>4, <2>4, <3>1 DEF Typed, KeptForCaller, ClearWaiting
      <3>5. OneAccount'
        BY <1>0, <1>2, <1>3, <3>1 DEF OneAccount, Asking, AccountTold, Starting
      <3> QED
        BY <3>2, <3>3, <3>4, <3>5
    <2>5. CASE Notify
      <3>1. data.pc = "notify" /\ data'.pc = "read"
        BY <1>0, <2>5 DEF Typed, Notify
      <3>2. notified' \in BOOLEAN /\ UNCHANGED result
            /\ (notified' => notified \/ main.pc \in {"accountWait", "syncWait"})
        BY <1>0, <2>5 DEF Typed, Notify
      <3>3. Typed'
        BY <1>0, <1>1, <1>3, <1>4, <3>1, <3>2 DEF Typed, channels
      <3>4. StartsAlone' /\ KeptForCaller'
        BY <1>0, <1>3, <3>1, <3>2 DEF Typed, StartsAlone, Starting, Asking, KeptForCaller
      <3>5. OneAccount'
        BY <1>0, <1>2, <1>3, <3>1, <3>2 DEF OneAccount, Asking, AccountTold
      <3> QED
        BY <3>3, <3>4, <3>5
    <2> QED
      BY <2>1, <2>2, <2>3, <2>4, <2>5
  <1> QED
    BY <1>2, <1>5 DEF IInv

(* The data thread reads the report of a session. *)
LEMMA StatusStep ==
  ASSUME IInv, ReadStatus
  PROVE  IInv'
  <1> USE DEF flags, result, history, gateway, channels
  <1>0. /\ Typed /\ Genuine /\ StartsAlone /\ OneAccount /\ KeptForCaller /\ AsyncHanded
        /\ unit # <<>> /\ unit' = Tail(unit)
        /\ UNCHANGED <<main, mCurRid, data, result, notified, inflight, history>>
    BY DEF IInv, ReadStatus
  <1>1. /\ unit' \in Seq(Frames)
        /\ \A i \in DOMAIN unit' : i + 1 \in DOMAIN unit /\ unit'[i] = unit[i + 1]
        /\ \A i, j \in DOMAIN unit' : i + 1 = j + 1 => i = j
    BY <1>0, FrameRead
  <1>2. Typed'
    BY <1>0, <1>1 DEF Typed, Frames
  <1>3. Genuine'
    BY <1>0, <1>1 DEF Genuine, IsRequest
  <1>4. StartsAlone' /\ KeptForCaller' /\ AsyncHanded'
    BY <1>0 DEF StartsAlone, Starting, Asking, KeptForCaller, AsyncHanded
  <1>5. /\ NoneOut => NoneOut'
        /\ LastOut => LastOut'
        /\ AllRead => AllRead'
        /\ EarlierRead => EarlierRead'
    BY <1>0, <1>1 DEF NoneOut, LastOut, AllRead, EarlierRead
  <1>6. OneAccount'
    BY <1>0, <1>5 DEF OneAccount, Asking, AccountTold
  <1> QED
    BY <1>2, <1>3, <1>4, <1>6 DEF IInv

(* The data thread reads an answer: it keeps it for the QrySymbolSync that *)
(* waits for its id, notes the account, or hands it to the callback.       *)
LEMMA AnswerStep ==
  ASSUME NoWrap, IInv, ReadAnswer
  PROVE  IInv'
  <1> USE StrategyAssumption DEF StrategyAssumption, None
  <1> DEFINE f == Head(unit)
  <1>0. /\ Typed /\ Genuine /\ StartsAlone /\ OneAccount /\ KeptForCaller /\ AsyncHanded
        /\ unit # <<>> /\ unit' = Tail(unit) /\ f.kind # "status"
        /\ data.pc = "read" /\ answered' = answered \cup {f.no}
        /\ UNCHANGED <<main, mCurRid, mWaitingRid, mQryResult, notified, inflight, kinds, got>>
    BY DEF IInv, ReadAnswer, DataAt, result
  <1>1. /\ f = unit[1] /\ 1 \in DOMAIN unit /\ f \in Frames
        /\ unit' \in Seq(Frames)
        /\ \A i \in DOMAIN unit' : i + 1 \in DOMAIN unit /\ unit'[i] = unit[i + 1]
        /\ \A i, j \in DOMAIN unit' : i + 1 = j + 1 => i = j
        /\ \A i \in DOMAIN unit' : i + 1 # 1
    BY <1>0, FrameRead
  <1>2. /\ f \in AnswerFrames /\ f.kind \in RequestKinds /\ f.no \in Numbers
        /\ IsRequest(f.no, f.kind)
    BY <1>0, <1>1, FrameKinds DEF Genuine
  <1>3. Rid(f.no) = f.no /\ Own(Rid(f.no)) /\ f.no # None
    BY <1>2, IdIsNumber
  <1> HIDE DEF f
  <1>4. \/ /\ f.kind = "account" /\ data' = [pc |-> "notify", frame |-> f]
           /\ handed' = handed
        \/ /\ f.kind # "account" /\ mWaitingRid = f.no
           /\ data' = [pc |-> "store", frame |-> f] /\ handed' = handed
        \/ /\ f.kind # "account" /\ mWaitingRid # f.no
           /\ handed' = handed \cup {f.no} /\ data' = data
    BY <1>3 DEF ReadAnswer, Waiting, f
  <1>5. mWaitingRid = f.no => f.kind = "sync"
    BY <1>0, <1>2, <1>3 DEF Genuine, IsRequest
  <1>6. Typed'
    <2>1. /\ data' \in [pc : DataPlaces, frame : {NoFrame} \cup AnswerFrames]
          /\ data'.pc \in {"store", "clear"} => data'.frame \in AnswerFrames
      BY <1>0, <1>2, <1>4 DEF Typed, DataPlaces
    <2> QED
      BY <1>0, <1>1, <2>1 DEF Typed, Frames
  <1>7. Genuine'
    <2>1. \A i \in DOMAIN unit' :
            unit'[i].kind # "status" => IsRequest(unit'[i].no, unit'[i].kind)
      BY <1>0, <1>1 DEF Genuine
    <2>2. answered' \subseteq 1 .. mCurRid
      BY <1>0, <1>2 DEF Genuine, IsRequest
    <2> QED
      BY <1>0, <2>1, <2>2 DEF Genuine, IsRequest
  <1>8. AsyncHanded'
    BY <1>0, <1>2, <1>4, <1>5 DEF AsyncHanded, IsRequest
  <1>9. f.kind = "account" => Asking /\ NoneOut' /\ AllRead' /\ EarlierRead' /\ ~AccountTold
    <2> SUFFICES ASSUME f.kind = "account"
                 PROVE  Asking /\ NoneOut' /\ AllRead' /\ EarlierRead' /\ ~AccountTold
      OBVIOUS
    <2>1. Asking /\ ~AccountTold
      BY <1>0, <1>1 DEF OneAccount, NoneOut
    <2>2. LastOut /\ EarlierRead
      BY <1>0, <2>1 DEF OneAccount
    <2>3. f.no = mCurRid
      BY <1>1, <2>2 DEF LastOut
    <2>4. NoneOut'
      BY <1>0, <1>1, <2>2 DEF LastOut, NoneOut
    <2>5. AllRead' /\ EarlierRead'
      <3>1. mCurRid \in Nat
        BY <1>0 DEF Typed
      <3> QED
        BY <1>0, <2>2, <2>3, <3>1 DEF AllRead, EarlierRead
    <2> QED
      BY <2>1, <2>4, <2>5
  <1>10. StartsAlone'
    BY <1>0, <1>3, <1>4, <1>9 DEF StartsAlone, Starting, Asking
  <1>11. OneAccount'
    <2>1. /\ NoneOut => NoneOut'
          /\ LastOut => LastOut'
          /\ AllRead => AllRead'
          /\ EarlierRead => EarlierRead'
      BY <1>0, <1>1 DEF NoneOut, LastOut, AllRead, EarlierRead
    <2>2. CASE f.kind = "account"
      BY <1>0, <1>4, <1>9, <2>1, <2>2 DEF OneAccount, Asking, AccountTold
    <2>3. CASE f.kind # "account"
      <3>1. data'.pc = "notify" => FALSE
        BY <1>0, <1>4, <2>3
      <3> QED
        BY <1>0, <2>1, <3>1 DEF OneAccount, Asking, AccountTold
    <2> QED
      BY <2>2, <2>3
  <1>12. KeptForCaller'
    BY <1>0, <1>3, <1>4, <1>9 DEF KeptForCaller, Asking
  <1> QED
    BY <1>6, <1>7, <1>8, <1>10, <1>11, <1>12 DEF IInv

(* The gateway reports a session, or answers or loses a request. *)
LEMMA GatewayStep ==
  ASSUME IInv,
         \/ \E s \in Sources : LogsIn(s) \/ Closes(s)
         \/ \E q \in inflight : Lose(q) \/ \E val \in {"ok", "error"} : Answer(q, val)
  PROVE  IInv'
  <1> USE DEF flags, result, history, gateway
  <1>0. Typed /\ Genuine /\ StartsAlone /\ OneAccount /\ KeptForCaller /\ AsyncHanded
    BY DEF IInv
  <1>1. /\ UNCHANGED <<main, mCurRid, data, result, notified, kinds, handed, got, answered>>
        /\ inflight' \subseteq inflight
    BY DEF LogsIn, Closes, Session, Lose, Answer
  <1>2. /\ unit' \in Seq(Frames)
        /\ \A i \in DOMAIN unit' :
             \/ i \in DOMAIN unit /\ unit'[i] = unit[i]
             \/ unit'[i].kind = "status"
             \/ \E q \in inflight \ inflight' : unit'[i].kind = q.kind /\ unit'[i].no = q.no
        /\ \A i, j \in DOMAIN unit' :
             \/ i \in DOMAIN unit /\ unit'[i] = unit[i]
             \/ j \in DOMAIN unit /\ unit'[j] = unit[j]
             \/ i = j
    <2>1. ASSUME NEW s \in Sources, LogsIn(s) \/ Closes(s)
          PROVE  <1>2!1 /\ <1>2!2 /\ <1>2!3
      <3>1. PICK st \in Statuses :
              unit' = Append(unit, [kind |-> "status", source |-> s, val |-> st])
        BY <2>1 DEF LogsIn, Closes, Session, Report, Statuses
      <3> DEFINE f == [kind |-> "status", source |-> s, val |-> st]
      <3>2. f \in Frames /\ f.kind = "status" /\ unit' = Append(unit, f)
        BY <3>1 DEF Frames, StatusFrames
      <3> HIDE DEF f
      <3> QED
        BY <1>0, <3>2, FrameWritten
    <2>2. ASSUME NEW q \in inflight, Lose(q)
          PROVE  <1>2!1 /\ <1>2!2 /\ <1>2!3
      BY <1>0, <2>2 DEF Lose, Typed, Frames
    <2>3. ASSUME NEW q \in inflight, NEW val \in {"ok", "error"}, Answer(q, val)
          PROVE  <1>2!1 /\ <1>2!2 /\ <1>2!3
      <3> DEFINE f == [kind |-> q.kind, no |-> q.no, val |-> val]
      <3>1. /\ f \in Frames /\ f.kind = q.kind /\ f.no = q.no
            /\ unit' = Append(unit, f) /\ q \in inflight \ inflight'
        BY <1>0, <2>3 DEF Answer, Typed, Frames, AnswerFrames
      <3> HIDE DEF f
      <3> QED
        BY <1>0, <3>1, FrameWritten
    <2> QED
      BY <2>1, <2>2, <2>3
  <1>3. Typed'
    BY <1>0, <1>1, <1>2 DEF Typed, Frames
  <1>4. Genuine'
    <2>1. \A i \in DOMAIN unit' :
            unit'[i].kind # "status" => IsRequest(unit'[i].no, unit'[i].kind)
      <3> SUFFICES ASSUME NEW i \in DOMAIN unit', unit'[i].kind # "status"
                   PROVE  IsRequest(unit'[i].no, unit'[i].kind)
        OBVIOUS
      <3>1. CASE i \in DOMAIN unit /\ unit'[i] = unit[i]
        BY <1>0, <3>1 DEF Genuine
      <3>2. CASE \E q \in inflight \ inflight' : unit'[i].kind = q.kind /\ unit'[i].no = q.no
        BY <1>0, <3>2 DEF Genuine
      <3> QED
        BY <1>2, <3>1, <3>2
    <2>2. \A q \in inflight' : IsRequest(q.no, q.kind)
      BY <1>0, <1>1 DEF Genuine
    <2> QED
      BY <1>0, <1>1, <2>1, <2>2 DEF Genuine, IsRequest
  <1>5. StartsAlone' /\ KeptForCaller' /\ AsyncHanded'
    BY <1>0, <1>1 DEF StartsAlone, Starting, Asking, KeptForCaller, AsyncHanded
  <1>6. NoneOut => NoneOut'
    BY <1>1, <1>2 DEF NoneOut
  <1>7. LastOut => LastOut'
    BY <1>1, <1>2 DEF LastOut
  <1>8. AllRead' = AllRead /\ EarlierRead' = EarlierRead
    BY <1>1 DEF AllRead, EarlierRead
  <1>9. OneAccount'
    BY <1>0, <1>1, <1>6, <1>7, <1>8 DEF OneAccount, Asking, AccountTold
  <1> QED
    BY <1>3, <1>4, <1>5, <1>9 DEF IInv

-----------------------------------------------------------------------------
(* The theorems.                                                           *)

LEMMA InvariantKept == ASSUME NoWrap, IInv, [Next]_vars PROVE IInv'
  <1>1. CASE Start
    BY <1>1, MainStep, RequestStep DEF Start
  <1>2. CASE Waits \/ Ends \/ Signal
    BY <1>2, MainStep DEF Waits, Ends
  <1>3. CASE DataThread
    BY <1>3, DataStep, StatusStep, AnswerStep DEF DataThread
  <1>4. CASE Answers
    BY <1>4, GatewayStep DEF Answers
  <1>5. CASE \E s \in Sources : QrySymbol(s) \/ QrySymbolSync(s) \/ LogsIn(s) \/ Closes(s)
    BY <1>5, RequestStep, GatewayStep
  <1>6. CASE \E q \in inflight : Lose(q)
    BY <1>6, GatewayStep
  <1>7. CASE UNCHANGED vars
    BY <1>7 DEF vars, result, history, IInv, Typed, Genuine, IsRequest, StartsAlone, Starting,
                Asking, OneAccount, NoneOut, LastOut, AllRead, EarlierRead, AccountTold,
                KeptForCaller, AsyncHanded
  <1> QED
    BY <1>1, <1>2, <1>3, <1>4, <1>5, <1>6, <1>7 DEF Next

LEMMA InvariantHolds == ASSUME NoWrap PROVE Spec => []IInv
  <1>1. IInv /\ [Next]_vars => IInv'
    BY InvariantKept
  <1>2. Init => IInv
    BY InitInvariant
  <1> QED
    BY <1>1, <1>2, PTL DEF Spec

(* What is asked for with a callback is answered by it, and never taken    *)
(* for the answer of a QrySymbolSync, also after one has come to its time  *)
(* limit and left mWaitingRid as it was (OnRspQrySymbol, GetRid).          *)
THEOREM CallbacksGetAnswers == ASSUME NoWrap PROVE Spec => []AsyncHanded
  <1>1. IInv => AsyncHanded
    BY DEF IInv
  <1> QED
    BY <1>1, InvariantHolds, PTL

(* As long as none has come to its time limit, QrySymbolSync returns the   *)
(* symbol it was asked for, whatever the gateway loses, refuses or answers *)
(* in whatever order (QrySymbolSync, OnRspQrySymbol).                      *)
THEOREM SyncIsAnswered == ASSUME NoWrap PROVE Spec => []SyncGetsItsAnswer
  <1>1. IInv => SyncGetsItsAnswer
    BY DEF IInv, KeptForCaller, SyncGetsItsAnswer
  <1> QED
    BY <1>1, InvariantHolds, PTL

(* When Start has returned with all sources logged in, the data thread has *)
(* read the answer to every account query: a notification that comes       *)
(* before the wait blocks Start, but never lets it go on too early (Start, *)
(* OnRspQryTradingAccount).                                                *)
THEOREM StartReadsAccounts == ASSUME NoWrap PROVE Spec => []AccountsRead
  <1>1. IInv => AccountsRead
    BY DEF IInv, Typed, OneAccount, Asking, AllRead, AccountsRead
  <1> QED
    BY <1>1, InvariantHolds, PTL

=============================================================================
