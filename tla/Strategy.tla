----------------------------- MODULE Strategy -----------------------------
(***************************************************************************)
(* A strategy process: its main thread, which starts the data thread, logs *)
(* in, queries and stops, and its data thread, which reads the unit the    *)
(* trade gateway answers in (DCSSStrategyImpl, DCSSDataWrapper).  The two  *)
(* meet in mWaitingRid, mQryResult, mErrorMsg, mForceStop, mTdStatus and a *)
(* condition variable that is waited for without a predicate.              *)
(***************************************************************************)
EXTENDS Integers, Sequences, FiniteSets

CONSTANTS
  Sources,        \* the exchanges of the configuration
  RidRange,       \* REQUEST_ID_RANGE
  MaxRequests,    \* bound: requests
  MaxDown,        \* bound: sessions that end
  MayTimeOut,     \* whether QrySymbolSync may run into its time limit
  MayLose,        \* whether the gateway may leave a request unanswered
  Early           \* whether a signal may come before the data thread runs

ASSUME StrategyAssumption ==
  /\ Sources # {} /\ RidRange \in Nat \ {0}
  /\ MaxRequests \in Nat /\ MaxDown \in Nat
  /\ {MayTimeOut, MayLose, Early} \subseteq BOOLEAN

mRidStart == 1
mRidEnd == mRidStart + RidRange - 1
Statuses == {"Added", "Requested", "Connected", "Logined", "Disconnected"}
None == 0

VARIABLES
  main,          \* where the main thread is, and the request it waits for
  todo,          \* sources whose account Start has not queried yet
  mCurRid,       \* requests made so far
  data,          \* where the data thread is, and the frame it works on
  mTdStatus, mForceStop, mSignalReceived, mWaitingRid, mQryResult, mErrorMsg,
  notified,      \* whether the main thread's wait is over
  aborted,       \* std::terminate was called
  session,       \* the gateway's session with each exchange
  downs,         \* sessions that have ended (bounds the model)
  inflight,      \* requests the gateway has and has not answered
  unit,          \* the frames of the gateway's unit not read yet
  kinds,         \* what each request was
  handed,        \* requests whose answer was given to the strategy's callback
  got,           \* the last answer of QrySymbolSync: the request, the symbol's
                 \* request, and whether one of them has come to its time limit
  answered       \* requests whose answer the data thread has read

gateway == <<session, downs>>
flags == <<mForceStop, mSignalReceived>>
result == <<mWaitingRid, mQryResult, mErrorMsg>>
history == <<kinds, handed, got, answered>>
vars == <<main, todo, mCurRid, data, mTdStatus, flags, result, notified, aborted,
          gateway, inflight, unit, history>>

(***************************************************************************)
(* Requests                                                                *)
(***************************************************************************)

(* StrategyUtil::GetRid *)
Rid(n) == ((n - 1) % RidRange) + mRidStart

(* GetRid and WriteFrame: request number mCurRid + 1 goes to the gateway. *)
Write(kind, s) ==
  /\ mCurRid < MaxRequests
  /\ mCurRid' = mCurRid + 1
  /\ kinds' = Append(kinds, kind)
  /\ inflight' = inflight \cup {[no |-> mCurRid + 1, kind |-> kind, source |-> s]}

Running == ~aborted
At(pc) == Running /\ main.pc = pc
GoTo(pc) == main' = [main EXCEPT !.pc = pc]

(***************************************************************************)
(* The main thread: Start                                                  *)
(***************************************************************************)

(* The reader is made, the data thread created, the login requested. *)
StartThread ==
  /\ At("new")
  /\ GoTo("connect")
  /\ data' = [data EXCEPT !.pc = "start"]
  /\ mTdStatus' = [s \in Sources |-> "Requested"]
  /\ session' = [s \in Sources |-> "connecting"]
  /\ UNCHANGED <<todo, mCurRid, flags, result, notified, aborted, downs, inflight, unit,
                 history>>

IsAllLogined == \A s \in Sources : mTdStatus[s] = "Logined"

Connected ==
  /\ At("connect") /\ IsAllLogined
  /\ GoTo("query")
  /\ UNCHANGED <<todo, mCurRid, data, mTdStatus, flags, result, notified, aborted,
                 gateway, inflight, unit, history>>

(* After ten seconds, or after a signal, the data thread is stopped and    *)
(* Start returns.  In ten seconds the data thread has begun to run.        *)
LoginTimeout ==
  /\ At("connect") /\ ~IsAllLogined
  /\ mSignalReceived \/ (MayTimeOut /\ data.pc # "start")
  /\ mForceStop' = TRUE
  /\ GoTo("failed")
  /\ UNCHANGED <<todo, mCurRid, data, mTdStatus, mSignalReceived, result, notified,
                 aborted, gateway, inflight, unit, history>>

(* QryTradingAccount *)
QueryAccount(s) ==
  /\ At("query") /\ s \in todo
  /\ Write("account", s)
  /\ todo' = todo \ {s}
  /\ GoTo("account")
  /\ UNCHANGED <<data, mTdStatus, flags, result, notified, aborted, gateway, unit, handed,
                 got, answered>>

(* mCondVar.wait: what was notified before is not seen. *)
WaitAccount ==
  /\ At("account")
  /\ GoTo("accountWait")
  /\ notified' = FALSE
  /\ UNCHANGED <<todo, mCurRid, data, mTdStatus, flags, result, aborted, gateway,
                 inflight, unit, history>>

AccountDone ==
  /\ At("accountWait") /\ notified
  /\ GoTo("query")
  /\ UNCHANGED <<todo, mCurRid, data, mTdStatus, flags, result, notified, aborted,
                 gateway, inflight, unit, history>>

Started ==
  /\ At("query") /\ todo = {}
  /\ GoTo("ready")
  /\ UNCHANGED <<todo, mCurRid, data, mTdStatus, flags, result, notified, aborted,
                 gateway, inflight, unit, history>>

(***************************************************************************)
(* The main thread: queries                                                *)
(***************************************************************************)

(* QrySymbol, and the other requests that do not wait. *)
QrySymbol(s) ==
  /\ At("ready")
  /\ Write("symbol", s)
  /\ UNCHANGED <<main, todo, data, mTdStatus, flags, result, notified, aborted, gateway,
                 unit, handed, got, answered>>

QrySymbolSync(s) ==
  /\ At("ready")
  /\ Write("sync", s)
  /\ mWaitingRid' = Rid(mCurRid + 1)
  /\ main' = [pc |-> "sync", no |-> mCurRid + 1]
  /\ UNCHANGED <<todo, data, mTdStatus, flags, mQryResult, mErrorMsg, notified, aborted,
                 gateway, unit, handed, got, answered>>

(* mCondVar.wait_for *)
WaitSymbol ==
  /\ At("sync")
  /\ GoTo("syncWait")
  /\ notified' = FALSE
  /\ UNCHANGED <<todo, mCurRid, data, mTdStatus, flags, result, aborted, gateway,
                 inflight, unit, history>>

(* Mutant of TakeResult: the result is kept for the next query. *)
TakeResultKept ==
  /\ At("syncWait") /\ notified
  /\ GoTo("ready")
  /\ got' = [got EXCEPT !.no = main.no, !.symbol = mQryResult]
  /\ UNCHANGED <<todo, mCurRid, data, mTdStatus, flags, result, notified, aborted,
                 gateway, inflight, unit, kinds, handed, answered>>

(* The wait is over: the result is returned, or an error. *)
TakeResult ==
  /\ At("syncWait") /\ notified
  /\ GoTo("ready")
  /\ got' = [got EXCEPT !.no = main.no, !.symbol = mQryResult]
  /\ IF mQryResult # None
     THEN mQryResult' = None /\ UNCHANGED mErrorMsg
     ELSE mErrorMsg' = None /\ UNCHANGED mQryResult
  /\ UNCHANGED <<todo, mCurRid, data, mTdStatus, flags, mWaitingRid, notified, aborted,
                 gateway, inflight, unit, kinds, handed, answered>>

(* Mutant of TimeOut: wait in the place of wait_for. *)
NeverTimeOut == FALSE

(* The time limit: mWaitingRid stays as it is. *)
TimeOut ==
  /\ At("syncWait") /\ ~notified /\ MayTimeOut
  /\ GoTo("ready")
  /\ got' = [no |-> main.no, symbol |-> None, late |-> TRUE]
  /\ UNCHANGED <<todo, mCurRid, data, mTdStatus, flags, result, notified, aborted,
                 gateway, inflight, unit, kinds, handed, answered>>

(***************************************************************************)
(* The main thread: the end                                                *)
(***************************************************************************)

Returned == At("ready") \/ At("failed")

(* Stop *)
Stop ==
  /\ Returned /\ ~mForceStop
  /\ mForceStop' = TRUE
  /\ UNCHANGED <<main, todo, mCurRid, data, mTdStatus, mSignalReceived, result, notified,
                 aborted, gateway, inflight, unit, history>>

(* Block: the data thread is joined when it has ended. *)
Block ==
  /\ Returned /\ data.pc = "ended"
  /\ GoTo("joined")
  /\ UNCHANGED <<todo, mCurRid, data, mTdStatus, flags, result, notified, aborted,
                 gateway, inflight, unit, history>>

(* Terminate: Stop, and the thread object is destroyed.  That of a thread  *)
(* nobody has joined calls std::terminate.                                 *)
Terminate ==
  /\ Returned \/ At("joined")
  /\ mForceStop' = TRUE
  /\ GoTo("terminated")
  /\ aborted' = (main.pc # "joined")
  /\ UNCHANGED <<todo, mCurRid, data, mTdStatus, mSignalReceived, result, notified,
                 gateway, inflight, unit, history>>

(* SignalHandler *)
Signal ==
  /\ Running /\ ~mSignalReceived /\ main.pc # "new"
  /\ Early \/ data.pc # "start"
  /\ mSignalReceived' = TRUE
  /\ UNCHANGED <<main, todo, mCurRid, data, mTdStatus, mForceStop, result, notified,
                 aborted, gateway, inflight, unit, history>>

(***************************************************************************)
(* The data thread: DCSSDataWrapper::Run                                   *)
(***************************************************************************)

DataAt(pc) == Running /\ data.pc = pc
DataGoTo(pc) == data' = [data EXCEPT !.pc = pc]

(* Both flags are set anew, whatever has been asked for meanwhile. *)
Run ==
  /\ DataAt("start")
  /\ DataGoTo("read")
  /\ mForceStop' = FALSE /\ mSignalReceived' = FALSE
  /\ UNCHANGED <<main, todo, mCurRid, mTdStatus, result, notified, aborted, gateway,
                 inflight, unit, history>>

Looping == ~mForceStop /\ ~mSignalReceived

(* Mutants of Leave: the loop tests one of the flags only. *)
LeaveOnStop ==
  /\ DataAt("read") /\ mForceStop
  /\ DataGoTo("ended")
  /\ UNCHANGED <<main, todo, mCurRid, mTdStatus, flags, result, notified, aborted, gateway,
                 inflight, unit, history>>

LeaveOnSignal ==
  /\ DataAt("read") /\ mSignalReceived
  /\ DataGoTo("ended")
  /\ UNCHANGED <<main, todo, mCurRid, mTdStatus, flags, result, notified, aborted, gateway,
                 inflight, unit, history>>

Leave ==
  /\ DataAt("read") /\ ~Looping
  /\ DataGoTo("ended")
  /\ UNCHANGED <<main, todo, mCurRid, mTdStatus, flags, result, notified, aborted,
                 gateway, inflight, unit, history>>

(* MSG_TYPE_RTN_TD_STATUS *)
ReadStatus ==
  /\ DataAt("read") /\ Looping
  /\ unit # <<>> /\ Head(unit).kind = "status"
  /\ mTdStatus' = [mTdStatus EXCEPT ![Head(unit).source] = Head(unit).val]
  /\ unit' = Tail(unit)
  /\ UNCHANGED <<main, todo, mCurRid, data, flags, result, notified, aborted, gateway,
                 inflight, history>>

(* Only answers with an own request id go on. *)
Own(rid) == rid >= mRidStart /\ rid < mRidEnd

(* Mutant of Waiting: every symbol is taken for the one waited for. *)
WaitingAny(rid) == mWaitingRid # None
Waiting(rid) == mWaitingRid = rid

(* MSG_TYPE_RSP_...: dispatched to the strategy, or kept for those that wait. *)
ReadAnswer ==
  /\ DataAt("read") /\ Looping
  /\ unit # <<>> /\ Head(unit).kind # "status"
  /\ unit' = Tail(unit)
  /\ LET f == Head(unit)
         rid == Rid(f.no) IN
     /\ answered' = answered \cup {f.no}
     /\ CASE ~Own(rid) -> UNCHANGED <<data, handed>>
          [] Own(rid) /\ f.kind = "account" ->
               data' = [pc |-> "notify", frame |-> f] /\ UNCHANGED handed
          [] Own(rid) /\ f.kind # "account" /\ Waiting(rid) ->
               data' = [pc |-> "store", frame |-> f] /\ UNCHANGED handed
          [] Own(rid) /\ f.kind # "account" /\ ~Waiting(rid) ->
               handed' = handed \cup {f.no} /\ UNCHANGED data
  /\ UNCHANGED <<main, todo, mCurRid, mTdStatus, flags, result, notified, aborted, gateway,
                 inflight, kinds, got>>

(* OnRspQrySymbol: the result, then mWaitingRid, then the notification. *)
StoreResult ==
  /\ DataAt("store")
  /\ DataGoTo("clear")
  /\ IF data.frame.val = "error"
     THEN mErrorMsg' = data.frame.no /\ UNCHANGED mQryResult
     ELSE mQryResult' = data.frame.no /\ UNCHANGED mErrorMsg
  /\ UNCHANGED <<main, todo, mCurRid, mTdStatus, flags, mWaitingRid, notified, aborted,
                 gateway, inflight, unit, history>>

ClearWaiting ==
  /\ DataAt("clear")
  /\ DataGoTo("notify")
  /\ mWaitingRid' = None
  /\ UNCHANGED <<main, todo, mCurRid, mTdStatus, flags, mQryResult, mErrorMsg, notified,
                 aborted, gateway, inflight, unit, history>>

(* notify_one: it ends the wait of a thread that waits, and nothing else. *)
Notify ==
  /\ DataAt("notify")
  /\ DataGoTo("read")
  /\ notified' = (notified \/ main.pc \in {"accountWait", "syncWait"})
  /\ UNCHANGED <<main, todo, mCurRid, mTdStatus, flags, result, aborted, gateway, inflight,
                 unit, history>>

(***************************************************************************)
(* The gateway, as the strategy sees it                                    *)
(***************************************************************************)

Report(s, status) ==
  unit' = Append(unit, [kind |-> "status", source |-> s, val |-> status])

(* OnWsConnected, Login, OnWsClose *)
Session(s, from, to, status) ==
  /\ session[s] = from
  /\ session' = [session EXCEPT ![s] = to]
  /\ Report(s, status)
  /\ UNCHANGED <<main, todo, mCurRid, data, mTdStatus, flags, result, notified, aborted,
                 inflight, history>>

LogsIn(s) ==
  /\ \/ Session(s, "connecting", "connected", "Connected")
     \/ Session(s, "connected", "logged", "Logined")
  /\ UNCHANGED downs

Closes(s) ==
  /\ downs < MaxDown /\ downs' = downs + 1
  /\ \E from \in {"connected", "logged"} : Session(s, from, "closed", "Disconnected")

(* A request is answered, with an error or without one; the answers come   *)
(* in any order.                                                           *)
Answer(q, val) ==
  /\ q \in inflight /\ session[q.source] = "logged"
  /\ inflight' = inflight \ {q}
  /\ unit' = Append(unit, [kind |-> q.kind, no |-> q.no, val |-> val])
  /\ UNCHANGED <<main, todo, mCurRid, data, mTdStatus, flags, result, notified, aborted,
                 gateway, history>>

(* The session is not logged in, or the exchange's answer cannot be parsed. *)
Lose(q) ==
  /\ MayLose /\ q \in inflight
  /\ inflight' = inflight \ {q}
  /\ UNCHANGED <<main, todo, mCurRid, data, mTdStatus, flags, result, notified, aborted,
                 gateway, unit, history>>

(***************************************************************************)
(* Specification                                                           *)
(***************************************************************************)

Init ==
  /\ main = [pc |-> "new", no |-> 0] /\ todo = Sources /\ mCurRid = 0
  /\ data = [pc |-> "off", frame |-> [kind |-> "none"]]
  /\ mTdStatus = [s \in Sources |-> "Added"]
  /\ mForceStop = FALSE /\ mSignalReceived = FALSE
  /\ mWaitingRid = None /\ mQryResult = None /\ mErrorMsg = None
  /\ notified = FALSE /\ aborted = FALSE
  /\ session = [s \in Sources |-> "off"] /\ downs = 0 /\ inflight = {} /\ unit = <<>>
  /\ kinds = <<>> /\ handed = {} /\ answered = {}
  /\ got = [no |-> 0, symbol |-> None, late |-> FALSE]

Start ==
  \/ StartThread \/ Connected \/ LoginTimeout \/ WaitAccount \/ AccountDone \/ Started
  \/ \E s \in Sources : QueryAccount(s)
Waits == WaitSymbol \/ TakeResult \/ TimeOut
Ends == Stop \/ Block \/ Terminate
DataThread ==
  \/ Run \/ Leave \/ ReadStatus \/ ReadAnswer \/ StoreResult \/ ClearWaiting \/ Notify
Answers == \E q \in inflight : \E val \in {"ok", "error"} : Answer(q, val)

Next ==
  \/ Start \/ Waits \/ Ends \/ Signal \/ DataThread \/ Answers
  \/ \E s \in Sources : QrySymbol(s) \/ QrySymbolSync(s) \/ LogsIn(s) \/ Closes(s)
  \/ \E q \in inflight : Lose(q)

Spec == Init /\ [][Next]_vars

(* Both threads run and the gateway does its work; what the strategy's own *)
(* code calls, the end of a session and signals are not forced.            *)
FairSpec ==
  /\ Spec
  /\ WF_vars(Start) /\ WF_vars(Waits) /\ WF_vars(DataThread) /\ WF_vars(Answers)
  /\ \A s \in Sources : WF_vars(LogsIn(s))

(***************************************************************************)
(* Properties                                                              *)
(***************************************************************************)

Numbers == 1 .. MaxRequests

(* Every variable has its type. *)
TypeOK ==
  /\ main \in [pc : {"new", "connect", "query", "account", "accountWait", "ready", "sync",
                     "syncWait", "failed", "joined", "terminated"}, no : 0 .. MaxRequests]
  /\ todo \subseteq Sources /\ mCurRid \in 0 .. MaxRequests
  /\ data.pc \in {"off", "start", "read", "store", "clear", "notify", "ended"}
  /\ mTdStatus \in [Sources -> Statuses]
  /\ {mForceStop, mSignalReceived, notified, aborted} \subseteq BOOLEAN
  /\ mWaitingRid \in {None} \cup (mRidStart .. mRidEnd)
  /\ mQryResult \in {None} \cup Numbers /\ mErrorMsg \in {None} \cup Numbers
  /\ session \in [Sources -> {"off", "connecting", "connected", "logged", "closed"}]
  /\ inflight \subseteq [no : Numbers, kind : {"account", "symbol", "sync"},
                         source : Sources]
  /\ handed \subseteq Numbers /\ answered \subseteq Numbers
  /\ got \in [no : 0 .. MaxRequests, symbol : 0 .. MaxRequests, late : BOOLEAN]

(* As long as none has come to its time limit, QrySymbolSync returns the   *)
(* symbol it was asked for, never that of another request, whatever errors *)
(* came before (QrySymbolSync, OnRspQrySymbol).                            *)
SyncGetsItsAnswer == ~got.late => got.symbol \in {None, got.no}

(* It does so after a time-out as well. *)
SyncNeverStale == got.symbol \in {None, got.no}

(* The answer to a request that does not wait is given to the strategy's   *)
(* callback, never to a QrySymbolSync (OnRspQrySymbol, GetRid).            *)
AsyncHanded == \A n \in answered : kinds[n] = "symbol" => n \in handed

(* When Start has returned with all sources logged in, the answer to every *)
(* account query has been read (Start, OnRspQryTradingAccount).            *)
AccountsRead ==
  main.pc \in {"ready", "sync", "syncWait"} =>
    \A n \in DOMAIN kinds : kinds[n] = "account" => n \in answered

(* QrySymbolSync comes back, with an answer, an error or a time-out.       *)
SyncReturns == main.pc = "syncWait" ~> main.pc # "syncWait"

(* After Stop or a signal the data thread ends (Stop, SignalHandler, Run). *)
StopStops == mForceStop \/ mSignalReceived ~> data.pc = "ended" \/ aborted

(* Start comes back once it has a source to query.                         *)
StartReturns == main.pc = "accountWait" ~> main.pc # "accountWait"

(* The process is never aborted by its own end (Terminate).                *)
NeverAborted == ~aborted
=============================================================================
