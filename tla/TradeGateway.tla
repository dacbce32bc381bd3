--------------------------- MODULE TradeGateway ---------------------------
(***************************************************************************)
(* The trade gateway.  Its engine thread reads logins and ends of          *)
(* strategies from the system unit; for each strategy it loads an ITGSpi,  *)
(* which logs in at each exchange of the strategy's configuration, one     *)
(* after the other, and then gets a thread that reads the strategy's       *)
(* requests and passes them on (ITGEngine, ITGSpi, the sessions of OKTGApi *)
(* and BinaTGApi).                                                         *)
(***************************************************************************)
EXTENDS Integers, Sequences, FiniteSets

CONSTANTS
  Clients,       \* strategies
  Sources,       \* the exchanges of their configurations
  MaxSessions,   \* bound: times a strategy is started
  MaxRequests,   \* bound: requests of one strategy
  Refused,       \* strategies whose configuration may be bad, or whose
                 \* connection or login an exchange may not accept
  Uninitialised, \* exchanges whose login flag is not set before the login
  LateThreads,   \* whether an end may be read before the reader thread runs,
                 \* or a connection closed before its ping thread does
  Lost,          \* whether a connection may be closed abnormally
  Signals,       \* whether the gateway may get a signal
  Hasty,         \* whether a strategy may be started again before the
                 \* gateway has dealt with its end
  Forgotten      \* whether the page engine may be restarted while a strategy
                 \* runs, which it then does not know

GatewayAssumption ==
  /\ Sources # {} /\ Refused \subseteq Clients /\ Uninitialised \subseteq Sources
  /\ MaxSessions \in Nat /\ MaxRequests \in Nat
  /\ {LateThreads, Lost, Signals, Hasty, Forgotten} \subseteq BOOLEAN

VARIABLES
  strat,         \* each strategy: whether it runs, how often it was started
  tdStatus,      \* what each strategy knows of its sessions
  statuses,      \* status frames it has not read (in its "_TG" unit)
  requests,      \* its unit: source and session of each request
  sys,           \* frames of the system unit the engine has not read
  engine,        \* where the engine thread is, for whom, sources to load,
                 \* and the one being loaded
  spi,           \* the session each ITGSpi was loaded for; 0: there is none
  inMap,         \* mSpiMap
  next,          \* the request each ITGSpi reads next
  thread,        \* the reader thread of each ITGSpi
  mIsRunning,    \* its flag
  api,           \* the connection to each exchange
  isLogged,      \* IsLogged of each connection
  passed,        \* requests passed on, and the ITGSpi's session
  aborted        \* what the gateway came to grief by

strategies == <<strat, tdStatus, requests>>
spis == <<spi, inMap, next, thread, mIsRunning>>
apis == <<api, isLogged>>
vars == <<strategies, statuses, sys, engine, spis, apis, passed, aborted>>

Reading == [pc |-> "read", of |-> "nobody", left |-> {}, now |-> "none"]
Alive == aborted = "no"

(***************************************************************************)
(* The strategies                                                          *)
(***************************************************************************)

Settled(c) ==
  /\ \A i \in DOMAIN sys : sys[i].name # c
  /\ engine.of # c
  /\ \A s \in Sources : api[c][s] \notin {"connecting", "connected", "reporting"}

(* It is started: its reader begins at the end of the "_TG" unit; LoginTd. *)
Login(c) ==
  /\ ~strat[c].runs /\ strat[c].starts < MaxSessions
  /\ Hasty \/ Settled(c)
  /\ strat' = [strat EXCEPT ![c] = [runs |-> TRUE, starts |-> @.starts + 1]]
  /\ tdStatus' = [tdStatus EXCEPT ![c] = [s \in Sources |-> "Requested"]]
  /\ statuses' = [statuses EXCEPT ![c] = <<>>]
  /\ sys' = Append(sys, [msg |-> "login", name |-> c])
  /\ UNCHANGED <<requests, engine, spis, apis, passed, aborted>>

(* MSG_TYPE_STRATEGY_END *)
End(c) ==
  /\ strat[c].runs
  /\ strat' = [strat EXCEPT ![c].runs = FALSE]
  /\ sys' = Append(sys, [msg |-> "end", name |-> c])
  /\ UNCHANGED <<tdStatus, statuses, requests, engine, spis, apis, passed, aborted>>

(* It ends unknown to the page engine, which writes no frame (ExitClient). *)
EndUnseen(c) ==
  /\ Forgotten /\ strat[c].runs
  /\ strat' = [strat EXCEPT ![c].runs = FALSE]
  /\ UNCHANGED <<tdStatus, statuses, requests, sys, engine, spis, apis, passed, aborted>>

(* It registers and ends, and Start, with its LoginTd, is never called. *)
EndUnstarted(c) ==
  /\ ~strat[c].runs /\ strat[c].starts < MaxSessions
  /\ Hasty \/ Settled(c)
  /\ strat' = [strat EXCEPT ![c].starts = @ + 1]
  /\ sys' = Append(sys, [msg |-> "end", name |-> c])
  /\ UNCHANGED <<tdStatus, statuses, requests, engine, spis, apis, passed, aborted>>

ReadStatus(c) ==
  /\ strat[c].runs /\ statuses[c] # <<>>
  /\ LET f == Head(statuses[c]) IN
       tdStatus' = [tdStatus EXCEPT ![c][f.source] = f.status]
  /\ statuses' = [statuses EXCEPT ![c] = Tail(@)]
  /\ UNCHANGED <<strat, requests, sys, engine, spis, apis, passed, aborted>>

(* A request for an exchange the strategy is logged in at (IsTdReady). *)
Request(c, s) ==
  /\ strat[c].runs /\ tdStatus[c][s] = "Logined" /\ Len(requests[c]) < MaxRequests
  /\ requests' = [requests EXCEPT ![c] = Append(@, [source |-> s,
                                                    session |-> strat[c].starts])]
  /\ UNCHANGED <<strat, tdStatus, statuses, sys, engine, spis, apis, passed, aborted>>

(***************************************************************************)
(* The engine thread: ITGEngine::Listening                                 *)
(***************************************************************************)

First == Head(sys)
Reads(msg) == Alive /\ engine = Reading /\ sys # <<>> /\ First.msg = msg

(* RegisterClient: a strategy that is there already is rejected. *)
Reject ==
  /\ Reads("login") /\ inMap[First.name]
  /\ sys' = Tail(sys)
  /\ UNCHANGED <<strategies, statuses, engine, spis, apis, passed, aborted>>

(* Mutant of ReadFrom: one request is passed over. *)
ReadFromAfterNext(c) == Len(requests[c]) + 2

(* UnitReader::Create with the present time. *)
ReadFrom(c) == Len(requests[c]) + 1

(* RegisterClient, ITGSpi::Load: writer and reader are made. *)
Accept ==
  /\ Reads("login") /\ ~inMap[First.name]
  /\ LET c == First.name IN
     /\ engine' = [Reading EXCEPT !.pc = "load", !.of = c, !.left = Sources]
     /\ spi' = [spi EXCEPT ![c] = strat[c].starts]
     /\ next' = [next EXCEPT ![c] = ReadFrom(c)]
  /\ sys' = Tail(sys)
  /\ UNCHANGED <<strategies, statuses, inMap, thread, mIsRunning, apis, passed, aborted>>

(* Load: the next exchange is connected to (OKTGApi does not initialise    *)
(* IsLoggined) ... *)
Connect(s) ==
  /\ Alive /\ engine.pc = "load" /\ s \in engine.left
  /\ \E b \in BOOLEAN :
       /\ b => s \in Uninitialised
       /\ isLogged' = [isLogged EXCEPT ![engine.of][s] = b]
  /\ api' = [api EXCEPT ![engine.of][s] = "connecting"]
  /\ engine' = [engine EXCEPT !.pc = "wait", !.left = @ \ {s}, !.now = s]
  /\ UNCHANGED <<strategies, statuses, sys, spis, passed, aborted>>

(* ... and its login waited for.  The condition of the loop never becomes  *)
(* false by the time, as startTime < 10 s is compared, not a difference.   *)
Logged ==
  /\ Alive /\ engine.pc = "wait" /\ isLogged[engine.of][engine.now]
  /\ engine' = [engine EXCEPT !.pc = "test"]
  /\ UNCHANGED <<strategies, statuses, sys, spis, apis, passed, aborted>>

(* The flag is read again: the api goes into mApiMap ... *)
StillLogged ==
  /\ Alive /\ engine.pc = "test" /\ isLogged[engine.of][engine.now]
  /\ engine' = [engine EXCEPT !.pc = "load", !.now = "none"]
  /\ UNCHANGED <<strategies, statuses, sys, spis, apis, passed, aborted>>

(* ... or Load fails, as it does when the next account is of no exchange   *)
(* there is, or not what Load expects. *)
Fail ==
  /\ Alive
  /\ \/ engine.pc = "test" /\ ~isLogged[engine.of][engine.now]
     \/ engine.pc = "load" /\ engine.of \in Refused
  /\ engine' = [engine EXCEPT !.pc = "fail", !.left = {}]
  /\ UNCHANGED <<strategies, statuses, sys, spis, apis, passed, aborted>>

(* LoadAccount throws for want of a key, or Connect of BinaTGApi, which    *)
(* asks for a listenKey and waits, when the api has no connection yet.     *)
Throw(s) ==
  /\ Alive /\ engine.pc = "load" /\ s \in engine.left /\ engine.of \in Refused
  /\ api' = [api EXCEPT ![engine.of][s] = "failed"]
  /\ engine' = [engine EXCEPT !.pc = "fail", !.left = {}, !.now = s]
  /\ UNCHANGED <<strategies, statuses, sys, spis, isLogged, passed, aborted>>

(* SetReaderThread, and the ITGSpi goes into the map. *)
Loaded ==
  /\ Alive /\ engine.pc = "load" /\ engine.left = {}
  /\ LET c == engine.of IN
     /\ mIsRunning' = [mIsRunning EXCEPT ![c] = FALSE]
     /\ thread' = [thread EXCEPT ![c] = "start"]
     /\ inMap' = [inMap EXCEPT ![c] = TRUE]
  /\ engine' = Reading
  /\ UNCHANGED <<strategies, statuses, sys, spi, next, apis, passed, aborted>>

(* RemoveClient of a strategy that is not there. *)
Ignore ==
  /\ Reads("end") /\ ~inMap[First.name]
  /\ sys' = Tail(sys)
  /\ UNCHANGED <<strategies, statuses, engine, spis, apis, passed, aborted>>

(* Mutant of ForceStop: the flag is not reset. *)
ForceStopJoinOnly(c) == UNCHANGED mIsRunning
ForceStop(c) == mIsRunning' = [mIsRunning EXCEPT ![c] = FALSE]

(* RemoveClient: out of the map, ForceStop ... *)
RemoveClient ==
  /\ Reads("end") /\ inMap[First.name]
  /\ LET c == First.name IN
     /\ LateThreads \/ thread[c] # "start"
     /\ inMap' = [inMap EXCEPT ![c] = FALSE]
     /\ ForceStop(c)
     /\ engine' = [Reading EXCEPT !.pc = "join", !.of = c]
  /\ sys' = Tail(sys)
  /\ UNCHANGED <<strategies, statuses, spi, next, thread, apis, passed, aborted>>

Report(c, s, status) ==
  statuses' = IF strat[c].runs
              THEN [statuses EXCEPT ![c] = Append(@, [source |-> s, status |-> status])]
              ELSE statuses

(* OnWsClose of a connection closed in due form: IsLogged stays. *)
Closed(c, s) ==
  /\ api[c][s] \in {"connected", "refused", "logged"}
  /\ api' = [api EXCEPT ![c][s] = "closed"]
  /\ Report(c, s, "Disconnected")
  /\ UNCHANGED isLogged

(* ... which joins the thread; then the ITGSpi is destroyed, as it is when *)
(* Load fails, and with it its apis: the one being loaded, which is not in *)
(* mApiMap, before the others. *)
Destroying ==
  /\ Alive
  /\ engine.pc = "fail" \/ (engine.pc = "join" /\ thread[engine.of] = "ended")
Destroys(s) ==
  /\ Destroying
  /\ \A t \in Sources \ {s} : engine.now = t => api[engine.of][t] \in {"none", "closed"}

(* ~OKTGApi, ~BinaTGApi: the connection is closed and says so in the "_TG" *)
(* unit, before the ping thread ends, which is joined. *)
DestroyApi(s) ==
  /\ Destroys(s) /\ Closed(engine.of, s)
  /\ UNCHANGED <<strategies, sys, engine, spis, passed, aborted>>

(* An api without a connection has no ping thread, maybe not even a        *)
(* client: to close the one and join the other is undefined, or waits      *)
(* without an end.  So it is if a report is still under way, and if the    *)
(* ping thread has not seen the connection before it is closed.            *)
DestroyUnready(s) ==
  /\ Destroys(s)
  /\ \/ api[engine.of][s] \in {"connecting", "failed", "reporting"}
     \/ LateThreads /\ api[engine.of][s] # "none"
  /\ \/ aborted' = "destroy" /\ UNCHANGED engine
     \/ engine' = [engine EXCEPT !.pc = "hung"] /\ UNCHANGED aborted
  /\ UNCHANGED <<strategies, statuses, sys, spis, apis, passed>>

(* All connections are closed; writer and reader are given back. *)
Destroy ==
  /\ Destroying /\ \A s \in Sources : api[engine.of][s] \in {"none", "closed"}
  /\ LET c == engine.of IN
     /\ api' = [api EXCEPT ![c] = [s \in Sources |-> "none"]]
     /\ isLogged' = [isLogged EXCEPT ![c] = [s \in Sources |-> FALSE]]
     /\ spi' = [spi EXCEPT ![c] = 0] /\ next' = [next EXCEPT ![c] = 0]
     /\ thread' = [thread EXCEPT ![c] = "none"]
  /\ engine' = Reading
  /\ UNCHANGED <<strategies, statuses, sys, inMap, mIsRunning, passed, aborted>>

(* A signal ends Listening.  SetSignal does nothing (mSignalReceived > 0   *)
(* is never true), main returns, and the ITGSpis are destroyed with their  *)
(* threads running.                                                        *)
Signal ==
  /\ Alive /\ Signals /\ engine = Reading
  /\ engine' = [Reading EXCEPT !.pc = "stopped"]
  /\ aborted' = IF \E c \in Clients : inMap[c] THEN "signal" ELSE aborted
  /\ UNCHANGED <<strategies, statuses, sys, spis, apis, passed>>

(***************************************************************************)
(* The reader threads: ITGSpi::Listening                                   *)
(***************************************************************************)

(* Mutant of ThreadStart: the flag is not set. *)
ThreadStartOnly(c) ==
  /\ Alive /\ thread[c] = "start"
  /\ thread' = [thread EXCEPT ![c] = "loop"]
  /\ UNCHANGED <<strategies, statuses, sys, engine, spi, inMap, next, mIsRunning, apis,
                 passed, aborted>>

ThreadStart(c) ==
  /\ Alive /\ thread[c] = "start"
  /\ thread' = [thread EXCEPT ![c] = "loop"]
  /\ mIsRunning' = [mIsRunning EXCEPT ![c] = TRUE]
  /\ UNCHANGED <<strategies, statuses, sys, engine, spi, inMap, next, apis, passed,
                 aborted>>

(* A request is passed on if the exchange's session is logged in, and is   *)
(* dropped without an answer otherwise.                                    *)
PassOn(c) ==
  /\ Alive /\ thread[c] = "loop" /\ mIsRunning[c] /\ next[c] <= Len(requests[c])
  /\ next' = [next EXCEPT ![c] = @ + 1]
  /\ passed' = IF isLogged[c][requests[c][next[c]].source]
               THEN passed \cup {[name |-> c, no |-> next[c], by |-> spi[c]]}
               ELSE passed
  /\ UNCHANGED <<strategies, statuses, sys, engine, spi, inMap, thread, mIsRunning, apis,
                 aborted>>

ThreadEnd(c) ==
  /\ Alive /\ thread[c] = "loop" /\ ~mIsRunning[c]
  /\ thread' = [thread EXCEPT ![c] = "ended"]
  /\ UNCHANGED <<strategies, statuses, sys, engine, spi, inMap, next, mIsRunning, apis,
                 passed, aborted>>

(***************************************************************************)
(* The sessions                                                            *)
(***************************************************************************)

OnWsConnected(c, s) ==
  /\ Alive /\ api[c][s] = "connecting"
  /\ api' = [api EXCEPT ![c][s] = "connected"]
  /\ UNCHANGED <<strategies, statuses, sys, engine, spis, isLogged, passed, aborted>>

(* The exception of connect is logged, and nobody is told. *)
ConnectFails(c, s) ==
  /\ Alive /\ api[c][s] = "connecting" /\ c \in Refused
  /\ api' = [api EXCEPT ![c][s] = "failed"]
  /\ UNCHANGED <<strategies, statuses, sys, engine, spis, isLogged, passed, aborted>>

(* The login that follows is accepted: first the flag, then the frame      *)
(* (OnUserLogin, BinaTGApi::Login). *)
LoggedIn(c, s) ==
  /\ Alive /\ api[c][s] = "connected"
  /\ api' = [api EXCEPT ![c][s] = "reporting"]
  /\ isLogged' = [isLogged EXCEPT ![c][s] = TRUE]
  /\ UNCHANGED <<strategies, statuses, sys, engine, spis, passed, aborted>>

(* OnUserLogin without success: nobody is told. *)
Refuse(c, s) ==
  /\ Alive /\ api[c][s] = "connected" /\ c \in Refused
  /\ api' = [api EXCEPT ![c][s] = "refused"]
  /\ isLogged' = [isLogged EXCEPT ![c][s] = FALSE]
  /\ UNCHANGED <<strategies, statuses, sys, engine, spis, passed, aborted>>

ReportLogin(c, s) ==
  /\ Alive /\ api[c][s] = "reporting"
  /\ api' = [api EXCEPT ![c][s] = "logged"]
  /\ Report(c, s, "Logined")
  /\ UNCHANGED <<strategies, sys, engine, spis, isLogged, passed, aborted>>

(* The exchange closes the connection. *)
Close(c, s) ==
  /\ Alive /\ Closed(c, s)
  /\ UNCHANGED <<strategies, sys, engine, spis, passed, aborted>>

(* OnWsClose of a connection that got lost: the thread that is to connect  *)
(* again is destroyed where its block ends, neither joined nor detached.   *)
Lose(c, s) ==
  /\ Alive /\ Lost /\ Closed(c, s)
  /\ aborted' = "close"
  /\ UNCHANGED <<strategies, sys, engine, spis, passed>>

(***************************************************************************)
(* Specification                                                           *)
(***************************************************************************)

Init ==
  /\ strat = [c \in Clients |-> [runs |-> FALSE, starts |-> 0]]
  /\ tdStatus = [c \in Clients |-> [s \in Sources |-> "Requested"]]
  /\ statuses = [c \in Clients |-> <<>>] /\ requests = [c \in Clients |-> <<>>]
  /\ sys = <<>> /\ engine = Reading
  /\ spi = [c \in Clients |-> 0] /\ inMap = [c \in Clients |-> FALSE]
  /\ next = [c \in Clients |-> 0] /\ thread = [c \in Clients |-> "none"]
  /\ mIsRunning = [c \in Clients |-> FALSE]
  /\ api = [c \in Clients |-> [s \in Sources |-> "none"]]
  /\ isLogged = [c \in Clients |-> [s \in Sources |-> FALSE]]
  /\ passed = {} /\ aborted = "no"

Listening ==
  \/ Reject \/ Accept \/ Logged \/ StillLogged \/ Fail \/ Loaded \/ Ignore
  \/ RemoveClient \/ Destroy
  \/ \E s \in Sources : Connect(s) \/ Throw(s) \/ DestroyApi(s) \/ DestroyUnready(s)
Reader(c) == ThreadStart(c) \/ PassOn(c) \/ ThreadEnd(c)
Session(c, s) ==
  \/ OnWsConnected(c, s) \/ ConnectFails(c, s) \/ LoggedIn(c, s) \/ Refuse(c, s)
  \/ ReportLogin(c, s)

Next ==
  \/ Listening \/ Signal
  \/ \E c \in Clients :
       \/ Login(c) \/ End(c) \/ EndUnseen(c) \/ EndUnstarted(c)
       \/ ReadStatus(c) \/ Reader(c)
  \/ \E c \in Clients, s \in Sources :
       Request(c, s) \/ Session(c, s) \/ Close(c, s) \/ Lose(c, s)

Spec == Init /\ [][Next]_vars

(* The threads of the gateway run, and the exchanges answer the logins     *)
(* they take.                                                              *)
FairSpec ==
  /\ Spec
  /\ WF_vars(Listening)
  /\ \A c \in Clients : WF_vars(Reader(c))
  /\ \A c \in Clients, s \in Sources : WF_vars(Session(c, s))

(***************************************************************************)
(* Properties                                                              *)
(***************************************************************************)

(* Every variable has its type. *)
TypeOK ==
  /\ strat \in [Clients -> [runs : BOOLEAN, starts : 0 .. MaxSessions]]
  /\ tdStatus \in [Clients -> [Sources -> {"Requested", "Logined", "Disconnected"}]]
  /\ engine.pc \in {"read", "load", "wait", "test", "fail", "join", "hung", "stopped"}
  /\ spi \in [Clients -> 0 .. MaxSessions] /\ inMap \in [Clients -> BOOLEAN]
  /\ next \in [Clients -> 0 .. MaxRequests + 1]
  /\ \A c \in Clients : next[c] = 0 <=> spi[c] = 0
  /\ thread \in [Clients -> {"none", "start", "loop", "ended"}]
  /\ mIsRunning \in [Clients -> BOOLEAN]
  /\ isLogged \in [Clients -> [Sources -> BOOLEAN]]
  /\ aborted \in {"no", "signal", "close", "destroy"}

Passed(c, i) == \E p \in passed : p.name = c /\ p.no = i

(* It knows that it is not connected any more, or will read so. *)
Told(c, s) ==
  \/ tdStatus[c][s] = "Disconnected"
  \/ \E i \in DOMAIN statuses[c] : statuses[c][i] = [source |-> s, status |-> "Disconnected"]

(* The ITGSpi is no more, as its Load has failed after the login, and the  *)
(* strategy is told. *)
GivenUp(c, i) == spi[c] = 0 /\ Told(c, requests[c][i].source)

(* A request a strategy makes once it has seen the login of its exchange   *)
(* is not dropped: it has been passed on, or the ITGSpi will read it; if   *)
(* another account made Load fail, and there is no ITGSpi any more, the    *)
(* strategy is told that the exchange is disconnected (Load, Listening,    *)
(* OnUserLogin, RegisterClient, OnWsClose).                                *)
NotDropped ==
  \A c \in Clients : \A i \in DOMAIN requests[c] :
    strat[c].runs /\ requests[c][i].session = strat[c].starts =>
      Passed(c, i) \/ (spi[c] # 0 /\ i >= next[c]) \/ GivenUp(c, i)

(* The same whatever Load does. *)
NeverDropped ==
  \A c \in Clients : \A i \in DOMAIN requests[c] :
    strat[c].runs /\ requests[c][i].session = strat[c].starts =>
      Passed(c, i) \/ (spi[c] # 0 /\ i >= next[c])

(* A request is passed on by the ITGSpi that was loaded for the session it *)
(* was made in, with that session's accounts (RegisterClient, Load).       *)
OwnSession == \A p \in passed : requests[p.name][p.no].session = p.by

(* The gateway is at its end, the login it waits for has failed, or it     *)
(* waits for the close of a connection there is not.                       *)
LoginFailed ==
  /\ engine.pc = "wait" /\ ~isLogged[engine.of][engine.now]
  /\ api[engine.of][engine.now] \notin {"connecting", "connected"}
Stuck == ~Alive \/ engine.pc \in {"stopped", "hung"} \/ LoginFailed

(* The engine thread gets back to the system unit, and so to the other     *)
(* strategies, also when Load fails, unless a login is refused or an api   *)
(* without a connection is destroyed (RegisterClient, RemoveClient, Load,  *)
(* ForceStop, ~OKTGApi, ~BinaTGApi).                                       *)
EngineReturns == engine.pc # "read" ~> engine.pc = "read" \/ Stuck

(* It does so in these cases as well (Load, ~OKTGApi, ~BinaTGApi).         *)
EngineAlwaysReturns == engine.pc # "read" ~> engine.pc = "read"

(* A request of the present session is passed on, unless the strategy ends *)
(* or is told that its exchange is disconnected, as Load has failed        *)
(* (Listening, Load).                                                      *)
Current(c, i) ==
  strat[c].runs /\ i \in DOMAIN requests[c] /\ requests[c][i].session = strat[c].starts
RequestServed ==
  \A c \in Clients : \A i \in 1 .. MaxRequests :
    Current(c, i) ~> Passed(c, i) \/ ~Current(c, i) \/ Stuck \/ GivenUp(c, i)

(* To destroy an ITGSpi does not end the gateway (~OKTGApi, ~BinaTGApi). *)
RemovalSurvived == aborted # "destroy"

(* A lost connection does not end the gateway (OnWsClose). *)
LossSurvived == aborted # "close"

(* No ITGSpi is destroyed while its thread runs (IEngine::Stop, SetSignal). *)
ThreadsStopFirst == aborted # "signal"
=============================================================================
