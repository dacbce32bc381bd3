------------------------------ MODULE Sessions ------------------------------
(***************************************************************************)
(* TradeGateway next to the modules that model other parts of the trade    *)
(* gateway: what it names like them has a name of its own here.            *)
(***************************************************************************)
EXTENDS Naturals

CONSTANTS
  Clients, Venues, MaxSessions, MaxWritten, Refused, Uninitialised,
  LateThreads, Lost, Signals, Hasty, Forgotten

VARIABLES
  strat, tdStatus, statuses, sys, engine, spi, inMap, thread, mIsRunning, api, isLogged,
  passed, aborted,
  written,    \* the requests in each strategy's unit
  readNext    \* the one each ITGSpi reads next

threads == <<strat, tdStatus, statuses, written, sys, engine, spi, inMap, readNext, thread,
             mIsRunning, api, isLogged, passed, aborted>>

G == INSTANCE TradeGateway WITH
  Sources <- Venues, MaxRequests <- MaxWritten, requests <- written, next <- readNext

ASSUME GatewayHolds == G!GatewayAssumption

(* Requests are not dropped, and are passed on in the session they were    *)
(* made in; the engine's thread gets back to its unit, and requests are    *)
(* passed on: see TradeGateway (Load, Listening, OnUserLogin,              *)
(* RegisterClient, RemoveClient, ForceStop).                               *)
NotDropped == G!NotDropped
OwnSession == G!OwnSession
EngineReturns == G!EngineReturns
RequestServed == G!RequestServed

(* The same without their exceptions (Load, RegisterClient, OnWsClose,     *)
(* ~OKTGApi, ~BinaTGApi, IEngine::Stop, SetSignal).                        *)
EngineAlwaysReturns == G!EngineAlwaysReturns
NeverDropped == G!NeverDropped
RemovalSurvived == G!RemovalSurvived
LossSurvived == G!LossSurvived
ThreadsStopFirst == G!ThreadsStopFirst
=============================================================================
