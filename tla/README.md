# A verification project for dcss

dcss connects trading strategies with exchanges. Its processes share no
database and no message broker: everything goes through *units*, append-only
journals in memory-mapped page files, and one *page service* that decides who
may map which page. This directory holds TLA+ models of that core, TLC runs on
small instances, and TLAPS proofs. All source paths are relative to `src/`.

The first parts describe the system. `Modules` says what each model stands for,
`Runs` what TLC checks, `Proofs` what TLAPS proves, `What the code does not do`
lists the disagreements found, and `Plan` what comes next.

## The system

| part | state | operations | talks to |
|---|---|---|---|
| **page service** `UnitEngine/Paged`, `PageProvider`, `PageUtil` | `mClientUnits`, `mPidClientMap`, `mFileWriterCounts`, `mFileReaderCounts`, `mFildAddrs`, `mMaxIdx`; the communication file: 1000 slots of status, unit, page numbers | `RegClient`, `RegUnit`, `ExitClient`, `RegStrategy`, `LoginTd`, `Sub...` over a socket; `InitiatePage`, `ReleasePage` for slots; the tasks `PstPidCheck`, `PstTempPage` | clients, by socket and by the shared slots; appends to the system unit through a writer of its own |
| **unit** `Unit/Page`, `Frame`, `Unit`, `UnitWriter`, `UnitReader` | the page files; in each process current page, position, `mExpired` | `WriteFrame`, `GetNextFrame`, `SeekTime`, `LoadNextPage`, `FinishPage`, `Expire` | page service for each page; readers of the same memory |
| **strategy** `Strategy`, `StrategyUtil` | `mWaitingRid`, `mQryResult`, `mErrorMsg`, `mForceStop`, `mSingalReceived`, `mTdStatus`, `mBalance`, `mCurRid` | `Start`, requests, `QrySymbolSync`, `Stop`, `Block`, `Terminate`; the data thread `Run` with its callbacks | writes its unit, reads `<name>_TG`, the market units and the system unit |
| **trade gateway** `GateWay/TG` | `mSpiMap`; for each `ITGSpi` its APIs, `mIsRunning`, thread; for each API the session, `IsLogged` | `RegisterClient`, `RemoveClient`, `Load`, `ForceStop`, passing on requests, answers, `OnWs...` | reads the system unit and each strategy's unit, writes `<name>_TG`; websockets and REST |
| **market gateway** `GateWay/MG` | subscription counts, channels, order books | `ReqSub...`, `ReqUnSub...`, `OnRtn...`, snapshots | reads the system unit, writes a unit per exchange |
| **texts** `UnitEngine/utils/json.hpp` and its users | a strategy's configuration, the text of a login | `Init`, `LoginTd`, `Listening`, `RegisterClient`, `Load`, by way of `parse` and `dump` | parsed by the strategy, packed by the page engine, parsed twice by the gateway |
| the rest | none that changes | MySQL tables read once, MD5, logging, constants, build, packaging, demo | |

### What is hard

* **Shared memory without locks.** A slot is written by its client and by two of
  the engine's threads. A frame is published by one byte, and what a reader
  polls next may lie in what the writer is about to overwrite.
* **Threads of the engine** that write to a unit under the mutex that is needed
  to serve that very unit.
* **Crashes.** Clients are found dead by polling `/proc`; a writer may die
  between any two stores, and the next one goes on in the same page.
* **Two threads of a strategy** around a condition variable without a predicate,
  with a time limit, and answers that come late or not at all.
* **Texts within texts**: what a strategy accepts as its configuration, the page
  engine has to pack and the gateway to read, on bytes nobody has looked at.
* **Starts and ends in any order**: a strategy's login and end reach the gateway
  through a journal, its requests through another, its answers through a third.

### What makes each part correct

* Page service: one writer appends to a unit; counts, slots and mappings are
  exactly those of the clients there are; every request for a page is answered;
  what a dead client had becomes free again.
* Unit: a reader gets exactly the frames that were written, each once and in
  order, across pages and writers; nothing that was written changes.
* Engine threads: a frame reported as written is there; nobody waits for ever.
* Strategy: an answer gets to the one who asked; waits end; Stop stops.
* Trade gateway: a request made on a session is passed on, in that session; the
  engine thread always gets back to its unit.
* Balances: what the strategy takes for its funds comes to be what the exchange
  says; an order that was let pass is covered.
* Data path: no frame of several threads is lost, frames of several units come
  in the order of their times as far as clocks go, what is waited for is handed on.
* Texts: a configuration is read as what it says, and the same by whoever reads it.
* Exchange requests: what an exchange replies is told to the strategy, once, as
  the answer to that request.
* Market gateway: somebody subscribed means the exchange is asked; a book is
  what snapshot and updates say.

## Modules

| module | models | main state and actions |
|---|---|---|
| `PageService` | engine and clients around registration, slots and pages | `msg`, the slots; `reg`, `users`, counts, `addrs` of the engine; `tail` and `inited` of the page files; `pc`, `cur`, `svc` of each client. One action per handler of the engine, as each runs under `gPagedMutex`, except that `CommPoll` (the test of `Status`) and `CommServe` are two, as in `StartComm`. A client's `GetPage` is `Request`, busy wait, `Answered` or `Refused`. |
| `PageServiceInv` | the inductive invariants: `Exclusion`, `Accounts` and `Following` | |
| `PageServiceProofs` | the proofs about `PageService`: types and `Exclusion`; `Accounts` and `Following` | |
| `Sessions`, `Books` | no code of their own: `TradeGateway` with names that do not collide with its neighbours', and the books of both exchanges side by side | |
| `UnitJournalProofs`, `EngineThreadsProofs`, `StrategyProofs`, `BalancesProofs`, `DataPathProofs` | the inductive invariant and the proofs about the module each is named for | |
| `TradeGatewayProofs`, `MarketGatewayProofs` | the same for all of a gateway: `ExchangeRequests` and `TradeGateway`; `MarketGateway`, `DepthBook` and `OkexBook` | |
| `Journal` | what a unit promises: a sequence that grows, readers that take each frame once and in order | `size`, `at` |
| `UnitJournal` | one unit, store by store | `mem`, what a status, a length and a frame would be in each cell; `w`, writer; `rd`, readers. `Locate`, `CopyData`, `SetFrameLength`, `ResetNextEntry`, `SetStatus`, `PassFrame`; `LoadNextPage`, `Load`, `FinishPage`; `Crash` between any two. `IsJournal` maps it to `Journal`. |
| `EngineThreads` | the engine's threads, the mutex and the system unit | `mutex`, where each thread is, `wr`, what each is writing, `unit` |
| `Strategy` | the main and the data thread of a strategy; the gateway as far as a strategy sees it | `main`, `data`, `mWaitingRid`, `mQryResult`, `notified`, `unit` |
| `Balances` | the funds a strategy knows of at one exchange: `OnRspQryTradingAccount`, `OnRtnBalance`, `CheckOrder` on the main or the data thread, load by load; the updates of accounts and the account query of both trade gateways; the exchange's account | `bank`, `open`, `stream` of the exchange; `account`, `lastTime`, `frames` of the gateway; `balance`, `doing`, `placed` of the strategy. `Accept`, `Refuse`, `Fill`, `Cancel`, `Answer`; `OnWsMessage`, `OnRspQryUserInfo`; `StoreFree`, `StoreFreezed`; `InsertOrder` in its steps |
| `DataPath` | what threads of the gateways write, on its way to a strategy's callbacks: `WriteFrameFull` of `UnitWriter` and of `UnitSafeWriter` with its spin lock, `NanoTimer`, `GetNextFrame` over several units, `SubscribeTicker` | `now` and the clocks' `diff`; `frames`, `wpos`, `flag`, `thread`; `rpos`, `scan`; `subs`. `Begin`, `Stamp`, `Publish`; `LocateFrame`, `Hand`, `NoFrame`; `MdSubscribeTicker`, `AddTicker` |
| `TradeGateway` | the gateway's engine thread, `ITGSpi`s with their threads, sessions, from `Load` to their destruction | `sys`; `engine`, where the engine thread is, with the account it is at; `spi`, `next`, `thread`; `api`, how far each connection is, `isLogged`. `Accept`, then for each account `Connect`, `Logged`, `StillLogged`, or `Throw`, `Fail`; `Loaded`; `RemoveClient`, then after it, or after `Fail`, `DestroyApi`, `DestroyUnready`, `Destroy`. `ThreadStart`, `PassOn`, `ThreadEnd`. `OnWsConnected`, `ConnectFails`, `LoggedIn`, `ReportLogin`, `Refuse`, `Close`, `Lose` |
| `JsonText` | the lexer and the parser of `json.hpp`, a byte at a time | `Step(s, c)`: `at`, the place in `scan`, `scan_string`, `scan_number`, `scan_literal` or `skip_bom` where a byte is waited for; `buffer`; `expects`, the place in `sax_parse_internal`; `open`, the stack of `json_sax_dom_parser` |
| `JsonGrammar` | the reference: the values a text stands for by the grammar of RFC 7159, read from the outside in; no code | `ValuesOf` |
| `Login` | the way of a configuration from a strategy's file to the gateway's sessions: `Init`, `TdConnect`, `LoginTd` with `dump`, `Listening`, `Load`, `LoadAccount` | `mConfig`, `reads`, the strategy's parser, `frame`, `content`, the gateway's parser, `accounts`, `mTdStatus`, `mApiMap`. `Writes`, `Ends` (the file); `Throws`, `Lacks`, `Loops`, `Registers`, `Connects`; `LoginTd`; `Listening`, `RegisterClient`, `Load`, `Accepts` |
| `ExchangeRequests` | requests of a strategy on their way to an exchange and back: `ITGSpi`'s reader, `Req...` and `OnRsp...` of both exchanges, the continuations that run them, the cases of `Run` | `requests`, `tasks`, each with its answer and the frames it is writing; `orders` and `updated` of the exchange; `unit`, read up to `at`; `gateway`. `Request`; `Drop`, `Throw`, `AnswerSymbol`, `Ask`; `Take`, `OnRtnOrder`; `Answer`, `Write`, `Stray`; `Run`, `End`, `LoadNextPage` |
| `MarketGateway` | subscriptions: strategies, `IMGEngine`, `ReqSub...` and `ReqUnSub...` of both exchanges, the tasks that send | `subs` of each strategy; `frames` of the system unit; `num`, the gateway's counts; `wire`, `sent`, `map` and the connection of OKEX, `client` of Binance; `on`, what the exchanges send; as history, `spoilt` (a message failed or was refused) and `withdrawn` (the last subscriber of a ticker or kline went, and whether OKEX was told). `SubscribeFirst`, `SubscribeAgain`, `Withdraw`, `Connect`, `Disconnect`; `Send`, `Refuse`, `SendFails`, `Enter`; `Ping`, `OnWsClose`, `Lose` |
| `OkexBook` | OKEX's order books: whole ones and changes of several symbols over one websocket, the channels that are entered and withdrawn, the filter of old updates | `book`, `sends` of the exchange; `wire`; `entered`, `last`, `depth`. `Change`, `AddChannel`, `RemoveChannel`; `ReqSubDepth`, `Enter`, `ReqUnSubDepth`; `Pass`, `OnRtnDepth` |
| `DepthBook` | Binance's order book of a symbol, on the reader's and the websocket's thread | `changes`, the exchange's book, and `There`, its levels after so many of them; `stream`; `last`, `book`, `snap`. `GetDepthSnapShot` in three steps (maps erased, answered, filled with the `Best` levels), `OnWsDepth` as `Pass`, `SnapShotAgain` or `Apply`, which hands on the `Best` levels of the book |

The modules meet at these interfaces: `UnitJournal` takes from `PageService` that
one writer writes and that a page once asked for is granted; `EngineThreads`
takes the answer to a page as one step and looks at what happens around it;
`Strategy` and `TradeGateway` take units as sequences of frames, which is what
`Journal` says, and `Strategy` takes sessions to change their status in the order
`TradeGateway` gives them. `ExchangeRequests` looks at one logged-in session of
`TradeGateway`, and its answers are what `Strategy` takes at any time and in any
order. `Balances` is what those answers and the updates of an account come to.
`MarketGateway` takes the system unit as a sequence of frames, too; `DepthBook`
and `OkexBook` are what goes on inside one channel of it. `DataPath` takes the
units of one market and one trade gateway from where they are written to where
they are merged. `Login` is what is in the frame `TradeGateway` takes for a login.

`MC...` modules give the constants definitions for TLC. Three of them put two
modules side by side: a behaviour of `MCTradeGateway` is one of `TradeGateway` or
one of `Login`, a behaviour of `MCStrategy` is one of `Strategy` or one of
`Balances`, a behaviour of `MCDepthBook` one of `DepthBook` (Binance) or one of
`OkexBook`, as a gateway serves one exchange; the variables of the other module
stay as they are. (`Balances` has `FundsInit`, `FundsNext` and `FundsSpec`, so that it
can stand next to `Strategy`.) Operators named as
mutants in a comment (`DropNothing`, `TakeResultKept`, ...) are faults for which
a property has to fail; no specification uses them.

### Abstractions

* A page is a few cells, or room that fills up. A payload looks to a reader like
  nothing, like a written status or like an end (`Junk`), whatever it is made of.
* Stores become visible in the order of the code, as x86 and the code's byte
  stores give it; what a compiler may move is not modelled.
* The time to seek is the number of frames written when it was taken.
* One socket request is served at a time, as `HandleAccept` does.
* `IsLoggined` of OKEX is not initialised: `Connect` picks either value.
* A condition variable does not wake without cause; in Strategy callbacks issue
  no requests of their own. `mQryResult` and `mErrorMsg` point into the page the
  data thread's reader has mapped (`DCSSStrategyImpl.cpp:392`, read at `:264`); the
  model has what they point at, as if no page were given back in between.
* `TradeGateway`: what is undefined when an api without a connection is destroyed
  (a close without a connection, a join of no thread) ends the gateway or never
  returns, and so do a report that is still under way and, with `LateThreads`, a
  ping thread that has not seen its connection. Nobody calls `Load` again.
* `ExchangeRequests`: a frame with a request id that is no strategy's has id 0
  (ids start at `REQUEST_ID_RANGE`, and OKEX's misplaced arguments are 1 or the
  number of an error). The contents of answers are good, odd (a kline that is
  not an array, passed over) or broken (its parser throws). An order has at most
  one update; a refusal without an error (Binance's `REJECTED`, OKEX's `result` that is
  false) has a Result that is false. Updates that are filtered out because of their
  time are not modelled, and neither are updates of accounts, pings, listen keys and
  `ReqQryOpenOrder`, which `IDCSSStrategy` does not offer. A page is released once.
* `MarketGateway` counts one channel of each kind; the data of a channel are only
  there or not there. A message goes out and has its effect at once, messages in
  the order of the calls. Neither gateway connects again, as in the code.
* `DepthBook` has both sides; the prices of bids are negated there, so that the
  lower of two levels of a side is the better one. `MaxDepth` is `MAX_DEPTH_NUM`:
  the snapshot has so many of the best levels of each side, and so many of the
  gateway's book are handed on. `IsEqual(price, 0.0)` is never true, so that no level
  is erased and one with volume zero counts as any other. One symbol, which the
  gateway knows; times of messages are left out.
* `OkexBook` has both sides. An `int` has `2 * HalfInt` values; times begin where
  they no longer fit, as milliseconds since 1970 have for long. What the exchange
  does with a subscription (the whole book first, then changes with non-decreasing
  times) is taken from how `OnRtnDepth` and `OnRtnDepthSubscribe` use it.
* `Balances`: orders are small numbers of two currencies; fees and prices are in
  what an order costs and brings. A double is stored at once, `free` before
  `freezed`; in between other threads run. News of an exchange come in its
  order, next to the answer to the query, which comes at any time.
* `DataPath`: two or three ticks make a second; a frame is what its thread, its time
  and its symbol are. `memory_order` of the spin lock is left out, stores are as
  above. Each process reads its two clocks up to a tick apart, and
  the wall clock is not set while they run or between their starts. `AddTicker` is one
  step, though the set it adds to is read on the data thread.
* `JsonText`: 2^64 is `MaxUnsigned + 1`. A float keeps its text for its value, and is
  infinite by its exponent alone. A syntax error is an error, whatever its message.
* `Login`: one strategy that has registered; its configuration fits in a request
  (`strcpy` into `MAX_SOCKET_CONFIG_LENGTH`), and the sources in it are not floats.
  Exchanges accept every login; when they do not is in `TradeGateway`.
* `PageService` leaves out `Expire` (readers are in `UnitJournal`) and what
  follows a page of number -1; a restart of the engine, for which clients have
  no code; clients removed between two of their socket requests.

## Runs

Each cfg begins with a sentence on its instance. A passing run explores its whole
state space.

| run | properties | instance, and why it is enough |
|---|---|---|
| `PageServiceWriters` | `TypeOK`, `Exclusion`, `OneWriterPerUnit`, `WriterCountsAreHolders`, `SlotsHaveOneOwner` | two writers, one unit, two pages, two slots; renames fail; kills anywhere but in the busy wait. Two contenders and one page change give refusal, retry, takeover. |
| `PageServiceReaders` | `ReaderCountsAreHolders`, `NoRewind` | a writer, a reader of two units that may be moved, three slots, two pages. A page has a writer and a reader at once, a reader has two slots. Renames succeed: see below. |
| `PageServiceLive` | `RequestAnswered`, `DeadReclaimed` | two writers, kills anywhere, renames fail |
| `PageServiceTwoWriters` | violation of `OneWriterPerUnit` | three writers killed in the busy wait |
| `UnitJournal` | `TypeOK`, `HandsOutFrames`, `FramesStay`, `IsJournal`, `NoOldFrames`, `CatchesUp` | two pages of six cells, frames of one to three cells, three frames: a successor may write a shorter or longer frame over a torn one, payload may look like a status, and pages change |
| `EngineThreads` | `WrittenIsThere`, `ClientsServed` | two clients, two frames after the first, a system unit that has room, and one that is full at the start |
| `Strategy` | `SyncGetsItsAnswer`, `AsyncHanded`, `SyncReturns`, `StopStops`; `Settled`, `Covered` of `Balances` | two exchanges, four requests (two for accounts, two of the strategy's own), one end of a session: two queries may follow each other, or one that waits and one that does not. Funds: OKEX or Binance, two orders that pay the same currency, of which only one is covered, placed by callbacks, and an older order of the other currency |
| `TradeGateway` | `NotDropped`, `EngineReturns`, `RequestServed`; `ParsesAsGrammar`, `Arrives` of `Login` | a strategy, two exchanges, two starts, two requests, so that `Load` may fail at the second account when the first was used, and again or not at the next start; a configuration is bad at either account, connections fail, are closed or lost before, at and after the login, a login is refused, a signal comes, the strategy ends without having logged in, or unknown to a page engine that was restarted (so that its next login is rejected). Texts: nine kinds (`MCThemes`), each all sequences of up to three to five pieces: brackets and commas, bytes at the borders of UTF-8's ranges, escapes, surrogates, the characters of numbers, words and spaces, accounts, and configurations that lack something |
| `ExchangeRequests` | `LastEnds`, `ToldIsTaken`, `Told` | two requests of any kind, to either exchange, with a symbol or a type it does not know; answers that fail, refuse with an error or without, or hold up to two klines or orders, good or not: two continuations write at once, next to updates of orders, while pages go and the strategy ends |
| `MarketGateway` | `CountsAreSubscribers`, `Fed`, `Released` | two strategies, a channel of each kind, `MaxCalls` = 4: two strategies on one channel, one of them twice, or one on each of two; sends fail, channels are refused, connections are lost, strategies are killed |
| `DepthBook` | `PublishedIsTrue`, `GetsIntoBook`; `OkexIsTrue` of `OkexBook` | Binance: a bid, and two asks of which one is handed on, each there or not, four changes: one before the snapshot, one while it is under way, one that is missing and one after, or a better level that comes and goes; snapshots fail, the subscription ends. OKEX: two prices of each side, two symbols, two changes, a subscription of each, more levels than are handed on |
| `DataPath` | `FramesKept`, `OldestFirst`, `Delivered` | a thread of a market gateway, two of a trade gateway, which contend for the lock; a second of two ticks, clocks that differ by up to one; three frames, so that a unit with none, one or several frames is merged |

A type invariant is stated in further modules, too
(`EngineThreads`, `Strategy`, `TradeGateway`, `MarketGateway`, `DepthBook`,
`ExchangeRequests`), as
are `MappedIffCounted` (`PageService`), `AccountsRead` (`Strategy`) and `OwnSession`
(`TradeGateway`). They hold in the runs of their modules; add one to a cfg to check it.

Some properties hold with an exception that is part of their statement, and the
statement without it is what a cfg described below refutes: `CatchesUp` (a
writer killed between `LoadNextPage`'s new page and `FinishPage`),
`SyncGetsItsAnswer` (after a time-out), `EngineReturns` (a login that fails without
an end of the wait, an api without a connection that is destroyed), `RequestServed`
and `NotDropped` (`Load` failed at another account: the strategy is told that the
exchange is disconnected), `Fed` (after a failed message, or tickers and klines
that were withdrawn before), `Released` (a ticker withdrawn before the task of its
subscription has run, a failed message, and what a killed strategy had), `GetsIntoBook`
(after a failed snapshot), `ToldIsTaken` (a Result that is false), `Told`
(`CancelOrder`, Binance's `ReqQryOrder`, OKEX's refusals of orders and account
queries), `Settled` and
`Covered` (the cases in their comments), `OkexIsTrue` (a book whose first message
is lost, or that is subscribed again), `OldestFirst` (a second), `Delivered` (a
ticker before `SubscribeTicker` has returned). `NoRewind` does not
hold when `rename` of the temp page fails: a writer that is refused its next page
ends the old one nevertheless, and its readers start again at page 1.

**Deadlock** is checked in `PageService` and `EngineThreads`. A unit's writer, a
strategy and the gateways may stop for good, and their bounds end a run.

**Bounds**, all constants: `MaxPage`, `MaxUser`, `MaxFrames`, `PageCells`,
`MaxRequests` (of `TradeGateway` `MaxWritten` in the cfg), `MaxItems`, `MaxDown`,
`MaxSessions`, `RidRange`, `PageFrames`, `MaxCalls`, `MaxId`, `MaxText`,
`MaxUnsigned`, `MaxExponent`, `MaxDepthSubs`, `MaxOrders`, `MaxTime`, `MaxBatch`,
`MaxChanges` and `MaxSubs` of `OkexBook` (`MaxOChanges`, `MaxOSubs` in the cfg).

**Fairness.** Weak fairness is given to loops that never block: the engine's
communication and task threads, a client's steps inside a call, the data thread's
and the gateways' loops, the tasks of the websocket client that send and their
continuations, a strategy that is withdrawing its subscriptions, and exchanges
taking or failing a connection, answering a login they take, a REST request and a
request for a snapshot (or letting them fail). In `MCStrategy`, `MCTradeGateway` and
`MCDepthBook` it is given to the same actions in the behaviours of their module. In
`EngineThreads` a thread that waits for `gPagedMutex` gets it if it is free again
and again (strong fairness), because the others sleep (10 ms, `SetFreq(0.01)` in
`Paged/main.cpp`) or wait for input between two uses, and slots and connections are
dealt with in turn. No fairness is given to what a user of the library calls, to
kills, closes, signals or lost answers. A reader is only assumed to go on calling
`GetNextFrame`.

## Proofs

TLC checks the instances above; the theorems here are proved by TLAPS for every
value of the constants that the `ASSUME`s of the modules allow, and under the
further condition in the third column. `~` marks a statement that no run checks.

| theorem | states | condition |
|---|---|---|
| `PageServiceProofs`: `TypeCorrect` | `TypeOK` | |
| `WritersExcludeEachOther`, `ExclusionHolds` | `OneWriterPerUnit`, `Exclusion` | `"spin" \notin MayDie` |
| `SlotsAreOwned`, `WritersAreCounted`, `MappedAreUsed` | `SlotsHaveOneOwner`, `WriterCountsAreHolders`, `MappedIffCounted` ~ | `"spin" \notin MayDie` |
| `ReadersAreCounted`, `PagesGoOn`, `ReadersGoForward` | `ReaderCountsAreHolders`, `SuccessorReady` ~, `NoRewind` | the same, and `~RenameMayFail` |
| `UnitJournalProofs`: `TypeCorrect`, `ReadersGetFrames`, `FramesAreKept`, `NoneFromBefore` | `TypeOK`, `HandsOutFrames`, `FramesStay`, `NoOldFrames` | |
| `UnitIsJournal` | `IsJournal`: `UnitJournal` implements `Journal` | |
| `EngineThreadsProofs`: `TypeCorrect` | `TypeOK` ~ | |
| `OneThreadWrites`, `WrittenFramesStay` | `OneWriter` ~, `WrittenIsThere` | `~EarlyClients` |
| `StrategyProofs`: `CallbacksGetAnswers`, `SyncIsAnswered`, `StartReadsAccounts` | `AsyncHanded`, `SyncGetsItsAnswer`, `AccountsRead` ~ | `NoWrap` |
| `BalancesProofs`: `BalancesSettle` | `Settled` | |
| `OrdersAreCovered` | `Covered` | `"main" \notin Callers` |
| `TradeGatewayProofs`: `LastIsLast`, `ToldAreTaken` | `LastEnds`, `ToldIsTaken` | |
| `RequestsAreNotDropped`, `PassedInItsSession` | `NotDropped`, `OwnSession` ~ | `~Hasty` |
| `MarketGatewayProofs`: `CountsAreRight`, `NoneCountedBelow` | `CountsAreSubscribers`, `NoCountBelow` ~ | |
| `BooksAreTrue` | `PublishedIsTrue` | `MaxDepthSubs <= 1` |
| `OkexBooksAreTrue` | `OkexIsTrue` | `MaxBatch = 1` |
| `DataPathProofs`: `FramesAreKept`, `HandedOldestFirst` | `FramesKept`, `OldestFirst` | `OneMdThread` |

**The conditions** are what the code relies on, and each is needed: TLC refutes
the statements without them (see the next section).

* `"spin" \notin MayDie`: no client is killed while it waits in `GetPage`.
  `PageServiceTwoWriters` refutes `OneWriterPerUnit` without it. Kills anywhere
  else, failing renames and clients that come back are part of the theorems.
* `~RenameMayFail`: a reader that is refused a page after a failed `rename` would
  give back, with its next request, a use it never had, which another reader has.
* `~EarlyClients`: clients connect when `Start` has finished, as those of a page
  engine that is up; `PAGED_START` is written without the mutex.
* `NoWrap`, `MaxRequests < RidRange`: a strategy makes fewer than a million
  requests (`REQUEST_ID_RANGE`, `PageCommStruct.h:55`). The last id is not taken
  for the strategy's own, and ids then begin anew.
* `OneMdThread`: the market gateway writes on one thread, as OKEX's does, which has
  one websocket. Binance's has several: the last row of the next section.
* `"main" \notin Callers`: orders are placed by callbacks, on the data thread. On the
  main thread a change of a balance is lost, and an uncovered order passes.
  `Settled` holds wherever orders are placed: the next news put a lost change right.
* `~Hasty`: a strategy is started again when the gateway has dealt with its end. The
  theorems cover `Load` failing at any account, before or after others were logged
  in and used; connections that fail, are closed or lost; a destruction that hangs
  or ends the gateway; signals; a restarted page engine; and an end that is read
  before the `ITGSpi`'s thread has begun. A request that is lost because `Load` failed
  is not taken for one that is kept: there the theorem says that the strategy is
  told, and `NeverDropped`, which says more, is refuted.
* `MaxDepthSubs <= 1`: a symbol of Binance is subscribed once. With a second
  subscription two threads take snapshots in the same maps, and a book is handed
  on that never was. The limit `MaxDepth` is any number but zero.
* `MaxBatch = 1`: OKEX puts one change in a message; of several, the code takes one.

`BalancesAssumption` is stated in the theorems; what else the modules assume of their
constants says only what they are (numbers, finite sets, a zero among volumes, and
for OKEX that times no longer fit an `int`).

**Why the invariants are needed.** Hardly a property is inductive as it stands;
each proof has an invariant with one lemma per action (or group of actions) that
keeps it, and TLC has checked each of them on the run of its module first.

* `PageService`. `OneWriterPerUnit` is not what the engine enforces: it keeps two
  writers off a *page*. That they are kept off a *unit* follows from where writers
  can be. `IInv == TypeOK /\ Exclusion`, where `Exclusion` says: a slot has one owner,
  who filled it in (`SlotsSeparate`, `ClientsInOrder`); a request is waited for
  (`RequestsWaited`); a page that a writer's slot stands for is counted, and no
  other writer's stands for it (`HeldOnce`); a writer either has its page granted,
  or has filled it (`WritersInOrder`); and pages are filled in order
  (`FilledInOrder`). Two writers that can append both have the last page with
  room; by `FilledInOrder` it is the same one, by `HeldOnce` they are the same
  writer. `JInv` adds `Accounts`: that a count is a number of holders is kept only
  if what a client gives back is what it held, so `WritersStand` ties each slot to
  its writer's page. `FInv` adds `Following`, the same for readers, which give
  back a page with the request for the next: it has to be known that they are
  granted it, that is that the next page is there, which is `SuccessorReady`.
* `UnitJournal`. Frames fit and do not overlap (`FramesFit`, `FramesApart`); where
  a frame may begin and none does, nothing looks like one, and nothing behind it
  could be taken for one (`TipsOK`), which is what `ResetNextEntry` before
  `SetStatusWritten` is for; the writer (`WriterOK`) and each reader (`ReadersOK`)
  are at such a place. A later writer that goes over the remains of a killed one
  finds the tip by the same steps as a reader. For the refinement, `Counted` says
  that as many frames begin as the journal has entries, and the number of frames
  a reader has passed grows by one when it takes one and stays otherwise;
  `TimesOK` is what a reader that seeks a time knows of the pages it chose from.
* `EngineThreads`. Who has the mutex is where the threads are (`Control`), frames
  are not issued faster than asked for (`Balanced`), and, if nobody comes too
  early, what is written lies before the place of the one thread that writes
  (`Order`).
* `Strategy`. What is under way are requests and answers to requests, and
  `mWaitingRid` belongs to a `QrySymbolSync` also after a time-out (`Genuine`).
  Accounts are asked for one at a time, and `Start` goes on only after the
  notification for that very answer (`OneAccount`): so none is left that could
  wake a later `QrySymbolSync`. Until one has come to its time limit, what the data
  thread keeps is for the one that waits (`KeptForCaller`).
* `ExchangeRequests`. The frames a continuation has still to write are in order,
  about its request and true (`PendingOK`); after a last frame in the unit nothing
  of that request is still to come (`WrittenOK`), which needs that a request with
  an answer in the unit was read and is not at the exchange. An answer that is done,
  written or still to be, is about an order taken; refusals have a value of their own.
* `TradeGateway`. For a strategy that runs, `ClientOK`: there is at most one frame of
  it in the system unit, its login, and then no `ITGSpi` of the session (`FrameOK`);
  a login that was seen, or will be, is one of the `ITGSpi` of the present session
  (`LoginOK`); and what an `ITGSpi` has not read yet was written in its own session
  (`ReadsOwn`), because it began at the end of the unit when it was loaded
  (`ReadFrom`) and is gone before the next session begins. So a request made after a
  login was seen is behind the place where its `ITGSpi` began (`KeptOK`). When there is
  no `ITGSpi` any more in that session, its connections were closed, and behind the last
  report of a login comes one that it is closed (`GoneOK`): the strategy is told.
* `Balances`. `SInv` follows the last event of each currency through stream, answer
  and frames: the latest news in the stream is what the exchange has (`LastNews`); if
  none is there, the last frame is, or what the strategy has, unless the currency is
  `unsettled` (`GotThrough`). Two
  threads and four single loads and stores are between; while a call is in progress
  nothing is at rest, and that is all `Settled` needs. `Covered` needs sums: what a
  strategy believes to have, with what a call has set aside and what its orders on
  the way cost, is not more than what there is (`IsCovered`), and no news that are
  under way say more than that (`NewsNotMore`). `Cost`, the sum over a finite set of
  orders, is shown to exist by induction over finite subsets, spelled out with a
  smallest counterexample, as the induction theorems cannot be used.
* `DepthBook`. A level in a book with a number has the exchange's volume after that
  many changes, and a level of the exchange that is not in it is worse than
  `MaxDepth` that are (`BookOK`, by way of `IsBook`): so it is in a fresh snapshot, and
  levels never leave. What is handed on is the best of that (`BestIsBook`): a level
  that is cut off is worse than `MaxDepth` that are not, as there are that many that
  are better and the best of these are among them (`BestEnough`, by induction on the
  number of levels, spelled out). The maps are empty while one thread takes a
  snapshot, and the other takes none (`SnapOK`), which is where a second subscription
  breaks the argument. A message that is not `Missing` changes no level outside it,
  by the lemmas on `VolumeAt`.
* `OkexBook`. Messages on the wire, taken one after the other, lead from the
  gateway's book to the exchange's (`HeadOK`, `ChainOK`, `EndOK`); as no time fits
  an `int`, no message is taken for an old one (`OkexTyped`).
* `MarketGateway`. The count, read on through the frames that are not read yet, is
  the number of subscribers at the end (`Balance`) and never short on the way
  (`NeverShort`): a withdrawal is never read before its subscription.
* `DataPath`. A thread that writes has its unit to itself and is at the writer's
  place (`Writers`); the frames a call of `GetNextFrame` has looked at are not
  older than the one it has found (`Reader`), by the process's clock, and clocks
  differ by a second at most (`Clocks`).

**Not proved.** Liveness under fairness (`RequestAnswered`, `Told`, `Fed`, ...)
and `ENABLED` are out of the prover's reach, and so is what a recursive definition
computes for every input: `JsonText` against `JsonGrammar` stays with TLC, and with
it `ParsesAsGrammar` and `Arrives`. All other invariants and action properties the
runs check are proved.

## What the code does not do

Each of these is a counterexample TLC finds, at the line named. One of them is a
listed run that quotes what the repository says; the others are found by changing
constants of a listed run's cfg as the second column says, and giving the property
in the third column as its only `INVARIANT` or `PROPERTY`.

| run | changed | refuted | what happens |
|---|---|---|---|
| `PageServiceTwoWriters` | none | `OneWriterPerUnit` | a writer killed while waiting leaves a stale request in a slot; page 2 of a unit is created before page 1 and two writers append (`PageEngine.cpp:308`; `UnitWriter.h:18` promises one) |
| `PageServiceReaders` | `RenameMayFail = TRUE` | `SuccessorReady` | `rename` of the temp page fails: a writer that is refused its next page ends the old one nevertheless (`Unit.cpp:75`) |
| `PageServiceWriters` | `MayDie <- OnlyInGetPage` | `WriterCountsAreHolders` | a writer killed while waiting: the page it held stays counted (`PageEngine.cpp:565`) |
| `PageServiceWriters` | `MayDie <- OnlyInGetPage` | `SlotsHaveOneOwner` | a slot freed between the test and the mutex becomes ALLOCATED and stays so (`PageEngine.cpp:387`) |
| `UnitJournal` | none | `AlwaysCatchesUp` | killed after creating a page, before ending the old one: readers of the old page stay there (`Unit.cpp:75`) |
| `UnitJournal` | none | `NoneSkipped` | a reader started at a time skips frames written after it (`Unit.cpp:58`) |
| `EngineThreads` | `PageFrames = 2`, `OldFrames = {0, 1, 2}`, `MaxPage = 3` | `WriteReturns` | the system unit's page fills up: the writing thread holds the mutex the communication thread needs to grant the next (`PageEngine.cpp:156`) |
| `EngineThreads` | `EarlyClients = TRUE` | `WrittenIsThere` | `PAGED_START` is written without the mutex (`PageEngine.cpp:104`) |
| `Strategy` | none | `StartReturns` | the answer to the account query comes before `wait` (`DCSSStrategyImpl.cpp:106`) |
| `Strategy` | none | `SyncNeverStale` | a late answer is returned by a later `QrySymbolSync` (`DCSSStrategyImpl.cpp:260`) |
| `Strategy` | `RidRange = 3` | `AsyncHanded` | the answer to the last id of the range is dropped (`DCSSDataWrapper.cpp:169`) |
| `Strategy` | `Early = TRUE` | `StopStops` | `Run` resets a stop that was asked for before it began (`DCSSDataWrapper.cpp:84`) |
| `Strategy` | none | `NeverAborted` | `Terminate` destroys an unjoined thread (`DCSSStrategyImpl.cpp:118`) |
| `Strategy` | `Callers = {"main"}` | `Covered` | `CheckOrder` on the main thread and `OnRtnBalance` on the data thread change the same balance, a change is lost, and an order passes that the account does not cover (`DCSSStrategyImpl.cpp:465`) |
| `Strategy` | none | `AlwaysSettled` | funds set aside for an order the exchange refuses are never given back; Binance's updates are dropped within a millisecond or when nothing is left (`BinaTGApi.cpp:481`, `:493`) |
| `Strategy` | none | `AlwaysCovered` | news sent before an order arrived undo what `CheckOrder` set aside for it (`DCSSStrategyImpl.cpp:434`) |
| `Strategy` | none | `Known` | Binance's answer to the account query: upper-case names, each in the place of the one before (`BinaTGApi.cpp:624`) |
| `TradeGateway` | none | `EngineAlwaysReturns` | the time limit of a login compares a truth value (`ITGApi.cpp:46`) |
| `TradeGateway` | none | `NeverDropped` | `Load` fails at one account after another was reported as logged in: the `ITGSpi` goes, with what the strategy has asked for meanwhile (`ITGApi.cpp:47`, `ITGEngine.cpp:45`) |
| `TradeGateway` | none | `RemovalSurvived` | an api without a connection is destroyed: `close().get()` on its client, `join` of a thread there is not (`OKTGApi.cpp:66`, `BinaTGApi.cpp:79`) |
| `TradeGateway` | `LateThreads = TRUE` | `EngineReturns` | `Listening` sets the flag `ForceStop` has reset (`ITGApi.cpp:75`) |
| `TradeGateway` | none | `LossSurvived` | the thread that is to connect again is destroyed (`OKTGApi.cpp:87`) |
| `TradeGateway` | none | `ThreadsStopFirst` | `SetSignal` does nothing (`ITGApi.cpp:66`) |
| `TradeGateway` | `Hasty = TRUE` | `NotDropped` | a strategy started again before its end was dealt with: requests are read by neither `ITGSpi` (`ITGEngine.cpp:57`) |
| `TradeGateway` | none | `AcceptedIsLoaded` | a strategy starts with a configuration whose keys are no strings, or with an exchange there is not; the gateway rejects it, with the accounts before it logged in (`DCSSStrategyImpl.cpp:65`, `ITGApi.cpp:37`, `OKTGApi.cpp:208`) |
| `TradeGateway` | `Names <- TornNames` | `Arrives` | `dump` throws on a strategy's name that is not UTF-8, and nobody catches: the page engine ends (`PageEngine.cpp:458`) |
| `ExchangeRequests` | `Sources = {"okex"}`, `Kinds = {"insert"}` | `AlwaysTold` | OKEX refuses an order or an account query, and arguments are in the wrong places: the frame has another request id (`OKTGApi.cpp:717`, `:745`) |
| `ExchangeRequests` | `Sources = {"binance"}`, `Kinds = {"order"}` | `AlwaysTold` | the test for an error is inverted in Binance's `OnRspQryOrder`, which throws in both cases (`BinaTGApi.cpp:722`) |
| `ExchangeRequests` | `Sources = {"binance"}`, `Kinds = {"cancel"}` | `AlwaysTold` | `Run` has no case for answers to `CancelOrder` (`DCSSDataWrapper.cpp:171`), and OKEX's `OnRspCancelOrder` gives none (`OKTGApi.cpp:755`) |
| `ExchangeRequests` | none | `NoErrorIsTaken` | a refusal that comes without an error is told as an answer without one (`BinaTGApi.cpp:824`, `OKTGApi.cpp:738`) |
| `ExchangeRequests` | none | `NeverAborted` | a symbol or type Binance does not know throws on the reader thread (`BinaTGApi.cpp:246`) |
| `ExchangeRequests` | none | `NeverStray` | a continuation uses an `ITGSpi` that was destroyed, or a request whose page was unmapped (`OKTGApi.cpp:341`) |
| `ExchangeRequests` | none | `AnswerFirst` | an update of an order is read before its number is known (`OKTGApi.cpp:148`) |
| `MarketGateway` | none | `AlwaysFed` | the count of a ticker or kline is kept at zero: who subscribes after the last has left is counted, and OKEX is not asked (`OKMGApi.cpp:427`) |
| `MarketGateway` | none | `AlwaysReleased` | a ticker withdrawn before the task behind its subscription has run stays subscribed (`OKMGApi.cpp:432`) |
| `DepthBook` | none | `AlwaysGetsIntoBook` | a failed snapshot leaves no number: all later changes are dropped (`BinaMGApi.cpp:201`) |
| `DepthBook` | none | `NoEmptyLevels` | the price, not the volume, is compared with zero: levels that are gone are handed on with volume zero (`BinaMGApi.cpp:477`) |
| `DepthBook` | none | `BestAreTold` | empty levels count: they take the places of levels there are (`BinaMGApi.cpp:499`) |
| `DepthBook` | `MaxDepthSubs = 2` | `OneSnapShotAtATime`, and so `PublishedIsTrue` | a second subscription and the websocket's thread take snapshots at once, in the same maps (`BinaMGApi.cpp:287`) |
| `DepthBook` | `MaxBatch = 2` | `OkexIsTrue` | of several messages in an array only the first that is recognised is taken (`OKMGApi.cpp:98`) |
| `DepthBook` | none | `OkexAlwaysTrue` | the whole book comes before the task that enters the channel has run, and is passed over (`OKMGApi.cpp:353`) |
| `DataPath` | none | `StrictlyOldestFirst` | a process's clock is off by up to a second, and a frame is stamped before it is published (`Timer.cpp:43`, `UnitWriter.cpp:39`) |
| `DataPath` | none | `AllDelivered` | what comes before `AddTicker` is not handed on (`DCSSStrategyImpl.cpp:305`) |
| `DataPath` | `MdThreads = {m1, m2}`, `TgThreads = {}`, `MaxFrames <- TwoMdFrames` | `FramesKept` | the websocket threads of Binance share a writer without a lock (`IMGEngine.cpp:137`) |

`WriteReturns` needs `CHECK_DEADLOCK FALSE`: without it TLC reports the same
behaviour as a deadlock. Temporal properties need the specification with fairness
the cfg names.

## Plan

In this order; all are done but the last three.

1. `PageService`, with `Exclusion` and its proof: who may write decides everything else.
2. `Journal`, `UnitJournal`: what all processes rely on.
3. `EngineThreads`: composition of the service with a client of its own.
4. `Strategy`.
5. `TradeGateway`.
6. `MarketGateway`.
7. `DepthBook` for Binance, `OkexBook` for OKEX.
8. `ExchangeRequests`: what becomes of a request and of its answer.
9. `Balances`: `CheckOrder`, `OnRtnBalance`, `OnRspQryTradingAccount` on two threads.
10. `DataPath`: `GetNextFrame` over several units, the spin lock and the clocks.
11. `JsonText`, `JsonGrammar`, `Login`: what is in the texts of a login.
12. An abstract set of subscribers per channel that `MarketGateway` refines.
13. A strategy that is killed and started again, in `Strategy`.
14. A restart of the page engine, in `PageService`.

Proofs: every invariant and action property of the modules above is proved, but for
those of `Login`, which rest on recursive definitions. Each proof waits to be extended
when one of the last three is modelled.

## Not modelled

* Symbols, constants, signatures (`GateWay/MD5`, `GateWay/SymbolUtil`, ...): tables
  read once from MySQL and functions of texts; no state that changes.
* The fields of records and frames by which nobody decides, logging, the demo,
  build and packaging.
* Pings, listen keys and `ReqQryOpenOrder` of the trade gateways; the processes a
  gateway's `main` forks; a symbol Binance's market gateway does not know (its
  lookup throws).
* `PageEngine::Stop`, `SetFreq` and `UnitReader::Expire`, which nobody calls, and a
  restart of the page engine.
* Most of `json.hpp`: binary formats, pointers, patches, iterators, comparisons,
  pretty printing, the values and the printing of floats. The program uses none of
  it, so that what is modelled, a fifth of all lines, is far more of what runs.
