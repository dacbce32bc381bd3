------------------------------ MODULE Balances ------------------------------
(***************************************************************************)
(* The balances a strategy keeps of its account at an exchange.  It is     *)
(* told them by the answer to its query and by updates over the websocket, *)
(* which reach it on different ways, and it moves them itself when it      *)
(* places an order (CheckOrder), before the exchange knows of the order.   *)
(* Sessions are logged in (see TradeGateway), and queries and orders get   *)
(* to the exchange (see ExchangeRequests).                                 *)
(***************************************************************************)
EXTENDS Integers, Sequences, FiniteSets
LOCAL INSTANCE FiniteSetsExt

CONSTANTS
  Exchanges,    \* a subset of {"okex", "binance"}; a behaviour is of one
  Listed,       \* the currencies, in the order the exchange lists them
  Funds,        \* what is free of each in the beginning
  Orders,       \* orders the strategy may place: what they pay and get
  OldOrders,    \* orders open at the exchange in the beginning
  Callers,      \* threads that place orders: a subset of {"main", "data"}
  MaxOrders,    \* bound: orders of the strategy that pay the same currency
  MaxTime       \* bound: the exchange's clock

Currencies == {Listed[i] : i \in 1 .. Len(Listed)}
OrderType == [id : Nat, pays : Currencies, cost : Nat, gets : Currencies, gain : Nat]

(* Stated as an assumption by the module that gives these values. *)
BalancesAssumption ==
  /\ Exchanges \subseteq {"okex", "binance"}
  /\ Listed \in Seq(Currencies) /\ Funds \in [Currencies -> Nat]
  /\ Orders \subseteq OrderType /\ OldOrders \subseteq OrderType /\ IsFiniteSet(Orders)
  /\ Callers \subseteq {"main", "data"} /\ {MaxOrders, MaxTime} \subseteq Nat

VARIABLES
  exchange,   \* which exchange it is
  bank,       \* the account at the exchange
  open,       \* its open orders
  events,     \* number of changes of the account
  time,       \* the exchange's clock, in milliseconds
  handled,    \* the strategy's orders it has taken or refused, by what they pay
  stream,     \* messages of the websocket the gateway has not read
  account,    \* the account query: where it is and the answer
  lastTime,   \* mAccountLastUpdateTime
  frames,     \* frames of the "_TG" unit the strategy has not read
  balance,    \* mBalance.at(source)
  doing,      \* what each thread of the strategy is doing
  placed,     \* orders it has placed, by what they pay
  sent,       \* those that have not reached the exchange
  refused,    \* history: currencies the exchange refused an order of
  crossed,    \* history: currencies of which the strategy was told what was so
              \* before an order of it reached the exchange
  framed,     \* history: the last change of each currency written as a frame
  unsettled   \* history: currencies the last news of which did not get through

theExchange == <<exchange, bank, open, events, time, handled, stream>>
theGateway == <<account, lastTime, frames>>
theStrategy == <<balance, doing, placed>>
remembered == <<refused, crossed, framed, unsettled>>
funds == <<theExchange, theGateway, theStrategy, sent, remembered>>

Nothing == [free |-> 0, freezed |-> 0]
Idle == [pc |-> "idle"]
NotKnown == [x \in {} |-> Nothing]

(* The strategy looks its balances up by the lower case name. *)
Name(c) == <<c, "lower">>
AsListed(c) == <<c, IF exchange = "okex" THEN "lower" ELSE "upper">>

(***************************************************************************)
(* The exchange                                                            *)
(***************************************************************************)

(* What it sends when the currencies of cs have changed: OKEX a message    *)
(* for each, Binance one of the whole account, with the time.              *)
Told(C) == [told |-> [c \in C |-> bank'[c]], n |-> events', time |-> time',
            handled |-> handled']
Changed(cs) ==
  /\ events' = events + 1
  /\ IF exchange = "okex"
     THEN /\ time' = time
          /\ stream' = stream \o [i \in 1 .. Len(cs) |-> Told({cs[i]})]
     ELSE /\ time' \in {time, time + 1} /\ time' <= MaxTime
          /\ stream' = Append(stream, Told(Currencies))

Move(c, dFree, dFreezed) == [bank EXCEPT ![c].free = @ + dFree,
                                         ![c].freezed = @ + dFreezed]

(* An order of the strategy arrives and is open... *)
Accept(o) ==
  /\ o \in sent /\ bank[o.pays].free >= o.cost
  /\ sent' = sent \ {o} /\ open' = open \cup {o}
  /\ handled' = [handled EXCEPT ![o.pays] = @ + 1]
  /\ bank' = Move(o.pays, -o.cost, o.cost)
  /\ Changed(<<o.pays>>)
  /\ UNCHANGED <<exchange, theGateway, theStrategy, remembered>>

(* ...or is refused, of which the strategy is told, and changes nothing.   *)
Refuse(o) ==
  /\ o \in sent /\ bank[o.pays].free < o.cost
  /\ sent' = sent \ {o}
  /\ handled' = [handled EXCEPT ![o.pays] = @ + 1]
  /\ refused' = refused \cup {o.pays} /\ unsettled' = unsettled \cup {o.pays}
  /\ UNCHANGED <<exchange, bank, open, events, time, stream, theGateway,
                 theStrategy, crossed, framed>>

Fill(o) ==
  /\ o \in open /\ open' = open \ {o}
  /\ bank' = [Move(o.pays, 0, -o.cost) EXCEPT ![o.gets].free = @ + o.gain]
  /\ handled' = handled
  /\ Changed(<<o.pays, o.gets>>)
  /\ UNCHANGED <<exchange, theGateway, theStrategy, sent, remembered>>

Cancel(o) ==
  /\ o \in open /\ open' = open \ {o}
  /\ bank' = Move(o.pays, o.cost, -o.cost)
  /\ handled' = handled
  /\ Changed(<<o.pays>>)
  /\ UNCHANGED <<exchange, theGateway, theStrategy, sent, remembered>>

(* The account query, which Start has sent. *)
AnswerQuery ==
  /\ account.is = "asked"
  /\ account' = [is |-> "answered", bank |-> bank, n |-> events, handled |-> handled]
  /\ UNCHANGED <<theExchange, lastTime, frames, theStrategy, sent, remembered>>

(***************************************************************************)
(* The gateway                                                             *)
(***************************************************************************)

Zero(b) == b = Nothing

(* The places in the list of the currencies of which there is something,   *)
(* and the one sequence that goes through some places from first to last.  *)
NotZero(b) == {k \in 1 .. Len(Listed) : ~Zero(b[Listed[k]])}
InOrder(K) == {s \in [1 .. Cardinality(K) -> K] :
                 /\ \A i, j \in DOMAIN s : i < j => s[i] < s[j]
                 /\ \A k \in K : \E i \in DOMAIN s : s[i] = k}

Frame(x, b, m) == [of |-> "update", told |-> [y \in {x} |-> b], handled |-> m.handled]

(* OKTGApi::OnRtnBalance *)
OKOnRtnBalance(m) ==
  LET c == CHOOSE d \in DOMAIN m.told : TRUE IN
  /\ frames' = Append(frames, Frame(Name(c), m.told[c], m))
  /\ framed' = [framed EXCEPT ![c] = m.n] /\ unsettled' = unsettled \ {c}
  /\ UNCHANGED lastTime

(* BinaTGApi::OnRtnAccount: what is not later is dropped, and so are       *)
(* currencies of which nothing is left.                                    *)
NotLater(m) == m.time <= lastTime

BNOnRtnAccount(m) ==
  LET gone == {c \in Currencies : Zero(m.told[c])} IN
  IF NotLater(m)
  THEN /\ unsettled' = Currencies
       /\ UNCHANGED <<lastTime, frames, framed>>
  ELSE /\ lastTime' = m.time
       /\ \E news \in InOrder(NotZero(m.told)) :
            frames' = frames \o [i \in DOMAIN news |->
                        Frame(Name(Listed[news[i]]), m.told[Listed[news[i]]], m)]
       /\ framed' = [c \in Currencies |-> IF c \in gone THEN framed[c] ELSE m.n]
       /\ unsettled' = gone

OnWsMessage ==
  /\ stream # <<>> /\ stream' = Tail(stream)
  /\ IF exchange = "okex" THEN OKOnRtnBalance(Head(stream))
                          ELSE BNOnRtnAccount(Head(stream))
  /\ UNCHANGED <<exchange, bank, open, events, time, handled, account,
                 theStrategy, sent, refused, crossed>>

(* OnRspQryUserInfo, on a thread of its own.  At Binance each currency is  *)
(* put in the place of the one before.                                     *)
InAnswer ==
  LET some == NotZero(account.bank) IN
  {Listed[k] : k \in {i \in some : exchange = "okex" \/ \A j \in some : j <= i}}

OnRspQryUserInfo ==
  /\ account.is = "answered" /\ account' = [is |-> "written"]
  /\ frames' = Append(frames,
       [of |-> "account",
        told |-> [x \in {AsListed(c) : c \in InAnswer} |-> account.bank[x[1]]],
        handled |-> account.handled])
  /\ unsettled' = unsettled \cup {c \in InAnswer : exchange = "okex" /\ framed[c] > account.n}
  /\ UNCHANGED <<theExchange, lastTime, theStrategy, sent, refused, crossed, framed>>

(***************************************************************************)
(* The strategy: the data thread                                           *)
(***************************************************************************)

KnownOr0(x) == IF x \in DOMAIN balance THEN balance[x] ELSE Nothing

(* OnRtnBalance, or OnRspQryTradingAccount: Free is stored, then Freezed.  *)
StoreFree ==
  LET f == Head(frames) IN
  /\ frames # <<>> /\ doing["data"] = Idle
  /\ frames' = Tail(frames) /\ doing' = [doing EXCEPT !["data"] = [pc |-> "told", f |-> f]]
  /\ balance' = [x \in DOMAIN balance \cup DOMAIN f.told |->
                   [KnownOr0(x) EXCEPT !.free = IF x \in DOMAIN f.told THEN f.told[x].free
                                                                      ELSE @]]
  /\ crossed' = crossed \cup {c \in Currencies : Name(c) \in DOMAIN f.told
                                                 /\ f.handled[c] < placed[c]}
  /\ UNCHANGED <<theExchange, account, lastTime, placed, sent, refused, framed, unsettled>>

(* Mutant of FreezedOf: it stays as it was. *)
FreezedOfBefore(x, f) == balance[x].freezed
FreezedOf(x, f) == IF x \in DOMAIN f.told THEN f.told[x].freezed ELSE balance[x].freezed

StoreFreezed ==
  /\ doing["data"].pc = "told"
  /\ balance' = [x \in DOMAIN balance |->
                   [balance[x] EXCEPT !.freezed = FreezedOf(x, doing["data"].f)]]
  /\ doing' = [doing EXCEPT !["data"] = Idle]
  /\ account' = IF doing["data"].f.of = "account" THEN [is |-> "read"] ELSE account
  /\ UNCHANGED <<theExchange, lastTime, frames, placed, sent, remembered>>

(***************************************************************************)
(* The strategy: InsertOrder, on any thread                                *)
(***************************************************************************)

(* Mutant of Enough: an order may cost one more. *)
EnoughButOne(o) == balance[Name(o.pays)].free + 1 >= o.cost
Enough(o) == balance[Name(o.pays)].free >= o.cost

(* Each thread is in CheckOrder once it has found the balance sufficient;  *)
(* the main thread places orders after Start, when the answer was read.    *)
Stands(t, pc) == t \in Callers /\ doing[t].pc = pc
Goes(t, pc, o, v) == doing' = [doing EXCEPT ![t] = [pc |-> pc, order |-> o, value |-> v]]
Paid(t) == Name(doing[t].order.pays)

CheckOrder(t, o) ==
  /\ Stands(t, "idle") /\ Name(o.pays) \in DOMAIN balance /\ Enough(o)
  /\ t = "main" => account.is = "read"
  /\ placed[o.pays] < MaxOrders /\ o \notin sent \cup open
  /\ Goes(t, "loadFree", o, 0)
  /\ UNCHANGED <<theExchange, theGateway, balance, placed, sent, remembered>>

LoadFree(t) ==
  /\ Stands(t, "loadFree")
  /\ Goes(t, "storeFree", doing[t].order, balance[Paid(t)].free)
  /\ UNCHANGED <<theExchange, theGateway, balance, placed, sent, remembered>>

TakeFree(t) ==
  /\ Stands(t, "storeFree")
  /\ balance' = [balance EXCEPT ![Paid(t)].free = doing[t].value - doing[t].order.cost]
  /\ Goes(t, "loadFreezed", doing[t].order, 0)
  /\ UNCHANGED <<theExchange, theGateway, placed, sent, remembered>>

LoadFreezed(t) ==
  /\ Stands(t, "loadFreezed")
  /\ Goes(t, "storeFreezed", doing[t].order, balance[Paid(t)].freezed)
  /\ UNCHANGED <<theExchange, theGateway, balance, placed, sent, remembered>>

(* The rest of CheckOrder, and the request. *)
Place(t) ==
  /\ Stands(t, "storeFreezed")
  /\ balance' = [balance EXCEPT ![Paid(t)].freezed = doing[t].value + doing[t].order.cost]
  /\ doing' = [doing EXCEPT ![t] = Idle]
  /\ placed' = [placed EXCEPT ![doing[t].order.pays] = @ + 1]
  /\ sent' = sent \cup {doing[t].order}
  /\ UNCHANGED <<theExchange, theGateway, remembered>>

(***************************************************************************)
(* Specification                                                           *)
(***************************************************************************)

CostsOf(c) == {o \in OldOrders : o.pays = c}

Freezed(c) == MapThenSumSet(LAMBDA o : o.cost, CostsOf(c))

FundsInit ==
  /\ exchange \in Exchanges
  /\ open = OldOrders
  /\ bank = [c \in Currencies |-> [free |-> Funds[c], freezed |-> Freezed(c)]]
  /\ events = 0 /\ time = 0 /\ handled = [c \in Currencies |-> 0]
  /\ stream = <<>> /\ account = [is |-> "asked"] /\ lastTime = 0 /\ frames = <<>>
  /\ balance = NotKnown /\ doing = [t \in {"main", "data"} |-> Idle]
  /\ placed = [c \in Currencies |-> 0] /\ sent = {}
  /\ refused = {} /\ crossed = {} /\ framed = [c \in Currencies |-> 0]
  /\ unsettled = {}

InsertOrder(t) ==
  \/ \E o \in Orders : CheckOrder(t, o)
  \/ LoadFree(t) \/ TakeFree(t) \/ LoadFreezed(t) \/ Place(t)

FundsNext ==
  \/ \E o \in Orders \cup OldOrders : Accept(o) \/ Refuse(o) \/ Fill(o) \/ Cancel(o)
  \/ AnswerQuery \/ OnWsMessage \/ OnRspQryUserInfo
  \/ StoreFree \/ StoreFreezed
  \/ \E t \in Callers : InsertOrder(t)

FundsSpec == FundsInit /\ [][FundsNext]_funds

(***************************************************************************)
(* Properties                                                              *)
(***************************************************************************)

(* When nothing is under way any more, the strategy has the exchange's     *)
(* balance of every currency it knows, unless the last news of it did not  *)
(* get through: the exchange refused an order, for which the strategy      *)
(* keeps its funds back; Binance's update was of the same millisecond as   *)
(* the one before, or of a currency of which nothing is left; or the       *)
(* answer to the query was written after news that were newer              *)
(* (OnRtnBalance, OnRtnAccount, OnRspQryUserInfo, CheckOrder).             *)
AtRest ==
  /\ sent = {} /\ stream = <<>> /\ frames = <<>> /\ account.is = "read"
  /\ \A t \in {"main", "data"} : doing[t] = Idle
Settled ==
  AtRest => \A c \in Currencies \ unsettled :
              Name(c) \in DOMAIN balance => balance[Name(c)] = bank[c]

(* An order that has passed CheckOrder is covered when it gets to the      *)
(* exchange, unless news of the currency were read that had been sent      *)
(* before an order of the strategy arrived: they undo what CheckOrder had  *)
(* set aside.                                                              *)
Covered == refused \subseteq crossed

(* Without the exceptions. *)
AlwaysSettled ==
  AtRest => \A c \in Currencies :
              Name(c) \in DOMAIN balance => balance[Name(c)] = bank[c]
AlwaysCovered == refused = {}

(* When Start has returned, the strategy can look up what it has           *)
(* (OnRspQryTradingAccount).                                               *)
Known ==
  account.is = "read" =>
    \A c \in Currencies : bank[c].free > 0 /\ framed[c] = events => Name(c) \in DOMAIN balance
=============================================================================
