------------------------- MODULE ExchangeRequests -------------------------
(***************************************************************************)
(* What becomes of the requests of a strategy at the exchanges.  An ITGSpi *)
(* reads them from the strategy's unit; OKTGApi and BinaTGApi turn each    *)
(* into a REST request, whose answer a continuation on another thread      *)
(* turns into frames of the "_TG" unit; the strategy's data thread gives   *)
(* them to callbacks.  Sessions are logged in (see TradeGateway).          *)
(***************************************************************************)
EXTENDS Integers, Sequences, FiniteSets

CONSTANTS
  Sources,       \* exchanges: a subset of {"okex", "binance"}
  Kinds,         \* kinds of requests: a subset of AllKinds
  Faults,        \* bad requests there may be: a subset of {"symbol", "type"}
  MaxRequests,   \* bound: requests of the strategy
  MaxItems       \* bound: klines or orders in an answer

AllKinds == {"account", "insert", "cancel", "ticker", "kline", "order", "symbol"}
Lists == {"kline", "order"}

ASSUME ExchangeAssumption ==
  /\ Sources \subseteq {"okex", "binance"} /\ Kinds \subseteq AllKinds
  /\ Faults \subseteq {"symbol", "type"}
  /\ MaxRequests \in Nat /\ MaxItems \in Nat

VARIABLES
  requests,   \* the strategy's unit: kind and source of each request, and
              \* whether its symbol or type is one the exchange does not have
  next,       \* the request the ITGSpi reads next
  released,   \* requests whose page the ITGSpi has released
  tasks,      \* the REST request of each request, its answer, frames to write
  orders,     \* requests whose order the exchange has taken
  updated,    \* those of which an update was passed on
  unit,       \* the "_TG" unit
  at,         \* frames of it the strategy has read
  gateway     \* whether the ITGSpi is up, has ended, or how it came to grief

exchange == <<tasks, orders>>
vars == <<requests, next, released, exchange, updated, unit, at, gateway>>

None == [is |-> "none", items |-> <<>>]
Up == gateway = "up"
Req(n) == requests[n]

(***************************************************************************)
(* The strategy                                                            *)
(***************************************************************************)

(* Of the kinds of requests, those that a bad symbol or type can be in. *)
Bad(k) == {"no"} \cup (Faults \cap (CASE k = "account" -> {}
                                      [] k \in {"insert", "kline"} -> {"symbol", "type"}
                                      [] OTHER -> {"symbol"}))

(* InsertOrder .. QrySymbol *)
Request(k, s, b) ==
  /\ Up /\ Len(requests) < MaxRequests
  /\ requests' = Append(requests, [kind |-> k, source |-> s, bad |-> b])
  /\ UNCHANGED <<next, released, exchange, updated, unit, at, gateway>>

HasFrame == at < Len(unit)

(* The data thread; it has no case for answers to CancelOrder. *)
Run ==
  /\ HasFrame /\ Up
  /\ at' = at + 1
  /\ UNCHANGED <<requests, next, released, exchange, updated, unit, gateway>>

(* Mutant of Callbacks: no case for tickers either. *)
CallbacksNoTicker == AllKinds \ {"cancel", "ticker"}
Callbacks == AllKinds \ {"cancel"}

(* Frames the strategy's callback has been given for request n. *)
HandedFrames(n) ==
  {i \in 1 .. at : unit[i].rid = n /\ unit[i].kind \in Callbacks}

(* It ends, and the ITGSpi is destroyed, whatever is under way. *)
End ==
  /\ Up
  /\ gateway' = "ended"
  /\ UNCHANGED <<requests, next, released, exchange, updated, unit, at>>

(***************************************************************************)
(* The reader thread of the ITGSpi                                         *)
(***************************************************************************)

Reads(n) == Up /\ n = next /\ n <= Len(requests) /\ next' = next + 1

(* An answer's frame: kind, request id, the request it is about, last flag *)
(* and what it says: an error, with its number; a refusal without one (a   *)
(* Result that is false); or that it is done. *)
Frame(n, k, rid, last, says) ==
  [kind |-> k, rid |-> rid, of |-> n, last |-> last, says |-> says]
One(n, says) == <<Frame(n, Req(n).kind, n, TRUE, says)>>

(* OKEX does not know the type, Binance not the symbol: no answer. *)
Dropped(n) ==
  IF Req(n).source = "okex" THEN Req(n).bad = "type"
  ELSE Req(n).bad = "symbol" /\ Req(n).kind \notin {"order", "symbol"}

(* Binance: map::at throws, and nobody catches. *)
Throws(n) ==
  /\ Req(n).source = "binance"
  /\ \/ Req(n).bad = "type"
     \/ Req(n).bad = "symbol" /\ Req(n).kind = "order"

Drop(n) ==
  /\ Reads(n) /\ Dropped(n)
  /\ UNCHANGED <<requests, released, exchange, updated, unit, at, gateway>>

Throw(n) ==
  /\ Reads(n) /\ Throws(n)
  /\ gateway' = "aborted"
  /\ UNCHANGED <<requests, released, exchange, updated, unit, at>>

(* ReqQrySymbol is answered at once. *)
AnswerSymbol(n) ==
  /\ Reads(n) /\ Req(n).kind = "symbol"
  /\ unit' = unit \o One(n, IF Req(n).bad = "no" THEN "done" ELSE "error")
  /\ UNCHANGED <<requests, released, exchange, updated, at, gateway>>

Ask(n) ==
  /\ Reads(n) /\ Req(n).kind # "symbol" /\ ~Dropped(n) /\ ~Throws(n)
  /\ tasks' = [tasks EXCEPT ![n].pc = "asked"]
  /\ UNCHANGED <<requests, released, orders, updated, unit, at, gateway>>

(* The reader goes on in the next page; the one before is unmapped. *)
LoadNextPage ==
  /\ Up /\ released = {} /\ next > 1
  /\ released' = 1 .. next - 1
  /\ UNCHANGED <<requests, next, exchange, updated, unit, at, gateway>>

(***************************************************************************)
(* The exchanges                                                           *)
(***************************************************************************)

(* The exchange takes an order; its answer is on the way. *)
Take(n) ==
  /\ tasks[n].pc = "asked" /\ Req(n).kind = "insert" /\ Req(n).bad = "no"
  /\ n \notin orders
  /\ orders' = orders \cup {n}
  /\ UNCHANGED <<requests, next, released, tasks, updated, unit, at, gateway>>

(* OnRtnOrder: an update of the order comes over the websocket. *)
OnRtnOrder(n) ==
  /\ Up /\ n \in orders \ updated
  /\ updated' = updated \cup {n}
  /\ unit' = Append(unit, Frame(n, "rtnOrder", 0, TRUE, "done"))
  /\ UNCHANGED <<requests, next, released, exchange, at, gateway>>

(* The items of an answer: an odd one is passed over (a kline that is no   *)
(* array), a broken one makes its parser throw.                            *)
ItemsOf(k) ==
  LET Item == IF k = "kline" THEN {"good", "odd", "broken"} ELSE {"good", "broken"}
  IN  IF k \in Lists THEN UNION {[1 .. i -> Item] : i \in 0 .. MaxItems}
      ELSE [1 .. 1 -> Item]

(* Answers that refuse without an error: "result" is false; the status is  *)
(* REJECTED. *)
MayRefuse(n) ==
  Req(n).kind \in (IF Req(n).source = "okex" THEN {"account", "insert", "order"} ELSE {"insert"})

(* An order that is not taken is refused.  A request may fail, with or     *)
(* without having reached the exchange.                                    *)
Refusals(n) ==
  IF n \in orders THEN {} ELSE {"error"} \cup (IF MayRefuse(n) THEN {"refusal"} ELSE {})

Replies(n) ==
  {[is |-> i, items |-> <<>>] : i \in {"failed"} \cup Refusals(n)}
  \cup (IF Req(n).bad = "no" /\ (Req(n).kind = "insert" => n \in orders)
        THEN {[is |-> "items", items |-> x] : x \in ItemsOf(Req(n).kind)} ELSE {})

(***************************************************************************)
(* The continuations: OnRsp...                                             *)
(***************************************************************************)

(* Mutant of IsLast: the item before the last is taken for the last, too. *)
IsLastButOne(i, items) == i >= Len(items) - 1
IsLast(i, items) == i = Len(items)

(* The good ones are passed on, up to the first that throws: their frames, *)
(* each at its item's place.                                               *)
Parsed(n, items) ==
  LET Before(i) == \A j \in 1 .. i : items[j] # "broken"
  IN  [i \in {j \in DOMAIN items : items[j] = "good" /\ Before(j)} |->
         Frame(n, Req(n).kind, n, IsLast(i, items), "done")]

(* OKEX: arguments are passed in the wrong places; the frame's request id  *)
(* is the flag's value or the error's number, which no strategy has (0).   *)
(* That of an order has no error and a Result nobody has set.              *)
OkexError(n) ==
  IF Req(n).kind \in {"account", "insert"}
  THEN <<Frame(n, Req(n).kind, 0, TRUE, IF Req(n).kind = "account" THEN "error" ELSE "done")>>
  ELSE One(n, "error")

(* Mutant of Refusal: the Result of an order is not set. *)
RefusalAsDone(n) == IF Req(n).kind = "insert" THEN One(n, "done") ELSE <<>>

(* Only that of an order is told. *)
Refusal(n) == IF Req(n).kind = "insert" THEN One(n, "refusal") ELSE <<>>

Okex(n, r) ==
  CASE r.is = "failed" \/ Req(n).kind = "cancel" -> <<>>
    [] r.is = "error" -> OkexError(n)
    [] r.is = "refusal" -> Refusal(n)
    [] OTHER -> Parsed(n, r.items)

(* Binance: OnRspQryOrder looks for an error in answers that tell none,    *)
(* and for an order in those that tell an error, and throws in both cases. *)
Binance(n, r) ==
  CASE r.is = "failed" \/ Req(n).kind = "order" -> <<>>
    [] r.is = "error" -> One(n, "error")
    [] r.is = "refusal" -> Refusal(n)
    [] OTHER -> Parsed(n, r.items)

(* Continuations read the request in its page for its symbol or order. *)
UsesReq(n) ==
  \/ Req(n).kind \in {"ticker", "kline", "order"}
  \/ Req(n).kind = "cancel" /\ Req(n).source = "binance"

Answer(n, r) ==
  /\ Up /\ tasks[n].pc = "asked"
  /\ UsesReq(n) => n \notin released
  /\ tasks' = [tasks EXCEPT ![n] =
                 [pc |-> "answered", reply |-> r,
                  frames |-> IF Req(n).source = "okex" THEN Okex(n, r) ELSE Binance(n, r)]]
  /\ UNCHANGED <<requests, next, released, orders, updated, unit, at, gateway>>

(* The next frame is written; other threads write, too. *)
Write(n) ==
  /\ Up
  /\ LET frames == tasks[n].frames IN
     \E i \in DOMAIN frames :
       /\ \A j \in DOMAIN frames : i <= j
       /\ unit' = Append(unit, frames[i])
       /\ tasks' = [tasks EXCEPT ![n].frames = [j \in DOMAIN frames \ {i} |-> frames[j]]]
  /\ UNCHANGED <<requests, next, released, orders, updated, at, gateway>>

(* A continuation uses an ITGSpi that is destroyed, or a page that is      *)
(* unmapped.                                                               *)
Stray(n) ==
  /\ \/ gateway = "ended" /\ (tasks[n].pc = "asked" \/ DOMAIN tasks[n].frames # {})
     \/ Up /\ tasks[n].pc = "asked" /\ UsesReq(n) /\ n \in released
  /\ gateway' = "stray"
  /\ UNCHANGED <<requests, next, released, exchange, updated, unit, at>>

(***************************************************************************)
(* Specification                                                           *)
(***************************************************************************)

Numbers == 1 .. MaxRequests

Init ==
  /\ requests = <<>> /\ next = 1 /\ released = {}
  /\ tasks = [n \in Numbers |-> [pc |-> "none", reply |-> None, frames |-> <<>>]]
  /\ orders = {} /\ updated = {}
  /\ unit = <<>> /\ at = 0 /\ gateway = "up"

PassOn(n) == Drop(n) \/ Throw(n) \/ AnswerSymbol(n) \/ Ask(n)
Task(n) ==
  \/ tasks[n].pc = "asked" /\ \E r \in Replies(n) : Answer(n, r)
  \/ Write(n) \/ Stray(n)

Next ==
  \/ \E k \in Kinds, s \in Sources : \E b \in Bad(k) : Request(k, s, b)
  \/ Run \/ End \/ LoadNextPage
  \/ \E n \in Numbers : PassOn(n) \/ Take(n) \/ OnRtnOrder(n) \/ Task(n)

Spec == Init /\ [][Next]_vars

(* All threads run, and every REST request is answered or fails. *)
FairSpec ==
  /\ Spec
  /\ WF_vars(Run)
  /\ \A n \in Numbers : WF_vars(PassOn(n)) /\ WF_vars(Task(n))

(***************************************************************************)
(* Properties                                                              *)
(***************************************************************************)

(* Every variable has its type, and the strategy is not ahead of its unit. *)
TypeOK ==
  /\ next \in 1 .. Len(requests) + 1 /\ Len(requests) <= MaxRequests
  /\ released \subseteq 1 .. next - 1
  /\ updated \subseteq orders /\ orders \subseteq Numbers
  /\ \A n \in Numbers : tasks[n].pc # "none" => n < next
  /\ at \in 0 .. Len(unit)
  /\ gateway \in {"up", "ended", "aborted", "stray"}

Answers == {i \in DOMAIN unit : unit[i].kind # "rtnOrder"}

(* After a frame marked as a request's last comes no other of that request *)
(* (OnRspQryKline, OnRspQryOrder), whichever threads write in between.     *)
LastEnds ==
  \A i, j \in Answers : i < j /\ unit[i].of = unit[j].of => ~unit[i].last

(* A strategy is told of an order without an error, and with a Result that *)
(* is true, only if the exchange has taken that order (OnRspInsertOrder,   *)
(* OnRspOrderInsert).                                                      *)
ToldIsTaken ==
  \A n \in Numbers : \A i \in HandedFrames(n) :
    unit[i].kind = "insert" /\ unit[i].says = "done" => n \in orders

(* The same of whatever is told without an error, whatever its Result.     *)
NoErrorIsTaken ==
  \A n \in Numbers : \A i \in HandedFrames(n) :
    unit[i].kind = "insert" /\ unit[i].says # "error" => n \in orders

Handed(n) == HandedFrames(n) # {}

(* The exchange has said something about the request that can be parsed.   *)
Replied(n) ==
  LET r == tasks[n].reply IN
  r.is \in {"error", "refusal"} \/ (r.items # <<>> /\ r.items[1] = "good")

(* CancelOrder has no callback; OnRspQryOrder of Binance never answers;    *)
(* OKEX's errors about accounts and orders are addressed wrongly, and its  *)
(* refusals without an error are told for orders only.                     *)
Unanswerable(n) ==
  \/ Req(n).kind = "cancel"
  \/ Req(n) \in [kind : {"order"}, source : {"binance"}, bad : {"no"}]
  \/ /\ Req(n).source = "okex"
     /\ <<tasks[n].reply.is, Req(n).kind>> \in {"error"} \X {"account", "insert"}
                                             \cup {"refusal"} \X {"account", "order"}

(* What the exchange replies, an order taken or a refusal, is told to the  *)
(* strategy's callback as the answer to that request, as long as the       *)
(* gateway is up; with the exceptions above (ITGSpi::OnRsp..., Run).       *)
Told ==
  \A n \in Numbers :
    Replied(n) /\ ~Unanswerable(n) ~> Handed(n) \/ ~Up

(* The same without exceptions. *)
AlwaysTold == \A n \in Numbers : Replied(n) ~> Handed(n) \/ ~Up

(* No request ends the gateway (ITGSpi::Listening). *)
NeverAborted == gateway # "aborted"

(* No continuation uses what is gone (OKTGApi, BinaTGApi). *)
NeverStray == gateway # "stray"

(* A strategy has the answer to InsertOrder, with the order's number, when *)
(* it is given updates of the order.                                       *)
AnswerFirst ==
  \A i \in 1 .. at : unit[i].kind = "rtnOrder" =>
    \E j \in 1 .. i : unit[j].kind = "insert" /\ unit[j].of = unit[i].of
=============================================================================
