------------------------------ MODULE OkexBook ------------------------------
(***************************************************************************)
(* The order books of OKEX (OKMGApi).  After a subscription the exchange   *)
(* sends the whole book of the symbol, then its changes, each with the     *)
(* time; messages of all symbols come over one websocket.  The thread of   *)
(* the websocket applies them and hands on the best levels.  Counting of   *)
(* subscriptions, refusals and lost connections are in MarketGateway.      *)
(***************************************************************************)
EXTENDS Integers, Sequences, FiniteSets

CONSTANTS
  Symbols, Prices, Volumes,
  HalfInt,      \* an int holds -HalfInt .. HalfInt - 1
  Epoch,        \* the exchange's time in the beginning, in milliseconds
  MaxDepth,     \* MAX_DEPTH_NUM
  MaxBatch,     \* bound: changes the exchange puts in one message
  MaxChanges,   \* bound: changes of the books
  MaxSubs       \* bound: subscriptions of a symbol, one after the other

(* Stated as an assumption by the modules that give these values. *)
OkexBookAssumption ==
  /\ Prices \subseteq Nat /\ 0 \in Volumes /\ Volumes \subseteq Nat
  /\ {HalfInt, MaxDepth, MaxBatch} \subseteq Nat \ {0}
  /\ Epoch \in Nat /\ Epoch >= HalfInt /\ {MaxChanges, MaxSubs} \subseteq Nat

VARIABLES
  book,       \* the exchange: the volume of each side and price of a symbol
  time,       \* its clock
  changes,    \* number of changes
  sends,      \* whether it sends a symbol's book
  wire,       \* messages of the websocket that were not read
  asked,      \* subscriptions of each symbol, and where the last one is
  entered,    \* mSubDepthMap: symbols whose messages are recognised
  last,       \* mLastDepthUpdateTime, an int
  depth,      \* mAskDepth, mBidDepth: levels that are there
  published,  \* the last levels handed on, and those of the exchange then
  whole       \* history: symbols whose book began empty with the whole book
              \* and of which no message was left out since

exchange == <<book, time, changes, sends>>
gateway == <<asked, entered, last, depth, published, whole>>
vars == <<exchange, wire, gateway>>

Sides == {"ask", "bid"}
NoBook == [side \in Sides |-> [p \in {} |-> 0]]

(***************************************************************************)
(* The exchange                                                            *)
(***************************************************************************)

Level == [side : Sides, price : Prices, volume : Volumes]
All(b) == {l \in Level : b[l.side][l.price] = l.volume /\ l.volume # 0}

Message(s, levels, first) ==
  [symbol |-> s, levels |-> levels, first |-> first, time |-> time', book |-> book'[s]]

(* A message of its own, or with the one before. *)
Send(m) ==
  \/ wire' = Append(wire, <<m>>)
  \/ /\ wire # <<>> /\ Len(wire[Len(wire)]) < MaxBatch
     /\ wire' = [wire EXCEPT ![Len(wire)] = Append(@, m)]

(* Several changes may be of the same millisecond. *)
Change(s, l) ==
  /\ changes < MaxChanges /\ book[s][l.side][l.price] # l.volume
  /\ changes' = changes + 1 /\ time' \in {time, time + 1}
  /\ book' = [book EXCEPT ![s][l.side][l.price] = l.volume]
  /\ IF sends[s] THEN Send(Message(s, {l}, FALSE)) ELSE UNCHANGED wire
  /\ UNCHANGED <<sends, gateway>>

(* It has got a subscription: the whole book is sent. *)
AddChannel(s) ==
  /\ asked[s].at_exchange = "add"
  /\ asked' = [asked EXCEPT ![s].at_exchange = "no"]
  /\ sends' = [sends EXCEPT ![s] = TRUE]
  /\ UNCHANGED <<book, time, changes, entered, last, depth, published, whole>>
  /\ Send(Message(s, All(book[s]), TRUE))

RemoveChannel(s) ==
  /\ asked[s].at_exchange = "remove"
  /\ asked' = [asked EXCEPT ![s].at_exchange = "no"]
  /\ sends' = [sends EXCEPT ![s] = FALSE]
  /\ UNCHANGED <<book, time, changes, wire, entered, last, depth, published, whole>>

(***************************************************************************)
(* The reader thread, and what follows its sending on another thread       *)
(***************************************************************************)

ReqSubDepth(s) ==
  /\ asked[s].subs < MaxSubs /\ asked[s].is = "no" /\ asked[s].at_exchange = "no"
  /\ asked' = [asked EXCEPT ![s] = [subs |-> @.subs + 1, is |-> "sent", at_exchange |-> "add"]]
  /\ UNCHANGED <<exchange, wire, entered, last, depth, published, whole>>

Enter(s) ==
  /\ asked[s].is = "sent"
  /\ asked' = [asked EXCEPT ![s].is = "yes"]
  /\ entered' = entered \cup {s}
  /\ UNCHANGED <<exchange, wire, last, depth, published, whole>>

(* The symbol stays recognised, and its book stays. *)
ReqUnSubDepth(s) ==
  /\ asked[s].is = "yes" /\ asked[s].at_exchange = "no"
  /\ asked' = [asked EXCEPT ![s].is = "no", ![s].at_exchange = "remove"]
  /\ UNCHANGED <<exchange, wire, entered, last, depth, published, whole>>

(***************************************************************************)
(* The websocket's thread: OnWsMessage, OnRtnDepth                         *)
(***************************************************************************)

Batch == Head(wire)
Known == {i \in 1 .. Len(Batch) : Batch[i].symbol \in entered}

(* Nobody recognises it, and its symbols' books are not whole any more.    *)
Pass ==
  /\ wire # <<>> /\ Known = {}
  /\ wire' = Tail(wire)
  /\ whole' = whole \ {Batch[i].symbol : i \in 1 .. Len(Batch)}
  /\ UNCHANGED <<exchange, asked, entered, last, depth, published>>

(* The first that is recognised is taken, the rest is left. *)
m == Batch[CHOOSE i \in Known : \A j \in Known : i <= j]

(* Mutant of ToInt: the time is kept whole. *)
ToLong(t) == t
ToInt(t) == ((t + HalfInt) % (2 * HalfInt)) - HalfInt

NotNew == m.time <= last

(* Levels are set, or erased if nothing is left of them. *)
Applied(b) ==
  [side \in Sides |->
    LET new == {l \in m.levels : l.side = side}
        gone == {l.price : l \in {k \in new : k.volume = 0}}
        set == {l.price : l \in new} \ gone IN
    [p \in (DOMAIN b[side] \cup set) \ gone |->
       IF p \in set THEN (CHOOSE l \in new : l.price = p).volume ELSE b[side][p]]]

(* The best levels of a side: asks from the lowest on, bids from the       *)
(* highest.                                                                *)
Better(side, p, q) == IF side = "ask" THEN p < q ELSE p > q
Best(b) ==
  [side \in Sides |->
    [p \in {q \in DOMAIN b[side] :
              Cardinality({r \in DOMAIN b[side] : Better(side, r, q)}) < MaxDepth} |->
       b[side][p]]]

There(b) == [side \in Sides |-> [p \in {q \in Prices : b[side][q] # 0} |-> b[side][p]]]

OnRtnDepth ==
  /\ wire # <<>> /\ Known # {}
  /\ wire' = Tail(wire)
  /\ IF NotNew THEN UNCHANGED <<last, depth, published, whole>>
     ELSE /\ last' = ToInt(m.time)
          /\ depth' = [depth EXCEPT ![m.symbol] = Applied(@)]
          /\ published' = [published EXCEPT ![m.symbol] =
                            [told |-> Best(depth'[m.symbol]), true |-> Best(There(m.book))]]
          /\ whole' = IF ~m.first THEN whole
                      ELSE IF depth[m.symbol] = NoBook THEN whole \cup {m.symbol}
                      ELSE whole \ {m.symbol}
  /\ UNCHANGED <<exchange, asked, entered>>

(***************************************************************************)
(* Specification                                                           *)
(***************************************************************************)

Init ==
  /\ \E v \in Volumes : book = [s \in Symbols |-> [side \in Sides |-> [p \in Prices |-> v]]]
  /\ time = Epoch /\ changes = 0 /\ sends = [s \in Symbols |-> FALSE]
  /\ wire = <<>>
  /\ asked = [s \in Symbols |-> [subs |-> 0, is |-> "no", at_exchange |-> "no"]]
  /\ entered = {} /\ last = 0
  /\ depth = [s \in Symbols |-> NoBook]
  /\ published = [s \in Symbols |-> [told |-> NoBook, true |-> NoBook]]
  /\ whole = {}

Next ==
  \/ \E s \in Symbols :
       \/ \E l \in Level : Change(s, l)
       \/ AddChannel(s) \/ RemoveChannel(s)
       \/ ReqSubDepth(s) \/ Enter(s) \/ ReqUnSubDepth(s)
  \/ Pass \/ OnRtnDepth

Spec == Init /\ [][Next]_vars

(***************************************************************************)
(* Properties                                                              *)
(***************************************************************************)

(* The levels handed on are the best ones of the exchange at the time of   *)
(* the message, if the whole book was the first that came and nothing was  *)
(* there before: no change is dropped as an old one, of whichever symbol   *)
(* the last one was (OnRtnDepth).                                          *)
PublishedIsTrue == \A s \in whole : published[s].told = published[s].true

(* The same of every book (Enter, ReqUnSubDepth). *)
AlwaysTrue == \A s \in Symbols : published[s].told = published[s].true
=============================================================================
