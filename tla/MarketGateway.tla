--------------------------- MODULE MarketGateway ---------------------------
(***************************************************************************)
(* Subscriptions to market data.  Strategies subscribe and, when they end, *)
(* withdraw; the page engine turns that into frames of the system unit; a  *)
(* gateway per exchange counts the subscriptions of each channel and asks  *)
(* its exchange for the channel, or takes that back (IMGEngine, OKMGApi,   *)
(* BinaMGApi).  OKEX has one connection for all channels, on which tasks   *)
(* send; Binance has a connection for each channel.                        *)
(***************************************************************************)
EXTENDS Integers, FiniteSets, Sequences, Functions

CONSTANTS
  Strategies,
  Tickers, Depths, Klines,   \* channels of OKEX, by kind
  Streams,                   \* channels of Binance
  MaxCalls,                  \* bound: subscriptions made, each channel they are
                             \* made for counted as one more
  Faults                     \* what may go wrong: a subset of AllFaults

Okex == Tickers \cup Depths \cup Klines
Channels == Okex \cup Streams
AllFaults == {"send", "refusal", "ping", "close", "kill"}

ASSUME MarketAssumption ==
  /\ Tickers \cap (Depths \cup Klines \cup Streams) = {}
  /\ Depths \cap (Klines \cup Streams) = {} /\ Klines \cap Streams = {}
  /\ MaxCalls \in Nat /\ Faults \subseteq AllFaults

VARIABLES
  subs,          \* mSubed...: the channels each strategy knows it has
  leaving,       \* strategies in UnSubAll
  calls,         \* subscriptions made
  used,          \* the channels they were made for (both bound the model)
  frames,        \* frames of the system unit each gateway has not read
  num,           \* mSub...Num; its domain is the channels that have a count
  wire,          \* messages OKEX is to be sent
  sent,          \* channels for which the task that follows the send has to run
  map,           \* mSub...Map: channels whose data are handed on
  on,            \* channels the exchanges send data of
  client,        \* mSub...Client of each channel of Binance
  IsWsConnected, Ponged,
  spoilt,        \* history: channels a message for which failed or was refused
  withdrawn,     \* history: tickers and klines whose last subscriber has gone,
                 \* and whether they were taken back
  forgotten      \* channels with a subscription nobody will withdraw

strategies == <<subs, leaving, calls, used, forgotten>>
counts == <<frames, num>>
okex == <<wire, sent, map, IsWsConnected, Ponged>>
exchanges == <<on, client, spoilt, withdrawn>>
vars == <<strategies, counts, okex, exchanges>>

Gateway(c) == IF c \in Streams THEN "binance" ELSE "okex"
Frame(c, msg) == frames' = [frames EXCEPT ![Gateway(c)] = Append(@, [msg |-> msg, ch |-> c])]

(***************************************************************************)
(* The strategies                                                          *)
(***************************************************************************)

(* MdSubscribe...: one frame for each call, one entry in a set. *)
Subscribe(st, c) ==
  /\ st \notin leaving
  /\ calls' = calls + 1 /\ used' = used \cup {c}
  /\ calls' + Cardinality(used') <= MaxCalls
  /\ subs' = [subs EXCEPT ![st] = @ \cup {c}]
  /\ forgotten' = IF c \in subs[st] THEN forgotten \cup {c} ELSE forgotten
  /\ Frame(c, "sub")
  /\ UNCHANGED <<leaving, num, okex, exchanges>>

(* ~StrategySocketHandler *)
Leave(st) ==
  /\ st \notin leaving /\ subs[st] # {}
  /\ leaving' = leaving \cup {st}
  /\ UNCHANGED <<subs, calls, used, forgotten, counts, okex, exchanges>>

(* UnSubAll: one frame for each entry.  The strategy may be run again then. *)
Unsubscribe(st, c) ==
  /\ st \in leaving /\ c \in subs[st]
  /\ subs' = [subs EXCEPT ![st] = @ \ {c}]
  /\ leaving' = IF subs[st] = {c} THEN leaving \ {st} ELSE leaving
  /\ Frame(c, "unsub")
  /\ UNCHANGED <<calls, used, forgotten, num, okex, exchanges>>

(* Its process is killed: nothing is withdrawn (ExitClient). *)
Kill(st) ==
  /\ "kill" \in Faults /\ subs[st] # {}
  /\ forgotten' = forgotten \cup subs[st]
  /\ subs' = [subs EXCEPT ![st] = {}]
  /\ leaving' = leaving \ {st}
  /\ UNCHANGED <<calls, used, counts, okex, exchanges>>

(***************************************************************************)
(* The gateways: IMGEngine::Listening                                      *)
(***************************************************************************)

Count(c) == IF c \in DOMAIN num THEN num[c] ELSE 0
SetCount(c, n) == num' = [x \in DOMAIN num \cup {c} |-> IF x = c THEN n ELSE num[x]]
EraseCount(c) == num' = Restrict(num, DOMAIN num \ {c})

Reads(c, msg) ==
  LET g == Gateway(c) IN
  /\ frames[g] # <<>> /\ Head(frames[g]) = [msg |-> msg, ch |-> c]
  /\ frames' = [frames EXCEPT ![g] = Tail(@)]

(* Not connected: the request is dropped, for good. *)
Drop(c, msg) ==
  /\ c \in Okex /\ ~IsWsConnected /\ Reads(c, msg)
  /\ UNCHANGED <<strategies, num, okex, exchanges>>

(* Mutant of SubscribeAgain: the subscription is not counted. *)
SubscribeUncounted(c) ==
  /\ c \in Okex => IsWsConnected
  /\ Reads(c, "sub") /\ c \in DOMAIN num
  /\ UNCHANGED <<strategies, num, okex, exchanges>>

(* A channel that has a count is taken to have been asked for. *)
SubscribeAgain(c) ==
  /\ c \in Okex => IsWsConnected
  /\ Reads(c, "sub") /\ c \in DOMAIN num
  /\ SetCount(c, num[c] + 1)
  /\ UNCHANGED <<strategies, okex, exchanges>>

SubscribeFirst(c) ==
  /\ c \in Okex /\ IsWsConnected
  /\ Reads(c, "sub") /\ c \notin DOMAIN num
  /\ SetCount(c, 1)
  /\ wire' = Append(wire, [event |-> "addChannel", ch |-> c])
  /\ UNCHANGED <<strategies, sent, map, IsWsConnected, Ponged, exchanges>>

(* Mutants of LastGone: one subscriber too few; a test that is never true. *)
LastButOneGone(left) == left <= 1
LastGoneBelowZero(left) == left < 0
LastGone(left) == left <= 0

(* Counts of tickers and klines are kept at zero. *)
Keeps(c) == c \notin Depths

(* Taken back when the last subscriber has gone; a ticker only if the task *)
(* that follows its sending has run. *)
Withdraw(c) ==
  /\ c \in Okex /\ IsWsConnected
  /\ Reads(c, "unsub")
  /\ LET left == Count(c) - 1
         known == c \in Tickers => c \in map IN
     /\ IF LastGone(left) /\ ~Keeps(c) THEN EraseCount(c) ELSE SetCount(c, left)
     /\ wire' = IF LastGone(left) /\ known
                THEN Append(wire, [event |-> "removeChannel", ch |-> c]) ELSE wire
     /\ withdrawn' = IF LastGone(left) /\ Keeps(c)
                     THEN [withdrawn EXCEPT ![c] = IF known THEN "taken back" ELSE "left"]
                     ELSE withdrawn
  /\ UNCHANGED <<strategies, sent, map, IsWsConnected, Ponged, on, client, spoilt>>

(* Binance: connected within the call; a connection that fails leaves a    *)
(* count of zero.                                                          *)
Connect(c) ==
  /\ c \in Streams /\ Reads(c, "sub") /\ c \notin DOMAIN num
  /\ \/ /\ SetCount(c, 1)
        /\ client' = [client EXCEPT ![c] = "open"] /\ on' = on \cup {c}
        /\ UNCHANGED spoilt
     \/ /\ "send" \in Faults
        /\ SetCount(c, 0)
        /\ spoilt' = spoilt \cup {c}
        /\ UNCHANGED <<client, on>>
  /\ UNCHANGED <<strategies, okex, withdrawn>>

(* ... and closed within the call. *)
Disconnect(c) ==
  /\ c \in Streams /\ Reads(c, "unsub")
  /\ LET left == Count(c) - 1 IN
     IF c \notin DOMAIN num THEN UNCHANGED <<num, client, on>>
     ELSE IF LastGone(left) /\ client[c] # "none"
          THEN /\ EraseCount(c)
               /\ client' = [client EXCEPT ![c] = "none"] /\ on' = on \ {c}
          ELSE SetCount(c, left) /\ UNCHANGED <<client, on>>
  /\ UNCHANGED <<strategies, okex, spoilt, withdrawn>>

(***************************************************************************)
(* OKEX: tasks that send, the ping thread and the websocket's callbacks    *)
(***************************************************************************)

(* A message is sent, in the order of the calls, and OKEX does what it     *)
(* says.                                                                   *)
Send ==
  /\ wire # <<>>
  /\ LET m == Head(wire) IN
     IF m.event = "addChannel"
     THEN /\ on' = on \cup {m.ch} /\ sent' = sent \cup {m.ch}
          /\ spoilt' = spoilt \ ({m.ch} \cap Depths)
     ELSE on' = on \ {m.ch} /\ UNCHANGED <<sent, spoilt>>
  /\ wire' = Tail(wire)
  /\ UNCHANGED <<strategies, counts, map, IsWsConnected, Ponged, client, withdrawn>>

(* OKEX refuses a channel; OnWsMessage erases "addChannel" from a map that *)
(* does not have it.                                                       *)
Refuse ==
  /\ "refusal" \in Faults
  /\ wire # <<>> /\ Head(wire).event = "addChannel"
  /\ sent' = sent \cup {Head(wire).ch} /\ spoilt' = spoilt \cup {Head(wire).ch}
  /\ wire' = Tail(wire)
  /\ UNCHANGED <<strategies, counts, map, IsWsConnected, Ponged, on, client,
                 withdrawn>>

(* A send fails, which is logged. *)
SendFails ==
  /\ "send" \in Faults /\ wire # <<>>
  /\ spoilt' = spoilt \cup {Head(wire).ch}
  /\ wire' = Tail(wire)
  /\ UNCHANGED <<strategies, counts, sent, map, IsWsConnected, Ponged, on, client,
                 withdrawn>>

(* The task that follows a send. *)
Enter(c) ==
  /\ c \in sent
  /\ sent' = sent \ {c} /\ map' = map \cup {c}
  /\ UNCHANGED <<strategies, counts, wire, IsWsConnected, Ponged, exchanges>>

(* Ping, every 30 seconds: no answer to the last one is taken for a loss.  *)
Ping ==
  /\ "ping" \in Faults /\ IsWsConnected
  /\ IF Ponged THEN Ponged' = FALSE /\ UNCHANGED IsWsConnected
               ELSE IsWsConnected' = FALSE /\ UNCHANGED Ponged
  /\ UNCHANGED <<strategies, counts, wire, sent, map, exchanges>>

Pong ==
  /\ ~Ponged
  /\ Ponged' = TRUE
  /\ UNCHANGED <<strategies, counts, wire, sent, map, IsWsConnected, exchanges>>

(* OnWsClose: nobody connects again, and what is to be sent is not. *)
OnWsClose ==
  /\ "close" \in Faults /\ IsWsConnected
  /\ IsWsConnected' = FALSE
  /\ on' = on \ Okex
  /\ wire' = <<>> /\ spoilt' = spoilt \cup {wire[i].ch : i \in DOMAIN wire}
  /\ UNCHANGED <<strategies, counts, sent, map, Ponged, client, withdrawn>>

(* OnWsClose of Binance does nothing at all. *)
Lose(c) ==
  /\ "close" \in Faults /\ client[c] = "open"
  /\ client' = [client EXCEPT ![c] = "closed"]
  /\ on' = on \ {c}
  /\ UNCHANGED <<strategies, counts, okex, spoilt, withdrawn>>

(***************************************************************************)
(* Specification                                                           *)
(***************************************************************************)

Init ==
  /\ subs = [st \in Strategies |-> {}] /\ leaving = {} /\ calls = 0 /\ used = {}
  /\ frames = [g \in {"okex", "binance"} |-> <<>>] /\ num = [c \in {} |-> 0]
  /\ wire = <<>> /\ sent = {} /\ map = {} /\ on = {}
  /\ client = [c \in Streams |-> "none"]
  /\ IsWsConnected = TRUE /\ Ponged = TRUE
  /\ spoilt = {} /\ forgotten = {} /\ withdrawn = [c \in Channels |-> "no"]

Listening(g) ==
  \E c \in {x \in Channels : Gateway(x) = g} :
    \/ Drop(c, "sub") \/ Drop(c, "unsub")
    \/ SubscribeFirst(c) \/ SubscribeAgain(c) \/ Withdraw(c)
    \/ Connect(c) \/ Disconnect(c)
Sending == Send \/ Refuse \/ SendFails

Next ==
  \/ \E st \in Strategies :
       \/ Leave(st) \/ Kill(st)
       \/ \E c \in Channels : Subscribe(st, c) \/ Unsubscribe(st, c)
  \/ Listening("okex") \/ Listening("binance")
  \/ Sending \/ Ping \/ Pong \/ OnWsClose
  \/ \E c \in Okex : Enter(c)
  \/ \E c \in Streams : Lose(c)

Spec == Init /\ [][Next]_vars

(* The gateways' threads and the tasks run, and a strategy that is in      *)
(* UnSubAll goes on.                                                       *)
FairSpec ==
  /\ Spec
  /\ WF_vars(Listening("okex")) /\ WF_vars(Listening("binance"))
  /\ WF_vars(Sending) /\ \A c \in Okex : WF_vars(Enter(c))
  /\ \A st \in Strategies : WF_vars(\E c \in Channels : Unsubscribe(st, c))

(***************************************************************************)
(* Properties                                                              *)
(***************************************************************************)

(* Where there is a count somebody is counted, but for tickers and klines, *)
(* and for a stream whose connection failed.                               *)
Least(c) == CASE c \in Depths \cup (Streams \ spoilt) -> 1
              [] c \in Streams \cap spoilt -> -MaxCalls
              [] OTHER -> 0

(* Every variable has its type, and every count is as large as it must be. *)
TypeOK ==
  /\ subs \in [Strategies -> SUBSET Channels] /\ leaving \subseteq Strategies
  /\ calls \in 0 .. MaxCalls
  /\ DOMAIN num \subseteq Channels
  /\ \A c \in DOMAIN num : num[c] \in Least(c) .. MaxCalls
  /\ UNION {sent, map} \subseteq Okex
  /\ UNION {used, on, spoilt, forgotten} \subseteq Channels
  /\ withdrawn \in [Channels -> {"no", "taken back", "left"}]
  /\ client \in [Streams -> {"none", "open", "closed"}]
  /\ {IsWsConnected, Ponged} \subseteq BOOLEAN

Subscribers(c) == {st \in Strategies : c \in subs[st]}
Unread(c, msg) ==
  Cardinality({i \in DOMAIN frames[Gateway(c)] :
                 frames[Gateway(c)][i] = [msg |-> msg, ch |-> c]})

(* Requests that were dropped or whose connection failed are not counted.  *)
Counted(c) == IF c \in Streams THEN c \notin spoilt ELSE IsWsConnected

(* A channel's count, with what is still to be read, is the number of      *)
(* strategies subscribed to it; it is not less, even if some subscribe     *)
(* twice or are killed (ReqSub..., ReqUnSub..., UnSubAll).                 *)
CountsAreSubscribers ==
  \A c \in Channels : Counted(c) =>
    LET n == Count(c) + Unread(c, "sub") - Unread(c, "unsub") IN
    /\ n >= Cardinality(Subscribers(c))
    /\ c \notin forgotten => n = Cardinality(Subscribers(c))

Wanted(c) == Subscribers(c) # {}
Works(c) == IF c \in Streams THEN client[c] # "closed" ELSE IsWsConnected

(* What somebody is subscribed to is asked for at the exchange, whoever    *)
(* else subscribes or leaves; unless the connection is lost, a message     *)
(* could not be sent, or a ticker or kline was withdrawn before.           *)
Fed ==
  \A c \in Channels :
    Wanted(c) ~> c \in on \/ ~Wanted(c) \/ c \in spoilt \/ withdrawn[c] # "no" \/ ~Works(c)

(* What nobody is subscribed to any more is taken back, a ticker or kline  *)
(* every time anew; unless the connection is lost, a message could not be  *)
(* sent, a subscription is withdrawn by nobody, or a ticker is withdrawn   *)
(* before the task that follows its sending has run (ReqUnSub...).         *)
Released ==
  \A c \in Channels :
    ~Wanted(c) ~> \/ c \notin on \/ Wanted(c) \/ c \in spoilt \cup forgotten
                 \/ withdrawn[c] = "left" \/ ~Works(c)

(* Fed, for channels that were withdrawn before, too (ReqSub...).          *)
AlwaysFed == \A c \in Channels : Wanted(c) ~> c \in on \/ ~Wanted(c)

(* Released, for a ticker that is withdrawn early, too (ReqUnSubTicker). *)
AlwaysReleased ==
  \A c \in Channels :
    ~Wanted(c) ~> c \notin on \/ Wanted(c) \/ c \in spoilt \cup forgotten \/ ~Works(c)
=============================================================================
