------------------------ MODULE TradeGatewayProofs ------------------------
(***************************************************************************)
(* Proofs about ExchangeRequests, for any number of requests of any kinds, *)
(* to any exchanges, with any number of items in an answer: a frame marked *)
(* as the last of an answer is the last, and a strategy is told of orders  *)
(* only that the exchange has taken; and about TradeGateway, for any       *)
(* strategies, exchanges and numbers of sessions and requests: requests    *)
(* are not dropped, and are passed on in their session.                    *)
(***************************************************************************)
EXTENDS ExchangeRequests, Sessions, SequenceTheorems, TLAPS

-----------------------------------------------------------------------------
(* The inductive invariant.                                                *)

Frames == [kind : AllKinds \cup {"rtnOrder"}, rid : 0 .. MaxRequests, of : Numbers,
           last : BOOLEAN, says : {"done", "refusal", "error"}]
RequestSet == [kind : Kinds, source : Sources, bad : {"no", "symbol", "type"}]

(* The types the argument needs. *)
Typed ==
  /\ requests \in Seq(RequestSet) /\ Len(requests) <= MaxRequests
  /\ next \in 1 .. Len(requests) + 1
  /\ unit \in Seq(Frames) /\ at \in 0 .. Len(unit)
  /\ orders \subseteq Numbers
  /\ tasks = [n \in Numbers |-> [pc |-> tasks[n].pc, reply |-> tasks[n].reply,
                                 frames |-> tasks[n].frames]]

(* A frame that tells of an order without an error or a refusal is about   *)
(* one the exchange has taken, unless it is addressed to nobody.           *)
Truthful(f) == f.kind = "insert" /\ f.says = "done" /\ f.rid # 0 => f.rid \in orders

(* The frames a continuation has still to write are in the order of their  *)
(* places: the last one is last.                                           *)
Pending(n) == DOMAIN tasks[n].frames
PendingOK ==
  \A n \in Numbers :
    /\ tasks[n].pc # "answered" => Pending(n) = {}
    /\ n >= next => tasks[n].pc = "none"
    /\ \A i \in Pending(n) :
         LET f == tasks[n].frames[i] IN
         /\ i \in Nat /\ f \in Frames /\ f.of = n /\ Truthful(f)
         /\ f.last => \A j \in Pending(n) : j <= i

(* Answers in the unit are to requests that were read and are not still at *)
(* the exchange; after the last of an answer nothing more will come.       *)
WrittenOK ==
  /\ \A i \in DOMAIN unit : Truthful(unit[i])
  /\ \A i \in Answers :
       LET n == unit[i].of IN
       /\ n < next /\ tasks[n].pc # "asked"
       /\ unit[i].last => Pending(n) = {}

IInv == Typed /\ PendingOK /\ WrittenOK /\ LastEnds

-----------------------------------------------------------------------------
(* Lemmas about the unit and the tasks.                                    *)

(* A frame is written to the unit. *)
LEMMA FrameWritten ==
  ASSUME Typed, NEW f \in Frames, unit' = Append(unit, f)
  PROVE  /\ unit' \in Seq(Frames) /\ at \in 0 .. Len(unit')
         /\ Len(unit') \in DOMAIN unit' /\ unit'[Len(unit')] = f
         /\ \A i \in DOMAIN unit : i \in DOMAIN unit' /\ unit'[i] = unit[i] /\ i < Len(unit')
         /\ \A i \in DOMAIN unit' : i \in Nat /\ (i \in DOMAIN unit \/ i = Len(unit'))
  <1>1. unit \in Seq(Frames) /\ at \in 0 .. Len(unit)
    BY DEF Typed
  <1> QED
    BY <1>1

(* What is handed to a callback is in the unit. *)
LEMMA HandedIsWritten ==
  ASSUME Typed, NEW n \in Numbers, NEW i \in HandedFrames(n)
  PROVE  i \in DOMAIN unit /\ unit[i].rid = n
  <1>1. unit \in Seq(Frames) /\ at \in 0 .. Len(unit) /\ i \in 1 .. at /\ unit[i].rid = n
    BY DEF Typed, HandedFrames
  <1> QED
    BY <1>1

LEMMA FrameOf ==
  ASSUME Typed, NEW i \in DOMAIN unit
  PROVE  unit[i] \in Frames /\ unit[i].of \in Numbers /\ i \in Nat
  <1>1. unit \in Seq(Frames) /\ i \in 1 .. Len(unit) /\ Len(unit) \in Nat
    BY DEF Typed
  <1>2. unit[i] \in Frames
    BY <1>1
  <1> QED
    BY <1>1, <1>2 DEF Frames

(* A task is a record, whose fields are changed one by one. *)
LEMMA TaskShape ==
  ASSUME Typed
  PROVE  /\ DOMAIN tasks = Numbers /\ tasks = [m \in Numbers |-> tasks[m]]
         /\ \A n \in Numbers : tasks[n] = [pc |-> tasks[n].pc, reply |-> tasks[n].reply,
                                           frames |-> tasks[n].frames]
  <1>1. tasks = [m \in Numbers |-> [pc |-> tasks[m].pc, reply |-> tasks[m].reply,
                                    frames |-> tasks[m].frames]]
    BY DEF Typed
  <1> QED
    BY <1>1

(* The items of an answer, and when there are some. *)
LEMMA ReplyItems ==
  ASSUME NEW n \in Numbers, NEW r \in Replies(n)
  PROVE  /\ r.items \in Seq({"good", "odd", "broken"})
         /\ r.is \notin {"failed", "error", "refusal"} /\ Req(n).kind = "insert" => n \in orders
  <1>1. CASE r \in {[is |-> i, items |-> <<>>] :
                      i \in {"failed"} \cup Refusals(n)}
    <2>1. r.items = <<>> /\ r.is \in {"failed", "error", "refusal"}
      BY <1>1 DEF Refusals
    <2>2. <<>> \in Seq({"good", "odd", "broken"})
      OBVIOUS
    <2> QED
      BY <2>1, <2>2
  <1>2. CASE /\ Req(n).kind = "insert" => n \in orders
             /\ \E x \in ItemsOf(Req(n).kind) : r = [is |-> "items", items |-> x]
    <2>1. PICK x \in ItemsOf(Req(n).kind) : r = [is |-> "items", items |-> x]
      BY <1>2
    <2>2. PICK i \in Nat : x \in [1 .. i -> {"good", "odd", "broken"}]
      <3>1. ASSUME NEW S, NEW i \in Nat, S \subseteq {"good", "odd", "broken"},
                   x \in [1 .. i -> S]
            PROVE  x \in [1 .. i -> {"good", "odd", "broken"}]
        BY <3>1
      <3> DEFINE It == IF Req(n).kind = "kline" THEN {"good", "odd", "broken"}
                       ELSE {"good", "broken"}
      <3>2. It \subseteq {"good", "odd", "broken"}
        OBVIOUS
      <3>3. \/ \E i \in 0 .. MaxItems : x \in [1 .. i -> It]
            \/ x \in [1 .. 1 -> It]
        BY DEF ItemsOf
      <3> HIDE DEF It
      <3>4. 0 .. MaxItems \subseteq Nat /\ 1 \in Nat
        BY ExchangeAssumption DEF ExchangeAssumption
      <3> QED
        BY <3>1, <3>2, <3>3, <3>4
    <2>3. x \in Seq({"good", "odd", "broken"})
      BY <2>2, SeqDef
    <2> QED
      BY <1>2, <2>1, <2>3
  <1> QED
    BY <1>1, <1>2 DEF Replies

(* The frames an answer makes: in the order of the items, of that request, *)
(* and true.                                                               *)
LEMMA AnswerFrames ==
  ASSUME Typed, NEW n \in Numbers, n < next, NEW r \in Replies(n),
         NEW fs, fs = Okex(n, r) \/ fs = Binance(n, r)
  PROVE  \A i \in DOMAIN fs :
           /\ i \in Nat /\ fs[i] \in Frames /\ fs[i].of = n /\ Truthful(fs[i])
           /\ fs[i].last => \A j \in DOMAIN fs : j <= i
  <1>1. Req(n) \in RequestSet /\ Req(n).kind \in AllKinds /\ Req(n).kind # "rtnOrder"
    <2>1. n \in 1 .. Len(requests) /\ requests \in Seq(RequestSet)
      BY DEF Typed, Numbers
    <2>2. Req(n) \in RequestSet
      BY <2>1 DEF Req
    <2> QED
      BY <2>2, ExchangeAssumption DEF ExchangeAssumption, RequestSet, AllKinds
  <1>2. n \in 0 .. MaxRequests /\ 0 \in 0 .. MaxRequests /\ n # 0
    BY ExchangeAssumption DEF ExchangeAssumption, Numbers
  <1> DEFINE Right(s) == \A i \in DOMAIN s :
           /\ i \in Nat /\ s[i] \in Frames /\ s[i].of = n /\ Truthful(s[i])
           /\ s[i].last => \A j \in DOMAIN s : j <= i
  <1>3. Right(<<>>)
    OBVIOUS
  <1>4. ASSUME NEW f \in Frames, f.of = n, f.says # "done" \/ f.rid = 0
        PROVE  Right(<<f>>)
    BY <1>4 DEF Truthful
  <1>5. ASSUME NEW says \in {"refusal", "error"} PROVE Right(One(n, says))
    <2> DEFINE f == Frame(n, Req(n).kind, n, TRUE, says)
    <2>1. f \in Frames /\ f.of = n /\ f.says # "done" /\ One(n, says) = <<f>>
      BY <1>1, <1>2 DEF Frame, Frames, One
    <2> HIDE DEF f, Right
    <2> QED
      BY <1>4, <2>1
  <1>6. Right(OkexError(n)) /\ Right(Refusal(n))
    <2>1. CASE Req(n).kind \in {"account", "insert"}
      <3> DEFINE f == Frame(n, Req(n).kind, 0, TRUE,
                            IF Req(n).kind = "account" THEN "error" ELSE "done")
      <3>1. f \in Frames /\ f.of = n /\ f.rid = 0 /\ OkexError(n) = <<f>>
        BY <1>1, <1>2, <2>1 DEF Frame, Frames, OkexError
      <3> HIDE DEF f, Right
      <3> QED
        BY <1>3, <1>4, <1>5, <3>1 DEF Refusal
    <2>2. CASE Req(n).kind \notin {"account", "insert"}
      <3> HIDE DEF Right
      <3> QED
        BY <1>3, <1>5, <2>2 DEF OkexError, Refusal
    <2> QED
      BY <2>1, <2>2
  <1>7. ASSUME r.is \notin {"failed", "error", "refusal"} PROVE Right(Parsed(n, r.items))
    <2> DEFINE items == r.items
               F(i) == Frame(n, Req(n).kind, n, IsLast(i, items), "done")
               P == Parsed(n, items)
    <2>1. items \in Seq({"good", "odd", "broken"})
      BY ReplyItems
    <2>2. DOMAIN P \subseteq DOMAIN items /\ \A i \in DOMAIN P : P[i] = F(i)
      BY DEF Parsed
    <2>3. \A i \in DOMAIN items : i \in Nat /\ i <= Len(items)
      BY <2>1
    <2>4. \A i : /\ F(i) \in Frames /\ F(i).of = n /\ (F(i).last <=> i = Len(items))
                 /\ F(i).kind = Req(n).kind /\ F(i).rid = n
      BY <1>1, <1>2 DEF Frame, Frames, IsLast
    <2>5. \A i : Truthful(F(i))
      BY <1>7, <2>4, ReplyItems DEF Truthful
    <2> HIDE DEF items, F, P
    <2>6. Right(P)
      BY <2>2, <2>3, <2>4, <2>5
    <2> QED
      BY <2>6 DEF P, items
  <1> HIDE DEF Right
  <1>8. Right(fs)
    BY <1>3, <1>5, <1>6, <1>7 DEF Okex, Binance
  <1> QED
    BY <1>8 DEF Right

-----------------------------------------------------------------------------
(* Every step preserves the inductive invariant.                           *)

LEMMA InitInvariant == ASSUME Init PROVE IInv
  <1> USE ExchangeAssumption DEF ExchangeAssumption, Init
  <1>1. /\ requests \in Seq(RequestSet) /\ Len(requests) = 0
        /\ unit \in Seq(Frames) /\ Len(unit) = 0 /\ DOMAIN unit = {}
    OBVIOUS
  <1>2. tasks = [n \in Numbers |-> [pc |-> tasks[n].pc, reply |-> tasks[n].reply,
                                    frames |-> tasks[n].frames]]
        /\ \A n \in Numbers : tasks[n].pc = "none" /\ Pending(n) = {}
    BY DEF Pending
  <1>3. Typed
    BY <1>1, <1>2 DEF Typed
  <1>4. PendingOK
    BY <1>2 DEF PendingOK
  <1> QED
    BY <1>1, <1>3, <1>4 DEF IInv, WrittenOK, LastEnds, Answers

(* The strategy makes a request, the data thread reads on, a page is       *)
(* released, or the gateway comes to an end: nothing is written.           *)
LEMMA QuietStep ==
  ASSUME IInv, UNCHANGED <<tasks, orders, unit>>, next' = next,
         at' = at \/ (HasFrame /\ at' = at + 1),
         \/ UNCHANGED requests
         \/ \E k \in Kinds, s \in Sources : \E b \in Bad(k) : Request(k, s, b)
  PROVE  IInv'
  <1>0. Typed /\ PendingOK /\ WrittenOK /\ LastEnds
    BY DEF IInv
  <1>1. /\ requests' \in Seq(RequestSet) /\ Len(requests') <= MaxRequests
        /\ Len(requests) <= Len(requests')
    <2>1. CASE UNCHANGED requests
      BY <1>0, <2>1 DEF Typed
    <2>2. ASSUME NEW k \in Kinds, NEW s \in Sources, NEW b \in Bad(k), Request(k, s, b)
          PROVE  <1>1
      <3>1. b \in {"no", "symbol", "type"}
        BY ExchangeAssumption DEF ExchangeAssumption, Bad
      <3> DEFINE q == [kind |-> k, source |-> s, bad |-> b]
      <3>2. q \in RequestSet
        BY <3>1 DEF RequestSet
      <3>3. requests' = Append(requests, q) /\ Len(requests) < MaxRequests
        BY <2>2 DEF Request
      <3> HIDE DEF q
      <3>4. requests \in Seq(RequestSet) /\ MaxRequests \in Nat
        BY <1>0, ExchangeAssumption DEF Typed, ExchangeAssumption
      <3> QED
        BY <3>2, <3>3, <3>4
    <2> QED
      BY <2>1, <2>2
  <1>2. Typed'
    <2>1. at' \in 0 .. Len(unit)
      BY <1>0 DEF Typed, HasFrame
    <2>2. next' \in 1 .. Len(requests') + 1
      BY <1>0, <1>1 DEF Typed
    <2> QED
      BY <1>0, <1>1, <2>1, <2>2 DEF Typed
  <1>3. PendingOK'
    BY <1>0 DEF PendingOK, Pending, Truthful
  <1>4. WrittenOK' /\ LastEnds'
    BY <1>0 DEF WrittenOK, LastEnds, Answers, Pending, Truthful
  <1> QED
    BY <1>2, <1>3, <1>4 DEF IInv

(* The ITGSpi reads a request and writes nothing. *)
LEMMA ReadStep ==
  ASSUME IInv, NEW n \in Numbers, Drop(n) \/ Throw(n) \/ Ask(n)
  PROVE  IInv'
  <1>0. Typed /\ PendingOK /\ WrittenOK /\ LastEnds
    BY DEF IInv
  <1>1. /\ n = next /\ n <= Len(requests) /\ next' = next + 1 /\ next \in Nat
        /\ UNCHANGED <<requests, orders, unit, at>>
    BY <1>0 DEF Typed, Drop, Throw, Ask, Reads, exchange
  <1>2. /\ tasks' = [m \in Numbers |-> [pc |-> tasks'[m].pc, reply |-> tasks'[m].reply,
                                        frames |-> tasks'[m].frames]]
        /\ \A m \in Numbers : tasks'[m].frames = tasks[m].frames
        /\ \A m \in Numbers : tasks'[m].pc = tasks[m].pc \/ (m = n /\ tasks'[m].pc = "asked")
    <2>1. CASE UNCHANGED tasks
      BY <1>0, <2>1 DEF Typed
    <2>2. CASE tasks' = [tasks EXCEPT ![n].pc = "asked"]
      <3>1. tasks' = [m \in Numbers |-> IF m = n THEN [pc |-> "asked", reply |-> tasks[n].reply,
                                                       frames |-> tasks[n].frames]
                                        ELSE tasks[m]]
        <4> DEFINE t == tasks[n]
        <4>1. t = [pc |-> t.pc, reply |-> t.reply, frames |-> t.frames]
          BY <1>0, TaskShape
        <4>2. [t EXCEPT !.pc = "asked"] =
                [pc |-> "asked", reply |-> t.reply, frames |-> t.frames]
          <5> HIDE DEF t
          <5> QED
            BY <4>1
        <4>3. DOMAIN tasks = Numbers /\ tasks = [m \in Numbers |-> tasks[m]]
          BY <1>0, TaskShape
        <4>4. tasks' = [tasks EXCEPT ![n] = [t EXCEPT !.pc = "asked"]]
          BY <2>2
        <4> HIDE DEF t
        <4> QED
          BY <4>2, <4>3, <4>4 DEF t
      <3>2. \A m \in Numbers : tasks[m] = [pc |-> tasks[m].pc, reply |-> tasks[m].reply,
                                           frames |-> tasks[m].frames]
        BY <1>0, TaskShape
      <3> QED
        BY <3>1, <3>2
    <2> QED
      BY <2>1, <2>2 DEF Drop, Throw, Ask, exchange
  <1>3. Typed'
    BY <1>0, <1>1, <1>2 DEF Typed, Numbers
  <1>4. PendingOK'
    <2>1. \A m \in Numbers : Pending(m)' = Pending(m)
      BY <1>2 DEF Pending
    <2>2. \A m \in Numbers : tasks'[m].pc # "answered" => Pending(m) = {}
      BY <1>0, <1>1, <1>2 DEF PendingOK
    <2>3. \A m \in Numbers : m >= next' => tasks'[m].pc = "none"
      BY <1>0, <1>1, <1>2 DEF PendingOK, Numbers
    <2> QED
      BY <1>0, <1>1, <1>2, <2>1, <2>2, <2>3 DEF PendingOK, Truthful
  <1>5. WrittenOK'
    <2>1. \A i \in Answers : unit[i].of \in Numbers /\ unit[i].of # n
      BY <1>0, <1>1, FrameOf DEF WrittenOK, Answers, Numbers
    <2>2. \A i \in DOMAIN unit : Truthful(unit[i])'
      BY <1>0, <1>1 DEF WrittenOK, Truthful
    <2>3. ASSUME NEW i \in Answers
          PROVE  /\ unit[i].of < next' /\ tasks'[unit[i].of].pc # "asked"
                 /\ unit[i].last => DOMAIN tasks'[unit[i].of].frames = {}
      <3>1. LET m == unit[i].of IN
            m < next /\ tasks[m].pc # "asked" /\ (unit[i].last => DOMAIN tasks[m].frames = {})
        BY <1>0 DEF WrittenOK, Pending
      <3>2. tasks'[unit[i].of].pc = tasks[unit[i].of].pc
        BY <1>2, <2>1
      <3>3. tasks'[unit[i].of].frames = tasks[unit[i].of].frames
        BY <1>2, <2>1
      <3>4. unit[i].of \in Nat
        BY <2>1 DEF Numbers
      <3> QED
        BY <1>1, <3>1, <3>2, <3>3, <3>4
    <2> QED
      BY <1>1, <2>2, <2>3 DEF WrittenOK, Answers, Pending
  <1>6. LastEnds'
    BY <1>0, <1>1 DEF LastEnds, Answers
  <1> QED
    BY <1>3, <1>4, <1>5, <1>6 DEF IInv

(* An exchange takes an order. *)
LEMMA TakeStep ==
  ASSUME IInv, NEW n \in Numbers, Take(n)
  PROVE  IInv'
  <1>1. /\ orders' = orders \cup {n} /\ UNCHANGED <<requests, next, tasks, unit, at>>
        /\ Typed /\ PendingOK /\ WrittenOK /\ LastEnds
    BY DEF Take, IInv
  <1>2. Typed'
    BY <1>1 DEF Typed
  <1>3. PendingOK'
    BY <1>1 DEF PendingOK, Pending, Truthful
  <1>4. WrittenOK' /\ LastEnds'
    BY <1>1 DEF WrittenOK, LastEnds, Answers, Pending, Truthful
  <1> QED
    BY <1>2, <1>3, <1>4 DEF IInv

(* A continuation has the exchange's answer. *)
LEMMA AnswerStep ==
  ASSUME IInv, NEW n \in Numbers, NEW r \in Replies(n), Answer(n, r)
  PROVE  IInv'
  <1>0. /\ Typed /\ PendingOK /\ WrittenOK /\ LastEnds /\ tasks[n].pc = "asked"
        /\ UNCHANGED <<requests, next, orders, unit, at>>
    BY DEF IInv, Answer
  <1> DEFINE fs == IF Req(n).source = "okex" THEN Okex(n, r) ELSE Binance(n, r)
  <1>1. tasks' = [tasks EXCEPT ![n] = [pc |-> "answered", reply |-> r, frames |-> fs]]
    BY DEF Answer
  <1>2. fs = Okex(n, r) \/ fs = Binance(n, r)
    OBVIOUS
  <1> HIDE DEF fs
  <1>3. n < next
    <2>1. next \in Int /\ n \in Int
      BY <1>0 DEF Typed, Numbers
    <2>2. ~ (n >= next)
      BY <1>0 DEF PendingOK
    <2> QED
      BY <2>1, <2>2
  <1>4. \A i \in DOMAIN fs :
          /\ i \in Nat /\ fs[i] \in Frames /\ fs[i].of = n /\ Truthful(fs[i])
          /\ fs[i].last => \A j \in DOMAIN fs : j <= i
    BY <1>0, <1>2, <1>3, AnswerFrames
  <1>5. /\ tasks'[n].pc = "answered" /\ tasks'[n].frames = fs
        /\ \A m \in Numbers \ {n} : tasks'[m] = tasks[m]
        /\ tasks' = [m \in Numbers |-> [pc |-> tasks'[m].pc, reply |-> tasks'[m].reply,
                                        frames |-> tasks'[m].frames]]
    BY <1>0, <1>1 DEF Typed
  <1>6. Typed'
    BY <1>0, <1>5 DEF Typed
  <1>7. PendingOK'
    <2> SUFFICES ASSUME NEW m \in Numbers
                 PROVE  /\ tasks'[m].pc # "answered" => Pending(m)' = {}
                        /\ m >= next => tasks'[m].pc = "none"
                        /\ \A i \in Pending(m)' :
                             LET f == tasks'[m].frames[i] IN
                             /\ i \in Nat /\ f \in Frames /\ f.of = m /\ Truthful(f)
                             /\ f.last => \A j \in Pending(m)' : j <= i
      BY <1>0 DEF PendingOK, Truthful
    <2>1. CASE m = n
      BY <1>0, <1>3, <1>4, <1>5, <2>1 DEF Pending, Typed, Numbers
    <2>2. CASE m # n
      BY <1>0, <1>5, <2>2 DEF PendingOK, Pending
    <2> QED
      BY <2>1, <2>2
  <1>8. WrittenOK'
    <2>1. \A i \in Answers : unit[i].of \in Numbers /\ unit[i].of # n
      BY <1>0, FrameOf DEF WrittenOK, Answers
    <2> QED
      BY <1>0, <1>5, <2>1 DEF WrittenOK, Answers, Pending, Truthful
  <1>9. LastEnds'
    BY <1>0 DEF LastEnds, Answers
  <1> QED
    BY <1>6, <1>7, <1>8, <1>9 DEF IInv

(* What is written keeps the invariant when it is true, when it is about a *)
(* request that was read, when no last frame of that request has come, and *)
(* when nothing of it follows if it is itself the last.                    *)
LEMMA WriteStep ==
  ASSUME IInv, NEW f \in Frames, unit' = Append(unit, f), Truthful(f),
         UNCHANGED <<requests, orders, at>>, next' \in {next, next + 1},
         next' <= Len(requests) + 1,
         tasks' = [n \in Numbers |-> [pc |-> tasks'[n].pc, reply |-> tasks'[n].reply,
                                      frames |-> tasks'[n].frames]],
         \A n \in Numbers : tasks'[n].pc = tasks[n].pc /\ Pending(n)' \subseteq Pending(n),
         f.kind # "rtnOrder" =>
           /\ f.of < next' /\ tasks[f.of].pc # "asked"
           /\ \A i \in Answers : unit[i].of = f.of => ~unit[i].last
           /\ f.last => Pending(f.of)' = {}
  PROVE  Typed' /\ WrittenOK' /\ LastEnds'
  <1>0. Typed /\ WrittenOK /\ LastEnds
    BY DEF IInv
  <1>1. /\ unit' \in Seq(Frames) /\ at \in 0 .. Len(unit')
        /\ Len(unit') \in DOMAIN unit' /\ unit'[Len(unit')] = f
        /\ \A i \in DOMAIN unit : i \in DOMAIN unit' /\ unit'[i] = unit[i] /\ i < Len(unit')
        /\ \A i \in DOMAIN unit' : i \in Nat /\ (i \in DOMAIN unit \/ i = Len(unit'))
    BY <1>0, FrameWritten
  <1>2. next \in Nat /\ next' \in 1 .. Len(requests) + 1 /\ next <= next'
    BY <1>0 DEF Typed
  <1>3. Typed'
    BY <1>0, <1>1, <1>2 DEF Typed
  <1>4. \A i \in Answers' : i \in Answers \/ (i = Len(unit') /\ f.kind # "rtnOrder")
    BY <1>1 DEF Answers
  <1>5. \A i \in Answers : i \in DOMAIN unit /\ unit'[i] = unit[i]
    BY <1>1 DEF Answers
  <1>6. ASSUME NEW i \in Answers'
        PROVE  /\ unit'[i].of < next' /\ tasks'[unit'[i].of].pc # "asked"
               /\ unit'[i].last => DOMAIN tasks'[unit'[i].of].frames = {}
    <2>1. CASE i \in Answers
      <3>1. unit'[i] = unit[i] /\ unit[i].of \in Numbers
        BY <1>0, <1>5, <2>1, FrameOf
      <3>2. LET n == unit[i].of IN
            n < next /\ tasks[n].pc # "asked" /\ (unit[i].last => Pending(n) = {})
        BY <1>0, <2>1 DEF WrittenOK
      <3>3. DOMAIN tasks'[unit[i].of].frames \subseteq Pending(unit[i].of)
        BY <3>1 DEF Pending
      <3>4. unit[i].of \in Nat
        BY <3>1 DEF Numbers
      <3> QED
        BY <1>2, <3>1, <3>2, <3>3, <3>4
    <2>2. CASE i = Len(unit') /\ f.kind # "rtnOrder"
      <3>1. f.of \in Numbers /\ unit'[i] = f
        BY <1>1, <2>2 DEF Frames
      <3>2. f.last => DOMAIN tasks'[f.of].frames = {}
        BY <2>2 DEF Pending
      <3> QED
        BY <2>2, <3>1, <3>2
    <2> QED
      BY <1>4, <2>1, <2>2
  <1>7. WrittenOK'
    <2>1. \A i \in DOMAIN unit' : Truthful(unit'[i])
      BY <1>0, <1>1 DEF WrittenOK
    <2> QED
      BY <1>6, <2>1 DEF WrittenOK, Truthful, Pending
  <1>8. LastEnds'
    <2> SUFFICES ASSUME NEW i \in Answers', NEW j \in Answers', i < j,
                        unit'[i].of = unit'[j].of
                 PROVE  ~unit'[i].last
      BY DEF LastEnds
    <2>1. i \in Answers
      BY <1>1, <1>4, <1>5 DEF Answers
    <2>2. CASE j \in Answers
      BY <1>0, <1>5, <2>1, <2>2 DEF LastEnds
    <2>3. CASE j = Len(unit') /\ f.kind # "rtnOrder"
      BY <1>1, <1>5, <2>1, <2>3
    <2> QED
      BY <1>4, <2>2, <2>3
  <1> QED
    BY <1>3, <1>7, <1>8

(* A query for a symbol is answered at once. *)
LEMMA SymbolStep ==
  ASSUME IInv, NEW n \in Numbers, AnswerSymbol(n)
  PROVE  IInv'
  <1>0. Typed /\ PendingOK /\ WrittenOK /\ LastEnds
    BY DEF IInv
  <1>1. /\ n = next /\ n <= Len(requests) /\ next' = next + 1 /\ next \in Nat
        /\ Req(n).kind = "symbol" /\ unit' = unit \o One(n, IF Req(n).bad = "no" THEN "done" ELSE "error")
        /\ UNCHANGED <<requests, tasks, orders, at>>
    BY <1>0 DEF Typed, AnswerSymbol, Reads, exchange
  <1> DEFINE f == Frame(n, Req(n).kind, n, TRUE,
                        IF Req(n).bad = "no" THEN "done" ELSE "error")
  <1>2. f \in Frames /\ f.kind = "symbol" /\ f.of = n
    BY <1>1 DEF Frame, Frames, AllKinds, Numbers
  <1>3. unit' = unit \o <<f>>
    BY <1>1 DEF One
  <1> HIDE DEF f
  <1>4. unit' = Append(unit, f)
    BY <1>0, <1>2, <1>3, AppendIsConcat DEF Typed
  <1>5. tasks[n].pc = "none" /\ Pending(n) = {}
    BY <1>0, <1>1 DEF PendingOK
  <1>6. \A i \in Answers : unit[i].of # n
    BY <1>0, <1>1, FrameOf DEF WrittenOK, Answers, Numbers
  <1>7. \A m \in Numbers : Pending(m)' = Pending(m) /\ tasks'[m].pc = tasks[m].pc
    BY <1>1 DEF Pending
  <1>8. Typed' /\ WrittenOK' /\ LastEnds'
    <2>1. tasks' = [m \in Numbers |-> [pc |-> tasks'[m].pc, reply |-> tasks'[m].reply,
                                       frames |-> tasks'[m].frames]]
      BY <1>0, <1>1 DEF Typed
    <2>2. Truthful(f)
      BY <1>2 DEF Truthful
    <2>3. next' <= Len(requests) + 1
      BY <1>0, <1>1 DEF Typed
    <2> QED
      BY <1>1, <1>2, <1>4, <1>5, <1>6, <1>7, <2>1, <2>2, <2>3, WriteStep
  <1>9. PendingOK'
    <2>1. \A m \in Numbers : m >= next' => tasks'[m].pc = "none"
      BY <1>0, <1>1 DEF PendingOK, Numbers
    <2> SUFFICES ASSUME NEW m \in Numbers
                 PROVE  /\ tasks'[m].pc # "answered" => Pending(m)' = {}
                        /\ m >= next' => tasks'[m].pc = "none"
                        /\ \A j \in Pending(m)' :
                             LET g == tasks'[m].frames[j] IN
                             /\ j \in Nat /\ g \in Frames /\ g.of = m /\ Truthful(g)
                             /\ g.last => \A k \in Pending(m)' : k <= j
      BY <1>1 DEF PendingOK, Truthful
    <2>2. Pending(m)' = Pending(m) /\ tasks'[m] = tasks[m]
      BY <1>1, <1>7
    <2>3. /\ tasks[m].pc # "answered" => Pending(m) = {}
          /\ \A j \in Pending(m) :
               LET g == tasks[m].frames[j] IN
               /\ j \in Nat /\ g \in Frames /\ g.of = m /\ Truthful(g)
               /\ g.last => \A k \in Pending(m) : k <= j
      BY <1>0 DEF PendingOK
    <2> QED
      BY <2>1, <2>2, <2>3
  <1> QED
    BY <1>8, <1>9 DEF IInv

(* An update of an order comes. *)
LEMMA UpdateStep ==
  ASSUME IInv, NEW n \in Numbers, OnRtnOrder(n)
  PROVE  IInv'
  <1>0. Typed /\ PendingOK /\ WrittenOK /\ LastEnds
    BY DEF IInv
  <1> DEFINE f == Frame(n, "rtnOrder", 0, TRUE, "done")
  <1>1. unit' = Append(unit, f) /\ UNCHANGED <<requests, next, tasks, orders, at>>
    BY DEF OnRtnOrder, exchange
  <1>2. f \in Frames /\ f.kind = "rtnOrder"
    BY ExchangeAssumption DEF ExchangeAssumption, Frame, Frames
  <1> HIDE DEF f
  <1>3. Typed' /\ WrittenOK' /\ LastEnds'
    <2>1. tasks' = [m \in Numbers |-> [pc |-> tasks'[m].pc, reply |-> tasks'[m].reply,
                                       frames |-> tasks'[m].frames]]
      BY <1>0, <1>1 DEF Typed
    <2>2. Truthful(f)
      BY <1>2 DEF Truthful
    <2>3. next' \in {next, next + 1} /\ next' <= Len(requests) + 1
      BY <1>0, <1>1 DEF Typed
    <2>4. \A m \in Numbers : Pending(m)' \subseteq Pending(m) /\ tasks'[m].pc = tasks[m].pc
      BY <1>1 DEF Pending
    <2> QED
      BY <1>1, <1>2, <2>1, <2>2, <2>3, <2>4, WriteStep
  <1>4. PendingOK'
    BY <1>0, <1>1 DEF PendingOK, Pending, Truthful
  <1> QED
    BY <1>3, <1>4 DEF IInv

(* A continuation writes its next frame. *)
LEMMA FrameStep ==
  ASSUME IInv, NEW n \in Numbers, Write(n)
  PROVE  IInv'
  <1>0. Typed /\ PendingOK /\ WrittenOK /\ LastEnds
    BY DEF IInv
  <1> DEFINE fs == tasks[n].frames
  <1>1. PICK i \in Pending(n) :
          /\ \A j \in Pending(n) : i <= j
          /\ unit' = Append(unit, fs[i])
          /\ tasks' = [tasks EXCEPT ![n].frames = [j \in DOMAIN fs \ {i} |-> fs[j]]]
    BY DEF Write, Pending
  <1>2. UNCHANGED <<requests, next, orders, at>>
    BY DEF Write
  <1> DEFINE f == fs[i]
             rest == [j \in DOMAIN fs \ {i} |-> fs[j]]
  <1>3. tasks' = [m \in Numbers |-> IF m = n THEN [pc |-> tasks[n].pc, reply |-> tasks[n].reply,
                                                  frames |-> rest]
                                   ELSE tasks[m]]
    <2> DEFINE t == tasks[n]
    <2>1. t = [pc |-> t.pc, reply |-> t.reply, frames |-> t.frames]
      BY <1>0, TaskShape
    <2>2. [t EXCEPT !.frames = rest] = [pc |-> t.pc, reply |-> t.reply, frames |-> rest]
      <3> HIDE DEF t, rest
      <3> QED
        BY <2>1
    <2>3. DOMAIN tasks = Numbers /\ tasks = [m \in Numbers |-> tasks[m]]
      BY <1>0, TaskShape
    <2>4. tasks' = [tasks EXCEPT ![n] = [t EXCEPT !.frames = rest]]
      BY <1>1
    <2> HIDE DEF t, rest
    <2> QED
      BY <2>2, <2>3, <2>4 DEF t
  <1>4. \A m \in Numbers : tasks[m] = [pc |-> tasks[m].pc, reply |-> tasks[m].reply,
                                       frames |-> tasks[m].frames]
    BY <1>0, TaskShape
  <1>5. /\ tasks' = [m \in Numbers |-> [pc |-> tasks'[m].pc, reply |-> tasks'[m].reply,
                                        frames |-> tasks'[m].frames]]
        /\ \A m \in Numbers : tasks'[m].pc = tasks[m].pc
        /\ \A m \in Numbers \ {n} : tasks'[m].frames = tasks[m].frames
        /\ tasks'[n].frames = rest
    <2> HIDE DEF rest
    <2> QED
      BY <1>3, <1>4
  <1>6. /\ Pending(n)' = Pending(n) \ {i} /\ \A m \in Numbers \ {n} : Pending(m)' = Pending(m)
        /\ \A j \in Pending(n)' : tasks'[n].frames[j] = fs[j]
    BY <1>5 DEF Pending
  <1>7. /\ f \in Frames /\ f.of = n /\ Truthful(f) /\ i \in Nat
        /\ f.last => \A j \in Pending(n) : j <= i
        /\ \A j \in Pending(n) : j \in Nat
    BY <1>0, <1>1 DEF PendingOK
  <1>8. n < next /\ tasks[n].pc = "answered"
    <2>1. tasks[n].pc = "answered"
      BY <1>0, <1>1 DEF PendingOK
    <2>2. next \in Int /\ n \in Int /\ ~ (n >= next)
      BY <1>0, <2>1 DEF PendingOK, Typed, Numbers
    <2> QED
      BY <2>1, <2>2
  <1>9. \A k \in Answers : unit[k].of = n => ~unit[k].last
    BY <1>0, <1>1 DEF WrittenOK
  <1>10. f.last => Pending(n)' = {}
    BY <1>1, <1>6, <1>7
  <1> HIDE DEF f, rest
  <1>11. Typed' /\ WrittenOK' /\ LastEnds'
    <2>1. unit' = Append(unit, f)
      BY <1>1 DEF f
    <2>2. \A m \in Numbers : tasks'[m].pc = tasks[m].pc /\ Pending(m)' \subseteq Pending(m)
      BY <1>5, <1>6
    <2>3. next' \in {next, next + 1} /\ next' <= Len(requests) + 1
      BY <1>0, <1>2 DEF Typed
    <2> QED
      BY <1>2, <1>5, <1>7, <1>8, <1>9, <1>10, <2>1, <2>2, <2>3, WriteStep
  <1>12. PendingOK'
    <2> SUFFICES ASSUME NEW m \in Numbers
                 PROVE  /\ tasks'[m].pc # "answered" => Pending(m)' = {}
                        /\ m >= next => tasks'[m].pc = "none"
                        /\ \A j \in Pending(m)' :
                             LET g == tasks'[m].frames[j] IN
                             /\ j \in Nat /\ g \in Frames /\ g.of = m /\ Truthful(g)
                             /\ g.last => \A k \in Pending(m)' : k <= j
      BY <1>2 DEF PendingOK, Truthful
    <2>1. CASE m = n
      BY <1>0, <1>5, <1>6, <2>1 DEF PendingOK
    <2>2. CASE m # n
      BY <1>0, <1>5, <1>6, <2>2 DEF PendingOK
    <2> QED
      BY <2>1, <2>2
  <1> QED
    BY <1>11, <1>12 DEF IInv

-----------------------------------------------------------------------------
(* The theorems.                                                           *)

LEMMA InvariantKept == ASSUME IInv, [Next]_vars PROVE IInv'
  <1> USE DEF exchange
  <1>1. CASE \E k \in Kinds, s \in Sources : \E b \in Bad(k) : Request(k, s, b)
    BY <1>1, QuietStep DEF Request
  <1>2. CASE Run \/ End \/ LoadNextPage
    BY <1>2, QuietStep DEF Run, End, LoadNextPage
  <1>3. ASSUME NEW n \in Numbers, PassOn(n) PROVE IInv'
    BY <1>3, ReadStep, SymbolStep DEF PassOn
  <1>4. ASSUME NEW n \in Numbers, Take(n) \/ OnRtnOrder(n) PROVE IInv'
    BY <1>4, TakeStep, UpdateStep
  <1>5. ASSUME NEW n \in Numbers, Task(n) PROVE IInv'
    <2>1. CASE Stray(n)
      BY <2>1, QuietStep DEF Stray
    <2> QED
      BY <1>5, <2>1, AnswerStep, FrameStep DEF Task
  <1>6. CASE UNCHANGED vars
    BY <1>6, QuietStep DEF vars
  <1> QED
    BY <1>1, <1>2, <1>3, <1>4, <1>5, <1>6 DEF Next

LEMMA InvariantHolds == Spec => []IInv
  <1>1. Init => IInv
    BY InitInvariant
  <1>2. IInv /\ [Next]_vars => IInv'
    BY InvariantKept
  <1> QED
    BY <1>1, <1>2, PTL DEF Spec

(* After a frame marked as the last of an answer comes no other of that    *)
(* answer, however many continuations write at the same time, and wherever *)
(* a parser gives up (OnRspQryKline, OnRspQryOrder, ITGSpi::OnRsp...).     *)
THEOREM LastIsLast == Spec => []LastEnds
  <1>1. IInv => LastEnds
    BY DEF IInv
  <1> QED
    BY <1>1, InvariantHolds, PTL

(* A strategy is told of an order, without an error and with a Result that *)
(* is true, only if the exchange has taken it: refusals without an error   *)
(* have a Result that is false, and errors that come as something else are *)
(* addressed to nobody (OnRspInsertOrder, OnRspOrderInsert).               *)
THEOREM ToldAreTaken == Spec => []ToldIsTaken
  <1>1. IInv => ToldIsTaken
    <2> SUFFICES ASSUME IInv, NEW n \in Numbers, NEW i \in HandedFrames(n),
                        unit[i].kind = "insert", unit[i].says = "done"
                 PROVE  n \in orders
      BY DEF ToldIsTaken
    <2>1. i \in DOMAIN unit /\ unit[i].rid = n
      BY HandedIsWritten DEF IInv
    <2>2. Truthful(unit[i])
      BY <2>1 DEF IInv, WrittenOK
    <2>3. n # 0
      BY DEF Numbers
    <2> QED
      BY <2>1, <2>2, <2>3 DEF Truthful
  <1> QED
    BY <1>1, InvariantHolds, PTL

-----------------------------------------------------------------------------
(* TradeGateway: the inductive invariant.                                  *)

Statuses == {"Requested", "Logined", "Disconnected"}
Reports == {"Logined", "Disconnected"}
StatusFrame == [source : Venues, status : Reports]
RequestFrame == [source : Venues, session : Nat]
SysFrame == [msg : {"login", "end"}, name : Clients]
Runs(c) == strat[c].runs
Starts(c) == strat[c].starts

(* The types the argument needs. *)
SessionsTyped ==
  /\ strat \in [Clients -> [runs : BOOLEAN, starts : Nat]]
  /\ tdStatus \in [Clients -> [Venues -> Statuses]]
  /\ statuses \in [Clients -> Seq(StatusFrame)] /\ written \in [Clients -> Seq(RequestFrame)]
  /\ sys \in Seq(SysFrame)
  /\ engine = [pc |-> engine.pc, of |-> engine.of, left |-> engine.left, now |-> engine.now]
  /\ spi \in [Clients -> Nat] /\ inMap \in [Clients -> BOOLEAN] /\ readNext \in [Clients -> Nat]
  /\ thread = [c \in Clients |-> thread[c]]
  /\ api = [c \in Clients |-> [s \in Venues |-> api[c][s]]]
  /\ isLogged \in [Clients -> [Venues -> BOOLEAN]]

(* The engine loads or destroys the ITGSpi of a strategy; frames of it are *)
(* in the system unit. *)
Loading == {"load", "wait", "test"}
AtSpi == Loading \cup {"fail", "join", "hung"}
Joins(c) == engine.pc = "join" /\ engine.of = c
Busy(c) == engine.pc \in AtSpi /\ engine.of = c
InSys(c) == \E i \in DOMAIN sys : sys[i].name = c
OneLogin(c) ==
  \A i \in DOMAIN sys : sys[i].name = c =>
    sys[i].msg = "login" /\ \A j \in DOMAIN sys : sys[j].name = c => i = j

(* What there is of a connection is of an ITGSpi, which is in the map or   *)
(* under the engine's hands; it is connected once. *)
EngineOK ==
  /\ engine.pc \in AtSpi => engine.of \in Clients /\ ~inMap[engine.of]
  /\ engine.pc \in Loading =>
       engine.left \subseteq Venues /\ \A s \in engine.left : api[engine.of][s] = "none"
SpiOK(c) ==
  /\ ~inMap[c] /\ ~Busy(c) => spi[c] = 0 /\ \A s \in Venues : api[c][s] = "none"
  /\ inMap[c] \/ Busy(c) \/ thread[c] # "none" => spi[c] # 0
  /\ \A s \in Venues : api[c][s] = "reporting" => isLogged[c][s]

(* Sessions, and requests, are as old as the strategy; what an ITGSpi will *)
(* read was written in its session. *)
SessionsOK(c) ==
  /\ Runs(c) \/ InSys(c) => Starts(c) >= 1
  /\ spi[c] <= Starts(c)
  /\ \A i \in DOMAIN written[c] : written[c][i].session <= Starts(c)
ReadsOwn(c) ==
  spi[c] # 0 => /\ readNext[c] >= 1 /\ readNext[c] <= Len(written[c]) + 1
                /\ \A i \in DOMAIN written[c] : i >= readNext[c] =>
                     written[c][i].session = spi[c]

(* A running strategy has at most one frame in the system unit, its login, *)
(* and no ITGSpi of a former session is under the engine's hands. *)
FrameOK(c) ==
  /\ OneLogin(c)
  /\ InSys(c) => spi[c] # Starts(c) /\ ~Busy(c)
  /\ Busy(c) => ~Joins(c) /\ spi[c] = Starts(c)

(* It has seen, or will see, that it is logged in. *)
Seen(c, s) ==
  \/ tdStatus[c][s] = "Logined"
  \/ \E i \in DOMAIN statuses[c] : statuses[c][i].source = s /\
       statuses[c][i].status = "Logined"
  \/ \E i \in DOMAIN written[c] : written[c][i].source = s /\ written[c][i].session = Starts(c)

(* Who connects or is logged in is so for the present session, unless the  *)
(* ITGSpi is no more.                                                      *)
LoginOK(c) ==
  \A s \in Venues :
    /\ api[c][s] \in {"connecting", "connected", "reporting"} => spi[c] = Starts(c)
    /\ Seen(c, s) => /\ ~InSys(c) /\ spi[c] \in {0, Starts(c)}
                     /\ spi[c] # 0 => isLogged[c][s] /\ api[c][s] \in {"logged", "closed"}

(* Whoever has seen, or will see, a login of a connection that is closed,  *)
(* will see that it is.                                                    *)
Closes(c, s, j) == statuses[c][j].source = s /\ statuses[c][j].status = "Disconnected"
GoneOne(c, s) ==
  /\ tdStatus[c][s] = "Logined" => \E j \in DOMAIN statuses[c] : Closes(c, s, j)
  /\ \A i \in DOMAIN statuses[c] :
       statuses[c][i].source = s /\ statuses[c][i].status = "Logined" =>
         \E j \in DOMAIN statuses[c] : j > i /\ Closes(c, s, j)
GoneOK(c) == \A s \in Venues : spi[c] = 0 \/ api[c][s] = "closed" => GoneOne(c, s)

(* Only who has seen a login makes requests; none is passed over.          *)
KeptOK(c) ==
  \A i \in DOMAIN written[c] : written[c][i].session = Starts(c) =>
    /\ tdStatus[c][written[c][i].source] # "Requested"
    /\ G!Passed(c, i) \/ spi[c] = 0 \/ i >= readNext[c]

ClientOK(c) ==
  /\ SpiOK(c) /\ SessionsOK(c) /\ ReadsOwn(c)
  /\ Runs(c) => FrameOK(c) /\ LoginOK(c) /\ GoneOK(c) /\ KeptOK(c)

PassedOK ==
  \A p \in passed : /\ p.name \in Clients /\ p.no \in DOMAIN written[p.name]
                    /\ written[p.name][p.no].session = p.by

SessionsInv == SessionsTyped /\ EngineOK /\ PassedOK /\ \A c \in Clients : ClientOK(c)

(* Actions that move the engine only, that connect, and of connections.    *)
Moves ==
  G!Logged \/ G!StillLogged \/ G!Fail \/ G!Signal \/ \E s \in Venues : G!DestroyUnready(s)
Tries(s) == G!Connect(s) \/ G!Throw(s)
Connection(c, s) ==
  \/ G!Session(c, s) \/ G!Close(c, s) \/ G!Lose(c, s)
  \/ c = engine.of /\ G!DestroyApi(s)

-----------------------------------------------------------------------------
(* Lemmas.                                                                 *)

LEMMA NextCases ==
  ASSUME SessionsInv, G!Next
  PROVE  \/ G!Reject \/ G!Accept \/ G!Loaded \/ G!Ignore \/ G!RemoveClient \/ G!Destroy
         \/ Moves \/ \E s \in Venues : Tries(s)
         \/ \E c \in Clients :
              \/ G!Login(c) \/ G!End(c) \/ G!EndUnseen(c) \/ G!EndUnstarted(c)
              \/ G!ReadStatus(c) \/ G!Reader(c)
         \/ \E c \in Clients, s \in Venues : G!Request(c, s) \/ Connection(c, s)
<1>1. ASSUME NEW s \in Venues, G!DestroyApi(s) PROVE \E c \in Clients : Connection(c, s)
  <2>1. engine.of \in Clients
    BY <1>1 DEF G!DestroyApi, G!Destroys, G!Destroying, SessionsInv, EngineOK, AtSpi
  <2>. QED  BY <1>1, <2>1 DEF Connection
<1>. QED  BY <1>1 DEF G!Next, G!Listening, Moves, Tries, Connection

LEMMA MovesDo ==
  ASSUME SessionsInv, Moves
  PROVE  /\ UNCHANGED <<strat, tdStatus, statuses, written, sys, spi, inMap, readNext, thread,
              api, isLogged, passed>>
         /\ engine' = [pc |-> engine'.pc, of |-> engine'.of, left |-> engine'.left,
                       now |-> engine'.now]
         /\ engine'.pc \in AtSpi <=> engine.pc \in AtSpi
         /\ engine'.pc \in AtSpi =>
              engine'.of = engine.of /\ (engine'.pc = "join" => engine.pc = "join")
         /\ engine'.pc \in Loading => engine.pc \in Loading /\ engine'.left = engine.left
<1>. USE DEF AtSpi, Loading, SessionsInv, SessionsTyped
<1>1. UNCHANGED <<strat, tdStatus, statuses, written, sys, spi, inMap, readNext, thread, api,
        isLogged, passed>>
  BY DEF Moves, G!Logged, G!StillLogged, G!Fail, G!Signal, G!DestroyUnready, G!strategies,
     G!spis, G!apis
<1>2. CASE G!Logged \/ G!StillLogged \/ G!Fail
  BY <1>1, <1>2 DEF G!Logged, G!StillLogged, G!Fail
<1>3. CASE G!Signal
  BY <1>1, <1>3 DEF G!Signal, G!Reading
<1>4. ASSUME NEW s \in Venues, G!DestroyUnready(s)
      PROVE  /\ engine' = engine \/ engine' = [engine EXCEPT !.pc = "hung"]
             /\ engine.pc \in {"fail", "join"}
  BY <1>4 DEF G!DestroyUnready, G!Destroys, G!Destroying
<1>. QED  BY <1>1, <1>2, <1>3, <1>4 DEF Moves

LEMMA TriesDo ==
  ASSUME SessionsInv, NEW s \in Venues, Tries(s)
  PROVE  /\ UNCHANGED <<strat, tdStatus, statuses, written, sys, spi, inMap, readNext, thread,
              passed>>
         /\ engine' = [pc |-> engine'.pc, of |-> engine'.of, left |-> engine'.left,
                       now |-> engine'.now]
         /\ engine.pc = "load" /\ engine.of \in Clients /\ ~inMap[engine.of]
         /\ api[engine.of][s] = "none" /\ engine'.of = engine.of
         /\ engine'.pc \in {"wait", "fail"} /\ engine'.left \subseteq engine.left \ {s}
         /\ \E v \in {"connecting", "failed"} : api' = [api EXCEPT ![engine.of][s] = v]
         /\ isLogged' = isLogged \/
              \E b \in BOOLEAN : isLogged' = [isLogged EXCEPT ![engine.of][s] = b]
<1>. USE DEF AtSpi, Loading, SessionsInv, SessionsTyped
<1>1. engine.pc = "load" /\ s \in engine.left
  BY DEF Tries, G!Connect, G!Throw
<1>2. engine.of \in Clients /\ ~inMap[engine.of] /\ api[engine.of][s] = "none"
  BY <1>1 DEF EngineOK
<1>3. CASE G!Connect(s)
  BY <1>1, <1>2, <1>3 DEF G!Connect, G!strategies, G!spis
<1>4. CASE G!Throw(s)
  BY <1>1, <1>2, <1>4 DEF G!Throw, G!strategies, G!spis
<1>. QED  BY <1>3, <1>4 DEF Tries

LEMMA ConnectionDoes ==
  ASSUME NEW c \in Clients, NEW s \in Venues, Connection(c, s)
  PROVE  /\ UNCHANGED <<strat, tdStatus, written, sys, engine, spi, inMap, readNext, thread,
              passed>>
         /\ api[c][s] # "none" /\ \E v : api' = [api EXCEPT ![c][s] = v]
         /\ isLogged' = isLogged \/ \E b \in BOOLEAN : isLogged' = [isLogged EXCEPT ![c][s] = b]
         /\ UNCHANGED statuses \/ \E x \in Reports : G!Report(c, s, x)
<1>. USE DEF G!strategies, G!spis
<1>1. CASE G!Session(c, s)
  BY <1>1 DEF Reports, G!Session, G!OnWsConnected, G!ConnectFails, G!LoggedIn, G!Refuse,
     G!ReportLogin
<1>2. CASE G!Closed(c, s)
  <2>1. UNCHANGED <<strat, tdStatus, written, sys, engine, spi, inMap, readNext, thread, passed>>
    BY <1>2 DEF Connection, G!Session, G!OnWsConnected, G!ConnectFails, G!LoggedIn, G!Refuse,
       G!ReportLogin, G!Close, G!Lose, G!DestroyApi
  <2>. QED  BY <1>2, <2>1 DEF G!Closed, Reports
<1>. QED  BY <1>1, <1>2 DEF Connection, G!Close, G!Lose, G!DestroyApi

(* What a step has told of the end of a connection stays told... *)
LEMMA GoneAppend ==
  ASSUME SessionsTyped, NEW c \in Clients, NEW s \in Venues, NEW t \in Venues,
         NEW x \in Reports, tdStatus'[c] = tdStatus[c],
         statuses'[c] = Append(statuses[c], [source |-> s, status |-> x]),
         (t # s /\ GoneOne(c, t)) \/ (t = s /\ x = "Disconnected")
  PROVE  GoneOne(c, t)'
<1>0. PICK n \in Nat : n = Len(statuses[c])
  <2>1. statuses[c] \in Seq(StatusFrame)
    BY DEF SessionsTyped
  <2>. QED  BY <2>1
<1>1. /\ DOMAIN statuses[c] = 1 .. n /\ DOMAIN statuses'[c] = 1 .. n + 1
      /\ \A i \in 1 .. n : statuses'[c][i] = statuses[c][i]
      /\ statuses'[c][n + 1].source = s /\ statuses'[c][n + 1].status = x
  BY <1>0 DEF SessionsTyped
<1>2. CASE t # s /\ GoneOne(c, t)
  <2>1. \A i \in 1 .. n : Closes(c, t, i) => Closes(c, t, i)'
    BY <1>1 DEF Closes
  <2>2. tdStatus[c][t] = "Logined" => \E j \in DOMAIN statuses'[c] : Closes(c, t, j)'
    BY <1>1, <1>2, <2>1 DEF GoneOne
  <2>3. ASSUME NEW i \in DOMAIN statuses'[c],
               statuses'[c][i].source = t, statuses'[c][i].status = "Logined"
        PROVE  \E j \in DOMAIN statuses'[c] : j > i /\ Closes(c, t, j)'
    <3>1. i \in 1 .. n /\ statuses'[c][i] = statuses[c][i]
      BY <1>1, <1>2, <2>3
    <3>2. PICK j \in 1 .. n : j > i /\ Closes(c, t, j)
      BY <1>1, <1>2, <2>3, <3>1 DEF GoneOne
    <3>. QED  BY <1>1, <2>1, <3>2
  <2>. QED  BY <2>2, <2>3 DEF GoneOne
<1>3. CASE t = s /\ x = "Disconnected"
  <2>1. n + 1 \in DOMAIN statuses'[c] /\ Closes(c, t, n + 1)'
    BY <1>1, <1>3 DEF Closes
  <2>2. ASSUME NEW i \in DOMAIN statuses'[c], statuses'[c][i].status = "Logined"
        PROVE  n + 1 > i
    BY <1>1, <1>3, <2>2
  <2>. QED  BY <2>1, <2>2 DEF GoneOne
<1>. QED  BY <1>2, <1>3

(* ... and is read in its order. *)
LEMMA GoneTail ==
  ASSUME SessionsTyped, NEW c \in Clients, NEW t \in Venues, statuses[c] # <<>>,
         statuses'[c] = Tail(statuses[c]),
         tdStatus'[c] = [tdStatus[c] EXCEPT ![Head(statuses[c]).source] = Head(statuses[c]).status],
         GoneOne(c, t)
  PROVE  GoneOne(c, t)'
<1>0. PICK n \in Nat : n = Len(statuses[c])
  <2>1. statuses[c] \in Seq(StatusFrame)
    BY DEF SessionsTyped
  <2>. QED  BY <2>1
<1>1. /\ n >= 1 /\ DOMAIN statuses[c] = 1 .. n /\ DOMAIN statuses'[c] = 1 .. n - 1
      /\ \A i \in 1 .. n - 1 : statuses'[c][i] = statuses[c][i + 1]
      /\ Head(statuses[c]) = statuses[c][1] /\ tdStatus[c] \in [Venues -> Statuses]
  BY <1>0 DEF SessionsTyped
<1>2. ASSUME NEW j \in 1 .. n, j > 1, Closes(c, t, j)
      PROVE  j - 1 \in DOMAIN statuses'[c] /\ Closes(c, t, j - 1)'
  BY <1>1, <1>2 DEF Closes
<1>3. ASSUME tdStatus'[c][t] = "Logined" PROVE \E j \in DOMAIN statuses'[c] : Closes(c, t, j)'
  <2>1. CASE Head(statuses[c]).source = t
    <3>1. statuses[c][1].source = t /\ statuses[c][1].status = "Logined"
      BY <1>1, <1>3, <2>1
    <3>2. PICK j \in 1 .. n : j > 1 /\ Closes(c, t, j)
      BY <1>1, <3>1 DEF GoneOne
    <3>. QED  BY <1>2, <3>2
  <2>2. CASE Head(statuses[c]).source # t
    <3>1. tdStatus[c][t] = "Logined"
      BY <1>1, <1>3, <2>2
    <3>2. PICK j \in 1 .. n : Closes(c, t, j)
      BY <1>1, <3>1 DEF GoneOne
    <3>3. j > 1
      BY <1>1, <2>2, <3>2 DEF Closes
    <3>. QED  BY <1>2, <3>2, <3>3
  <2>. QED  BY <2>1, <2>2
<1>4. ASSUME NEW i \in DOMAIN statuses'[c],
             statuses'[c][i].source = t, statuses'[c][i].status = "Logined"
      PROVE  \E j \in DOMAIN statuses'[c] : j > i /\ Closes(c, t, j)'
  <2>1. /\ i \in 1 .. n - 1 /\ i + 1 \in 1 .. n
        /\ statuses[c][i + 1].source = t /\ statuses[c][i + 1].status = "Logined"
    BY <1>1, <1>4
  <2>2. PICK j \in 1 .. n : j > i + 1 /\ Closes(c, t, j)
    BY <1>1, <2>1 DEF GoneOne
  <2>3. j > 1 /\ j - 1 > i
    BY <2>1, <2>2
  <2>. QED  BY <1>2, <2>2, <2>3
<1>. QED  BY <1>3, <1>4 DEF GoneOne

LEMMA Put2 ==
  ASSUME NEW C, NEW S, NEW f, NEW c \in C, NEW s \in S, NEW v, NEW g,
         f = [d \in C |-> [t \in S |-> f[d][t]]], g = [f EXCEPT ![c][s] = v]
  PROVE  /\ g = [d \in C |-> [t \in S |-> g[d][t]]]
         /\ \A d \in C : d # c => g[d] = f[d]
         /\ \A t \in S : t # s => g[c][t] = f[c][t]
         /\ g[c][s] = v
<1>1. g = [d \in C |-> IF d = c THEN [f[c] EXCEPT ![s] = v] ELSE f[d]]
  OBVIOUS
<1>2. f[c] = [t \in S |-> f[c][t]] /\ \A d \in C : f[d] = [t \in S |-> f[d][t]]
  OBVIOUS
<1>3. g[c] = [t \in S |-> IF t = s THEN v ELSE f[c][t]]
  BY <1>1, <1>2
<1>4. \A d \in C : d # c => g[d] = f[d]
  BY <1>1
<1>5. \A d \in C : g[d] = [t \in S |-> g[d][t]]
  BY <1>2, <1>3, <1>4
<1>. QED  BY <1>1, <1>3, <1>4, <1>5

(* The system unit grows... *)
LEMMA SysAppend ==
  ASSUME SessionsTyped, NEW f \in SysFrame, sys' = Append(sys, f)
  PROVE  /\ sys' \in Seq(SysFrame)
         /\ \A d : d # f.name => (InSys(d)' => InSys(d)) /\ (OneLogin(d) => OneLogin(d)')
         /\ ~InSys(f.name) /\ f.msg = "login" =>
              \A i \in DOMAIN sys' : sys'[i].name = f.name =>
                sys'[i].msg = "login" /\ \A j \in DOMAIN sys' : sys'[j].name = f.name => i = j
<1>1. sys \in Seq(SysFrame)
  BY DEF SessionsTyped
<1>2. /\ sys' \in Seq(SysFrame) /\ Len(sys') = Len(sys) + 1 /\ Len(sys) \in Nat
      /\ DOMAIN sys = 1 .. Len(sys) /\ DOMAIN sys' = 1 .. Len(sys')
      /\ sys'[Len(sys) + 1] = f /\ \A i \in 1 .. Len(sys) : sys'[i] = sys[i]
  BY <1>1
<1>3. \A i \in DOMAIN sys' : \/ i \in DOMAIN sys /\ sys'[i] = sys[i]
                             \/ i = Len(sys) + 1 /\ sys'[i] = f
  BY <1>2
<1>4. ASSUME NEW d, d # f.name PROVE (InSys(d)' => InSys(d)) /\ (OneLogin(d) => OneLogin(d)')
  BY <1>3, <1>4 DEF InSys, OneLogin
<1>5. ~InSys(f.name) => \A i \in DOMAIN sys' : sys'[i].name = f.name =>
                          i = Len(sys) + 1 /\ sys'[i] = f
  BY <1>3 DEF InSys
<1>. QED  BY <1>2, <1>4, <1>5

(* ...and its first frame is read. *)
LEMMA SysTail ==
  ASSUME SessionsTyped, sys # <<>>, sys' = Tail(sys)
  PROVE  /\ sys' \in Seq(SysFrame) /\ G!First \in SysFrame /\ G!First.name \in Clients
         /\ InSys(G!First.name)
         /\ \A d : (InSys(d)' => InSys(d)) /\ (OneLogin(d) => OneLogin(d)')
         /\ OneLogin(G!First.name) =>
              G!First.msg = "login" /\ \A i \in DOMAIN sys' : sys'[i].name # G!First.name
<1>1. sys \in Seq(SysFrame)
  BY DEF SessionsTyped
<1>2. /\ sys' \in Seq(SysFrame) /\ Len(sys') = Len(sys) - 1 /\ Len(sys) \in Nat /\ Len(sys) >= 1
      /\ DOMAIN sys = 1 .. Len(sys) /\ DOMAIN sys' = 1 .. Len(sys')
      /\ G!First = sys[1] /\ \A i \in 1 .. Len(sys) - 1 : sys'[i] = sys[i + 1]
  BY <1>1 DEF G!First
<1>3. \A i \in DOMAIN sys' : i + 1 \in DOMAIN sys /\ sys'[i] = sys[i + 1] /\ i + 1 # 1
  BY <1>2
<1>4. 1 \in DOMAIN sys /\ G!First \in SysFrame /\ G!First.name \in Clients
  <2>1. 1 \in DOMAIN sys /\ sys[1] \in SysFrame
    BY <1>1, <1>2
  <2>2. \A f \in SysFrame : f.name \in Clients
    BY DEF SysFrame
  <2>. QED  BY <1>2, <2>1, <2>2
<1>5. InSys(G!First.name)
  BY <1>2, <1>4 DEF InSys
<1>6. ASSUME NEW d PROVE InSys(d)' => InSys(d)
  BY <1>3 DEF InSys
<1>7. ASSUME NEW d, OneLogin(d) PROVE OneLogin(d)'
  <2>1. ASSUME NEW i \in DOMAIN sys', sys'[i].name = d
        PROVE  sys'[i].msg = "login" /\ \A j \in DOMAIN sys' : sys'[j].name = d => i = j
    <3>1. sys[i + 1].msg = "login" /\ \A j \in DOMAIN sys : sys[j].name = d => i + 1 = j
      BY <1>3, <1>7, <2>1 DEF OneLogin
    <3>2. ASSUME NEW j \in DOMAIN sys', sys'[j].name = d PROVE i = j
      <4>1. i + 1 = j + 1
        BY <1>3, <3>1, <3>2
      <4>. QED  BY <1>2, <4>1
    <3>. QED  BY <1>3, <3>1, <3>2
  <2>. QED  BY <2>1 DEF OneLogin
<1>8. OneLogin(G!First.name) =>
        G!First.msg = "login" /\ \A i \in DOMAIN sys' : sys'[i].name # G!First.name
  BY <1>2, <1>3, <1>4 DEF OneLogin
<1>. QED  BY <1>2, <1>4, <1>5, <1>6, <1>7, <1>8

(* Of a strategy that a step does not touch. *)
LEMMA SameClient ==
  ASSUME NEW d \in Clients, ClientOK(d),
         strat'[d] = strat[d], tdStatus'[d] = tdStatus[d], statuses'[d] = statuses[d],
         written'[d] = written[d], spi'[d] = spi[d], inMap'[d] = inMap[d],
         readNext'[d] = readNext[d], thread'[d] = thread[d] \/ spi[d] # 0,
         api'[d] = api[d], isLogged'[d] = isLogged[d],
         passed \subseteq passed', Busy(d)' <=> Busy(d), Joins(d)' => Joins(d),
         InSys(d)' => InSys(d), OneLogin(d) => OneLogin(d)'
  PROVE  ClientOK(d)'
<1>1. (Runs(d)' <=> Runs(d)) /\ Starts(d)' = Starts(d)
  BY DEF Runs, Starts
<1>2. SpiOK(d)' /\ SessionsOK(d)' /\ ReadsOwn(d)'
  BY <1>1 DEF ClientOK, SpiOK, SessionsOK, ReadsOwn
<1>3. ASSUME Runs(d) PROVE FrameOK(d)' /\ LoginOK(d)' /\ GoneOK(d)' /\ KeptOK(d)'
  <2>1. FrameOK(d) /\ LoginOK(d) /\ GoneOK(d) /\ KeptOK(d)
    BY <1>3 DEF ClientOK
  <2>2. \A s \in Venues : Seen(d, s)' <=> Seen(d, s)
    BY <1>1 DEF Seen
  <2>3. FrameOK(d)'
    BY <1>1, <2>1 DEF FrameOK
  <2>4. LoginOK(d)'
    BY <1>1, <2>1, <2>2 DEF LoginOK
  <2>5. \A i : G!Passed(d, i) => G!Passed(d, i)'
    BY DEF G!Passed
  <2>6. GoneOK(d)'
    BY <2>1 DEF GoneOK, GoneOne, Closes
  <2>. QED  BY <1>1, <2>1, <2>3, <2>4, <2>5, <2>6 DEF KeptOK
<1>. QED  BY <1>1, <1>2, <1>3 DEF ClientOK

(* Of one that does not run after the step. *)
LEMMA StoppedClient ==
  ASSUME NEW d \in Clients, ClientOK(d), SessionsTyped, Starts(d)' \in Nat,
    Starts(d) <= Starts(d)', ~Runs(d)',
         InSys(d)' => Starts(d)' >= 1,
         UNCHANGED <<written, spi, inMap, readNext, thread, api, isLogged, engine>>
  PROVE  ClientOK(d)'
<1>1. Busy(d)' <=> Busy(d)
  BY DEF Busy
<1>2. SpiOK(d)' /\ ReadsOwn(d)'
  BY <1>1 DEF ClientOK, SpiOK, ReadsOwn
<1>3. /\ Starts(d) \in Nat /\ spi[d] \in Nat
      /\ \A i \in DOMAIN written[d] : written[d][i].session \in Nat
  <2>1. Starts(d) \in Nat /\ spi[d] \in Nat /\ written[d] \in Seq(RequestFrame)
    BY DEF SessionsTyped, Starts
  <2>2. \A i \in DOMAIN written[d] : written[d][i] \in RequestFrame
    BY <2>1
  <2>3. \A f \in RequestFrame : f.session \in Nat
    BY DEF RequestFrame
  <2>. QED  BY <2>1, <2>2, <2>3
<1>4. SessionsOK(d)'
  BY <1>3 DEF ClientOK, SessionsOK
<1>. QED  BY <1>2, <1>4 DEF ClientOK

(* A report goes to the strategy if it runs. *)
LEMMA Reported ==
  ASSUME SessionsTyped, NEW c \in Clients, NEW s \in Venues, NEW x \in Reports,
    G!Report(c, s, x)
  PROVE  /\ statuses' \in [Clients -> Seq(StatusFrame)]
         /\ \A d \in Clients : d # c => statuses'[d] = statuses[d]
         /\ Runs(c) => statuses'[c] = Append(statuses[c], [source |-> s, status |-> x])
<1>1. [source |-> s, status |-> x] \in StatusFrame
  BY DEF StatusFrame
<1>2. Append(statuses[c], [source |-> s, status |-> x]) \in Seq(StatusFrame)
  BY <1>1 DEF SessionsTyped
<1>. QED  BY <1>2 DEF SessionsTyped, G!Report, Runs

(* The types of the strategies' parts... *)
LEMMA StrategiesTyped ==
  ASSUME SessionsInv, [G!Next]_G!vars
  PROVE  /\ strat' \in [Clients -> [runs : BOOLEAN, starts : Nat]]
         /\ tdStatus' \in [Clients -> [Venues -> Statuses]]
         /\ written' \in [Clients -> Seq(RequestFrame)]
<1>. USE DEF SessionsInv, SessionsTyped
<1>1. CASE UNCHANGED G!strategies
  BY <1>1 DEF G!strategies
<1>2. ASSUME NEW c \in Clients, G!Login(c)
      PROVE  /\ strat' \in [Clients -> [runs : BOOLEAN, starts : Nat]]
             /\ tdStatus' \in [Clients -> [Venues -> Statuses]]
             /\ written' \in [Clients -> Seq(RequestFrame)]
  <2>1. strat[c] \in [runs : BOOLEAN, starts : Nat]
    OBVIOUS
  <2>2. strat' \in [Clients -> [runs : BOOLEAN, starts : Nat]]
    BY <1>2, <2>1 DEF G!Login
  <2>3. [s \in Venues |-> "Requested"] \in [Venues -> Statuses]
    BY DEF Statuses
  <2>. QED  BY <1>2, <2>2, <2>3 DEF G!Login
<1>3. ASSUME NEW c \in Clients, G!End(c) \/ G!EndUnseen(c)
      PROVE  /\ strat' \in [Clients -> [runs : BOOLEAN, starts : Nat]]
             /\ tdStatus' = tdStatus /\ written' = written
  BY <1>3 DEF G!End, G!EndUnseen
<1>4. ASSUME NEW c \in Clients, G!EndUnstarted(c)
      PROVE  /\ strat' \in [Clients -> [runs : BOOLEAN, starts : Nat]]
             /\ tdStatus' = tdStatus /\ written' = written
  <2>1. strat[c] \in [runs : BOOLEAN, starts : Nat]
    OBVIOUS
  <2>2. [strat[c] EXCEPT !.starts = strat[c].starts + 1] \in [runs : BOOLEAN, starts : Nat]
    <3>1. strat[c] = [runs |-> strat[c].runs, starts |-> strat[c].starts]
      BY <2>1
    <3>2. strat[c].runs \in BOOLEAN /\ strat[c].starts + 1 \in Nat
      BY <2>1
    <3>. QED  BY <3>1, <3>2
  <2>3. strat' = [strat EXCEPT ![c] = [strat[c] EXCEPT !.starts = strat[c].starts + 1]]
    BY <1>4 DEF G!EndUnstarted
  <2>4. strat' \in [Clients -> [runs : BOOLEAN, starts : Nat]]
    BY <2>2, <2>3
  <2>. QED  BY <1>4, <2>4 DEF G!EndUnstarted
<1>5. ASSUME NEW c \in Clients, G!ReadStatus(c)
      PROVE  /\ strat' = strat /\ written' = written
             /\ tdStatus' \in [Clients -> [Venues -> Statuses]]
  <2>1. Head(statuses[c]) \in StatusFrame
    BY <1>5 DEF G!ReadStatus
  <2>2. Head(statuses[c]).status \in Statuses /\ Head(statuses[c]).source \in Venues
    BY <2>1 DEF StatusFrame, Statuses, Reports
  <2>3. tdStatus[c] \in [Venues -> Statuses]
    OBVIOUS
  <2>4. [tdStatus[c] EXCEPT ![Head(statuses[c]).source] = Head(statuses[c]).status] \in
          [Venues -> Statuses]
    BY <2>2, <2>3
  <2>. QED  BY <1>5, <2>4 DEF G!ReadStatus
<1>6. ASSUME NEW c \in Clients, NEW s \in Venues, G!Request(c, s)
      PROVE  /\ strat' = strat /\ tdStatus' = tdStatus
             /\ written' \in [Clients -> Seq(RequestFrame)]
  <2>1. strat[c].starts \in Nat
    OBVIOUS
  <2>2. [source |-> s, session |-> strat[c].starts] \in RequestFrame
    BY <2>1 DEF RequestFrame
  <2>3. Append(written[c], [source |-> s, session |-> strat[c].starts]) \in Seq(RequestFrame)
    BY <2>2
  <2>. QED  BY <1>6, <2>3 DEF G!Request
<1>7. CASE G!Reject \/ G!Accept \/ G!Loaded \/ G!Ignore \/ G!RemoveClient \/ G!Destroy
  BY <1>1, <1>7 DEF G!Reject, G!Accept, G!Loaded, G!Ignore, G!RemoveClient, G!Destroy
<1>8. CASE Moves \/ \E s \in Venues : Tries(s)
  BY <1>1, <1>8, MovesDo, TriesDo DEF G!strategies
<1>9. ASSUME NEW c \in Clients, G!Reader(c) PROVE UNCHANGED G!strategies
  BY <1>9 DEF G!Reader, G!ThreadStart, G!PassOn, G!ThreadEnd
<1>10. ASSUME NEW c \in Clients, NEW s \in Venues, Connection(c, s)
       PROVE  UNCHANGED G!strategies
  BY <1>10, ConnectionDoes DEF G!strategies
<1>11. CASE UNCHANGED G!vars
  BY <1>1, <1>11 DEF G!vars
<1>. QED
  BY <1>1, <1>2, <1>3, <1>4, <1>5, <1>6, <1>7, <1>8, <1>9, <1>10, <1>11, NextCases

(* ...and of the gateway's. *)
LEMMA GatewayTyped ==
  ASSUME SessionsInv, [G!Next]_G!vars
  PROVE  /\ spi' \in [Clients -> Nat] /\ inMap' \in [Clients -> BOOLEAN]
         /\ readNext' \in [Clients -> Nat] /\ thread' = [d \in Clients |-> thread'[d]]
         /\ engine' = [pc |-> engine'.pc, of |-> engine'.of, left |-> engine'.left,
                       now |-> engine'.now]
<1> DEFINE P == /\ spi' \in [Clients -> Nat] /\ inMap' \in [Clients -> BOOLEAN]
                /\ readNext' \in [Clients -> Nat] /\ thread' = [d \in Clients |-> thread'[d]]
                /\ engine' = [pc |-> engine'.pc, of |-> engine'.of, left |-> engine'.left,
                              now |-> engine'.now]
<1>1. UNCHANGED <<spi, inMap, readNext, thread, engine>> => P
  BY DEF SessionsInv, SessionsTyped
<1>2. CASE G!Accept
  <2>1. G!First.name \in Clients
    BY <1>2, SysTail DEF SessionsInv, G!Accept, G!Reads
  <2>2. strat[G!First.name].starts \in Nat /\ G!ReadFrom(G!First.name) \in Nat
    BY <2>1 DEF SessionsInv, SessionsTyped, G!ReadFrom
  <2>. QED  BY <1>2, <2>2 DEF SessionsInv, SessionsTyped, G!Accept, G!Reading
<1>3. ASSUME NEW s \in Venues, Tries(s) PROVE P
  BY <1>3, TriesDo DEF SessionsInv, SessionsTyped
<1>4. CASE Moves
  BY <1>4, MovesDo DEF SessionsInv, SessionsTyped
<1>5. CASE G!Loaded
  BY <1>5 DEF SessionsInv, SessionsTyped, G!Loaded, G!Reading
<1>6. CASE G!RemoveClient
  BY <1>6 DEF SessionsInv, SessionsTyped, G!RemoveClient, G!Reading
<1>7. CASE G!Destroy
  BY <1>7 DEF SessionsInv, SessionsTyped, G!Destroy, G!Reading
<1>9. ASSUME NEW c \in Clients, G!Reader(c) PROVE P
  <2>1. CASE G!PassOn(c)
    <3>1. readNext[c] + 1 \in Nat
      BY DEF SessionsInv, SessionsTyped
    <3>. QED  BY <2>1, <3>1 DEF SessionsInv, SessionsTyped, G!PassOn
  <2>2. CASE G!ThreadStart(c) \/ G!ThreadEnd(c)
    BY <2>2 DEF SessionsInv, SessionsTyped, G!ThreadStart, G!ThreadEnd
  <2>. QED  BY <1>9, <2>1, <2>2 DEF G!Reader
<1>10. ASSUME NEW c \in Clients,
              G!Login(c) \/ G!End(c) \/ G!EndUnseen(c) \/ G!EndUnstarted(c) \/ G!ReadStatus(c)
       PROVE  P
  BY <1>1, <1>10 DEF G!Login, G!End, G!EndUnseen, G!EndUnstarted, G!ReadStatus, G!spis
<1>11. ASSUME NEW c \in Clients, NEW s \in Venues, G!Request(c, s) \/ Connection(c, s)
       PROVE  P
  BY <1>1, <1>11, ConnectionDoes DEF G!Request, G!spis
<1>12. CASE G!Reject \/ G!Ignore
  BY <1>1, <1>12 DEF G!Reject, G!Ignore, G!spis
<1>13. CASE UNCHANGED G!vars
  BY <1>1, <1>13 DEF G!vars, G!spis
<1>14. G!Next => P
  BY <1>2, <1>3, <1>4, <1>5, <1>6, <1>7, <1>9, <1>10, <1>11, <1>12, NextCases
<1>. QED  BY <1>13, <1>14

(* Of the connections. *)
LEMMA ApisTyped ==
  ASSUME SessionsInv, [G!Next]_G!vars
  PROVE  /\ api' = [d \in Clients |-> [s \in Venues |-> api'[d][s]]]
         /\ isLogged' \in [Clients -> [Venues -> BOOLEAN]]
<1> DEFINE P == /\ api' = [d \in Clients |-> [s \in Venues |-> api'[d][s]]]
                /\ isLogged' \in [Clients -> [Venues -> BOOLEAN]]
<1>0. /\ api = [d \in Clients |-> [s \in Venues |-> api[d][s]]]
      /\ isLogged \in [Clients -> [Venues -> BOOLEAN]]
  BY DEF SessionsInv, SessionsTyped
<1>1. UNCHANGED G!apis => P
  BY <1>0 DEF G!apis
<1>2. ASSUME NEW c \in Clients, NEW s \in Venues, \E v : api' = [api EXCEPT ![c][s] = v],
             isLogged' = isLogged \/
               \E b \in BOOLEAN : isLogged' = [isLogged EXCEPT ![c][s] = b]
      PROVE  P
  <2>. PICK v : api' = [api EXCEPT ![c][s] = v]
    BY <1>2
  <2>1. api' = [d \in Clients |-> [t \in Venues |-> api'[d][t]]]
    <3>1. api = [d \in Clients |-> [t \in Venues |-> api[d][t]]]
      BY <1>0
    <3>2. api' = [api EXCEPT ![c][s] = v]
      OBVIOUS
    <3>3. api'[c] = [t \in Venues |-> IF t = s THEN v ELSE api[c][t]]
      BY <3>1, <3>2
    <3>4. \A d \in Clients \ {c} : api'[d] = [t \in Venues |-> api[d][t]]
      BY <3>1, <3>2
    <3>5. DOMAIN api' = Clients /\ api' = [d \in Clients |-> api'[d]]
      BY <3>1, <3>2
    <3>6. \A d \in Clients : api'[d] = [t \in Venues |-> api'[d][t]]
      BY <3>3, <3>4
    <3>. QED  BY <3>5, <3>6
  <2>2. \A b \in BOOLEAN : [isLogged[c] EXCEPT ![s] = b] \in [Venues -> BOOLEAN]
    BY <1>0
  <2>3. isLogged' \in [Clients -> [Venues -> BOOLEAN]]
    BY <1>0, <1>2, <2>2
  <2>. QED  BY <2>1, <2>3
<1>3. ASSUME NEW s \in Venues, Tries(s) PROVE P
  <2>1. engine.of \in Clients
    BY <1>3, TriesDo
  <2>2. /\ \E v : api' = [api EXCEPT ![engine.of][s] = v]
        /\ isLogged' = isLogged \/
             \E b \in BOOLEAN : isLogged' = [isLogged EXCEPT ![engine.of][s] = b]
    BY <1>3, TriesDo
  <2>. QED  BY <1>2, <2>1, <2>2
<1>4. CASE G!Destroy
  <2>1. api' = [api EXCEPT ![engine.of] = [s \in Venues |-> "none"]]
    BY <1>4 DEF G!Destroy
  <2>2. isLogged' = [isLogged EXCEPT ![engine.of] = [s \in Venues |-> FALSE]]
    BY <1>4 DEF G!Destroy
  <2>3. isLogged' \in [Clients -> [Venues -> BOOLEAN]]
    BY <1>0, <2>2
  <2>4. api' = [d \in Clients |-> [s \in Venues |-> api'[d][s]]]
    BY <1>0, <2>1
  <2>. QED  BY <2>3, <2>4
<1>5. ASSUME NEW c \in Clients, NEW s \in Venues, Connection(c, s) PROVE P
  BY <1>2, <1>5, ConnectionDoes
<1>6. CASE G!Reject \/ G!Accept \/ G!Loaded \/ G!Ignore \/ G!RemoveClient \/ Moves
  BY <1>1, <1>6, MovesDo DEF G!Reject, G!Accept, G!Loaded, G!Ignore, G!RemoveClient, G!apis
<1>7. ASSUME NEW c \in Clients,
             \/ G!Login(c) \/ G!End(c) \/ G!EndUnseen(c) \/ G!EndUnstarted(c) \/ G!ReadStatus(c)
             \/ G!ThreadStart(c) \/ G!PassOn(c) \/ G!ThreadEnd(c)
      PROVE  P
  BY <1>1, <1>7 DEF G!Login, G!End, G!EndUnseen, G!EndUnstarted, G!ReadStatus, G!ThreadStart,
     G!PassOn, G!ThreadEnd
<1>8. ASSUME NEW c \in Clients, NEW s \in Venues, G!Request(c, s) PROVE P
  BY <1>1, <1>8 DEF G!Request
<1>9. CASE UNCHANGED G!vars
  BY <1>1, <1>9 DEF G!vars
<1>10. G!Next => P
  BY <1>3, <1>4, <1>5, <1>6, <1>7, <1>8, NextCases DEF G!Reader
<1>. QED  BY <1>9, <1>10

(* Of the units. *)
LEMMA UnitsTyped ==
  ASSUME SessionsInv, [G!Next]_G!vars
  PROVE  sys' \in Seq(SysFrame) /\ statuses' \in [Clients -> Seq(StatusFrame)]
<1> DEFINE P == sys' \in Seq(SysFrame)
           Q == statuses' \in [Clients -> Seq(StatusFrame)]
<1>0. SessionsTyped
  BY DEF SessionsInv
<1>1. (UNCHANGED sys => P) /\ (UNCHANGED statuses => Q)
  BY <1>0 DEF SessionsTyped
<1>2. ASSUME NEW c \in Clients, statuses' = [statuses EXCEPT ![c] = <<>>] PROVE Q
  BY <1>0, <1>2 DEF SessionsTyped
<1>3. ASSUME NEW c \in Clients, G!Login(c) PROVE P /\ Q
  <2>1. [msg |-> "login", name |-> c] \in SysFrame
    BY DEF SysFrame
  <2>. QED  BY <1>0, <1>2, <1>3, <2>1, SysAppend DEF G!Login
<1>4. ASSUME NEW c \in Clients, G!End(c) \/ G!EndUnstarted(c) PROVE P /\ Q
  <2>1. [msg |-> "end", name |-> c] \in SysFrame
    BY DEF SysFrame
  <2>. QED  BY <1>0, <1>1, <1>4, <2>1, SysAppend DEF G!End, G!EndUnstarted
<1>5. CASE G!Reject \/ G!Accept \/ G!Ignore \/ G!RemoveClient
  <2>1. sys # <<>> /\ sys' = Tail(sys) /\ UNCHANGED statuses
    BY <1>5 DEF G!Reject, G!Accept, G!Ignore, G!RemoveClient, G!Reads
  <2>. QED  BY <1>0, <1>1, <2>1, SysTail
<1>6. CASE G!Destroy \/ G!Loaded
  BY <1>1, <1>6 DEF G!Destroy, G!Loaded
<1>7. ASSUME NEW c \in Clients, G!ReadStatus(c) PROVE P /\ Q
  <2>1. Tail(statuses[c]) \in Seq(StatusFrame)
    BY <1>0, <1>7 DEF SessionsTyped, G!ReadStatus
  <2>. QED  BY <1>0, <1>1, <1>7, <2>1 DEF SessionsTyped, G!ReadStatus
<1>8. ASSUME NEW c \in Clients, NEW s \in Venues, Connection(c, s) PROVE P /\ Q
  BY <1>0, <1>1, <1>8, ConnectionDoes, Reported
<1>9. ASSUME NEW c \in Clients, NEW s \in Venues, G!Request(c, s) PROVE P /\ Q
  BY <1>1, <1>9 DEF G!Request
<1>10. ASSUME NEW c \in Clients, G!EndUnseen(c) \/ G!Reader(c) PROVE P /\ Q
  BY <1>1, <1>10 DEF G!EndUnseen, G!Reader, G!ThreadStart, G!PassOn, G!ThreadEnd
<1>11. CASE Moves \/ \E s \in Venues : Tries(s)
  BY <1>1, <1>11, MovesDo, TriesDo
<1>12. CASE UNCHANGED G!vars
  BY <1>1, <1>12 DEF G!vars
<1>13. G!Next => P /\ Q
  BY <1>3, <1>4, <1>5, <1>6, <1>7, <1>8, <1>9, <1>10, <1>11, NextCases
<1>. QED  BY <1>12, <1>13

LEMMA TypedStep ==
  ASSUME SessionsInv, [G!Next]_G!vars
  PROVE  SessionsTyped'
BY StrategiesTyped, GatewayTyped, ApisTyped, UnitsTyped DEF SessionsTyped

(* What has been passed on stays so. *)
LEMMA PassedStep ==
  ASSUME SessionsInv, [G!Next]_G!vars
  PROVE  PassedOK'
<1>0. PassedOK /\ written \in [Clients -> Seq(RequestFrame)]
  BY DEF SessionsInv, SessionsTyped
<1>1. UNCHANGED <<passed, written>> => PassedOK'
  BY <1>0 DEF PassedOK
<1>2. ASSUME NEW c \in Clients, NEW s \in Venues, G!Request(c, s) PROVE PassedOK'
  <2>1. PICK r : written' = [written EXCEPT ![c] = Append(written[c], r)]
    BY <1>2 DEF G!Request
  <2>2. \A d \in Clients : \A i \in DOMAIN written[d] :
          i \in DOMAIN written'[d] /\ written'[d][i] = written[d][i]
    <3>1. ASSUME NEW d \in Clients, d # c
          PROVE  \A i \in DOMAIN written[d] : i \in DOMAIN written'[d] /\
            written'[d][i] = written[d][i]
      BY <1>0, <2>1, <3>1
    <3>2. written[c] \in Seq(RequestFrame) /\ written'[c] = Append(written[c], r)
      BY <1>0, <2>1
    <3>3. \A i \in DOMAIN written[c] : i \in DOMAIN written'[c] /\
            written'[c][i] = written[c][i]
      BY <3>2
    <3>. QED  BY <3>1, <3>3
  <2>. QED  BY <1>0, <1>2, <2>2 DEF PassedOK, G!Request
<1>3. ASSUME NEW c \in Clients, G!PassOn(c) PROVE PassedOK'
  <2>1. SpiOK(c) /\ ReadsOwn(c) /\ thread[c] = "loop"
    BY <1>3 DEF SessionsInv, ClientOK, G!PassOn
  <2>2. readNext[c] \in Nat /\ readNext[c] >= 1 /\ readNext[c] <= Len(written[c])
    BY <1>3, <2>1 DEF SessionsInv, SessionsTyped, SpiOK, ReadsOwn, G!PassOn
  <2>3. readNext[c] \in DOMAIN written[c] /\ written[c][readNext[c]].session = spi[c]
    <3>1. readNext[c] \in DOMAIN written[c]
      BY <1>0, <2>2
    <3>2. spi[c] # 0
      BY <2>1 DEF SpiOK
    <3>. QED  BY <2>1, <2>2, <3>1, <3>2 DEF ReadsOwn
  <2>4. \A p \in passed' : p \in passed \/ p = [name |-> c, no |-> readNext[c], by |-> spi[c]]
    BY <1>3 DEF G!PassOn
  <2>5. written' = written
    BY <1>3 DEF G!PassOn, G!strategies
  <2>. QED  BY <1>0, <2>3, <2>4, <2>5 DEF PassedOK
<1>4. CASE \/ G!Reject \/ G!Accept \/ G!Loaded \/ G!Ignore \/ G!RemoveClient \/ G!Destroy
           \/ Moves \/ \E s \in Venues : Tries(s)
  BY <1>1, <1>4, MovesDo, TriesDo
     DEF G!Reject, G!Accept, G!Loaded, G!Ignore, G!RemoveClient, G!Destroy, G!strategies
<1>5. ASSUME NEW c \in Clients,
             \/ G!Login(c) \/ G!End(c) \/ G!EndUnseen(c) \/ G!EndUnstarted(c) \/ G!ReadStatus(c)
             \/ G!ThreadStart(c) \/ G!ThreadEnd(c)
      PROVE  PassedOK'
  BY <1>1, <1>5
     DEF G!Login, G!End, G!EndUnseen, G!EndUnstarted, G!ReadStatus, G!ThreadStart,
       G!ThreadEnd, G!strategies
<1>6. ASSUME NEW c \in Clients, NEW s \in Venues, Connection(c, s) PROVE PassedOK'
  BY <1>1, <1>6, ConnectionDoes
<1>7. CASE UNCHANGED G!vars
  BY <1>1, <1>7 DEF G!vars, G!strategies
<1>. QED  BY <1>2, <1>3, <1>4, <1>5, <1>6, <1>7, NextCases DEF G!Reader

(* The engine keeps its part. *)
LEMMA EngineStep ==
  ASSUME SessionsInv, [G!Next]_G!vars
  PROVE  EngineOK'
<1>0. EngineOK /\ inMap \in [Clients -> BOOLEAN]
  BY DEF SessionsInv, SessionsTyped
<1>1. UNCHANGED <<engine, inMap, api>> => EngineOK'
  BY <1>0 DEF EngineOK
<1>2. engine'.pc \notin AtSpi => EngineOK'
  BY DEF EngineOK, AtSpi, Loading
<1>3. CASE G!Accept
  <2>1. G!First.name \in Clients
    BY <1>3, SysTail DEF SessionsInv, G!Accept, G!Reads
  <2>2. ~inMap[G!First.name] /\ engine.pc = "read" /\ UNCHANGED <<inMap, api>>
    BY <1>3 DEF G!Accept, G!Reads, G!Reading, G!apis
  <2>3. \A s \in Venues : api[G!First.name][s] = "none"
    BY <2>1, <2>2 DEF SessionsInv, ClientOK, SpiOK, Busy, AtSpi, Loading
  <2>4. engine' = [pc |-> "load", of |-> G!First.name, left |-> Venues, now |-> "none"]
    BY <1>3 DEF G!Accept, G!Reading
  <2>. QED  BY <2>1, <2>2, <2>3, <2>4 DEF EngineOK, AtSpi, Loading
<1>4. ASSUME NEW s \in Venues, Tries(s) PROVE EngineOK'
  <2>1. PICK c \in Clients : c = engine.of
    BY <1>4, TriesDo
  <2>2. /\ ~inMap[c] /\ inMap' = inMap /\ engine.left \subseteq Venues
        /\ \A t \in engine.left : api[c][t] = "none"
    BY <1>0, <1>4, <2>1, TriesDo DEF EngineOK, Loading
  <2>3. engine'.of = c /\ engine'.left \subseteq engine.left \ {s}
    BY <1>4, <2>1, TriesDo
  <2>4. \A t \in Venues \ {s} : api'[c][t] = api[c][t]
    <3>1. PICK v : api' = [api EXCEPT ![c][s] = v]
      BY <1>4, <2>1, TriesDo
    <3>. QED  BY <3>1 DEF SessionsInv, SessionsTyped
  <2>. QED  BY <2>2, <2>3, <2>4 DEF EngineOK
<1>5. CASE Moves
  BY <1>0, <1>5, MovesDo DEF EngineOK, AtSpi, Loading
<1>6. CASE G!Loaded \/ G!Destroy
  BY <1>2, <1>6 DEF G!Loaded, G!Destroy, G!Reading, AtSpi, Loading
<1>7. CASE G!RemoveClient
  <2>1. G!First.name \in Clients
    BY <1>7, SysTail DEF SessionsInv, G!RemoveClient, G!Reads
  <2>2. /\ engine' = [pc |-> "join", of |-> G!First.name, left |-> {}, now |-> "none"]
        /\ ~inMap'[G!First.name]
    BY <1>0, <1>7, <2>1 DEF G!RemoveClient, G!Reading
  <2>. QED  BY <2>1, <2>2 DEF EngineOK, Loading
<1>8. CASE G!Reject \/ G!Ignore
  BY <1>1, <1>8 DEF G!Reject, G!Ignore, G!spis, G!apis
<1>9. ASSUME NEW c \in Clients,
             \/ G!Login(c) \/ G!End(c) \/ G!EndUnseen(c) \/ G!EndUnstarted(c) \/ G!ReadStatus(c)
             \/ G!ThreadStart(c) \/ G!PassOn(c) \/ G!ThreadEnd(c)
      PROVE  EngineOK'
  BY <1>1, <1>9
     DEF G!Login, G!End, G!EndUnseen, G!EndUnstarted, G!ReadStatus, G!ThreadStart, G!PassOn,
       G!ThreadEnd, G!spis, G!apis
<1>10. ASSUME NEW c \in Clients, NEW s \in Venues, G!Request(c, s) PROVE EngineOK'
  BY <1>1, <1>10 DEF G!Request, G!spis, G!apis
<1>11. ASSUME NEW c \in Clients, NEW s \in Venues, Connection(c, s) PROVE EngineOK'
  <2>1. /\ api[c][s] # "none" /\ UNCHANGED <<engine, inMap>>
        /\ \E v : api' = [api EXCEPT ![c][s] = v]
    BY <1>11, ConnectionDoes
  <2>2. \A d \in Clients : \A t \in Venues : d # c \/ t # s => api'[d][t] = api[d][t]
    BY <2>1 DEF SessionsInv, SessionsTyped
  <2>. QED  BY <1>0, <2>1, <2>2 DEF EngineOK, AtSpi, Loading
<1>12. CASE UNCHANGED G!vars
  BY <1>1, <1>12 DEF G!vars, G!spis, G!apis
<1>. QED  BY <1>3, <1>4, <1>5, <1>6, <1>7, <1>8, <1>9, <1>10, <1>11, <1>12, NextCases
          DEF G!Reader

-----------------------------------------------------------------------------
(* What each action does to the strategies.                                *)

LEMMA LoginStep ==
  ASSUME SessionsInv, ~Hasty, NEW c \in Clients, G!Login(c)
  PROVE  \A d \in Clients : ClientOK(d)'
<1>. DEFINE f == [msg |-> "login", name |-> c]
<1>1. f \in SysFrame /\ sys' = Append(sys, f)
  BY DEF G!Login, SysFrame
<1>2. /\ \A d : d # c => (InSys(d)' => InSys(d)) /\ (OneLogin(d) => OneLogin(d)')
      /\ ~InSys(c) => OneLogin(c)'
  BY <1>1, SysAppend DEF SessionsInv, OneLogin
<1>3. ASSUME NEW d \in Clients, d # c PROVE ClientOK(d)'
  <2>1. /\ ClientOK(d) /\ (Busy(d)' <=> Busy(d)) /\ (Joins(d)' <=> Joins(d))
        /\ strat'[d] = strat[d] /\ tdStatus'[d] = tdStatus[d] /\ statuses'[d] = statuses[d]
    BY <1>3 DEF SessionsInv, SessionsTyped, G!Login, Busy, Joins
  <2>. QED  BY <1>2, <1>3, <2>1, SameClient DEF G!Login, G!spis, G!apis
<1>4. /\ G!Settled(c) /\ ~Runs(c) /\ Runs(c)' /\ Starts(c)' = Starts(c) + 1 /\ Starts(c) \in Nat
      /\ tdStatus'[c] = [s \in Venues |-> "Requested"] /\ statuses'[c] = <<>>
      /\ UNCHANGED <<written, engine, spi, inMap, readNext, thread, api, isLogged, passed>>
  BY DEF G!Login, Runs, Starts, SessionsInv, SessionsTyped, G!spis, G!apis
<1>5. ~InSys(c) /\ ~Busy(c) /\ (Busy(c)' <=> Busy(c))
  BY <1>4 DEF G!Settled, InSys, Busy
<1>6. ClientOK(c)
  BY DEF SessionsInv
<1>7. SpiOK(c)' /\ ReadsOwn(c)'
  BY <1>4, <1>5, <1>6 DEF ClientOK, SpiOK, ReadsOwn
<1>8. /\ spi[c] \in Nat /\ spi[c] <= Starts(c)
      /\ \A i \in DOMAIN written[c] : written[c][i].session \in Nat /\
           written[c][i].session <= Starts(c)
  <2>1. spi[c] \in Nat /\ written[c] \in Seq(RequestFrame)
    BY DEF SessionsInv, SessionsTyped
  <2>2. \A i \in DOMAIN written[c] : written[c][i] \in RequestFrame
    BY <2>1
  <2>3. \A r \in RequestFrame : r.session \in Nat
    BY DEF RequestFrame
  <2>. QED  BY <1>6, <2>1, <2>2, <2>3 DEF ClientOK, SessionsOK
<1>9. SessionsOK(c)'
  BY <1>4, <1>8 DEF SessionsOK
<1>10. spi[c] # Starts(c)' /\ \A i \in DOMAIN written[c] : written[c][i].session # Starts(c)'
  BY <1>4, <1>8
<1>11. FrameOK(c)'
  BY <1>2, <1>4, <1>5, <1>10 DEF FrameOK
<1>12. ASSUME NEW s \in Venues
       PROVE  api[c][s] \notin {"connecting", "connected", "reporting"} /\ ~Seen(c, s)'
              /\ GoneOne(c, s)'
  <2>1. tdStatus'[c][s] # "Logined" /\ DOMAIN statuses'[c] = {}
    BY <1>4
  <2>. QED  BY <1>4, <1>10, <2>1 DEF G!Settled, Seen, GoneOne
<1>13. LoginOK(c)' /\ GoneOK(c)' /\ KeptOK(c)'
  BY <1>4, <1>10, <1>12 DEF LoginOK, GoneOK, KeptOK
<1>14. ClientOK(c)'
  BY <1>7, <1>9, <1>11, <1>13 DEF ClientOK
<1>. QED  BY <1>3, <1>14

LEMMA EndStep ==
  ASSUME SessionsInv, NEW c \in Clients, G!End(c) \/ G!EndUnseen(c) \/ G!EndUnstarted(c)
  PROVE  \A d \in Clients : ClientOK(d)'
<1>1. ASSUME NEW d \in Clients, d # c PROVE (InSys(d)' => InSys(d)) /\
        (OneLogin(d) => OneLogin(d)')
  <2>1. CASE G!End(c) \/ G!EndUnstarted(c)
    <3>1. [msg |-> "end", name |-> c] \in SysFrame
      BY DEF SysFrame
    <3>2. sys' = Append(sys, [msg |-> "end", name |-> c])
      BY <2>1 DEF G!End, G!EndUnstarted
    <3>. QED  BY <1>1, <3>1, <3>2, SysAppend DEF SessionsInv
  <2>2. CASE G!EndUnseen(c)
    BY <2>2 DEF G!EndUnseen, InSys, OneLogin
  <2>. QED  BY <2>1, <2>2
<1>2. UNCHANGED <<tdStatus, statuses, written, engine, spi, inMap, readNext, thread, api,
        isLogged, passed>>
  BY DEF G!End, G!EndUnseen, G!EndUnstarted, G!spis, G!apis
<1>3. ASSUME NEW d \in Clients, d # c PROVE ClientOK(d)'
  <2>1. ClientOK(d) /\ (Busy(d)' <=> Busy(d)) /\ (Joins(d)' <=> Joins(d)) /\
          strat'[d] = strat[d]
    BY <1>2, <1>3
       DEF SessionsInv, SessionsTyped, G!End, G!EndUnseen, G!EndUnstarted, Busy, Joins
  <2>. QED  BY <1>1, <1>2, <1>3, <2>1, SameClient
<1>4. /\ strat[c] \in [runs : BOOLEAN, starts : Nat]
      /\ strat \in [Clients -> [runs : BOOLEAN, starts : Nat]]
      /\ ClientOK(c) /\ SessionsTyped
  BY DEF SessionsInv, SessionsTyped
<1>5. /\ ~Runs(c)' /\ Starts(c)' \in Nat /\ Starts(c) <= Starts(c)'
      /\ (Runs(c) /\ Starts(c)' = Starts(c)) \/ Starts(c)' = Starts(c) + 1
  <2>1. CASE G!End(c) \/ G!EndUnseen(c)
    BY <1>4, <2>1 DEF G!End, G!EndUnseen, Runs, Starts
  <2>2. CASE G!EndUnstarted(c)
    BY <1>4, <2>2 DEF G!EndUnstarted, Runs, Starts
  <2>. QED  BY <2>1, <2>2
<1>6. Starts(c)' >= 1
  <2>1. Starts(c) \in Nat /\ (Runs(c) => Starts(c) >= 1)
    BY <1>4 DEF Starts, ClientOK, SessionsOK
  <2>. QED  BY <1>5, <2>1
<1>7. ClientOK(c)'
  BY <1>2, <1>4, <1>5, <1>6, StoppedClient
<1>. QED  BY <1>3, <1>7

LEMMA ReadStatusStep ==
  ASSUME SessionsInv, NEW c \in Clients, G!ReadStatus(c)
  PROVE  \A d \in Clients : ClientOK(d)'
<1>1. UNCHANGED <<strat, written, sys, engine, spi, inMap, readNext, thread, api, isLogged,
        passed>>
  BY DEF G!ReadStatus, G!spis, G!apis
<1>2. ASSUME NEW d \in Clients PROVE (Busy(d)' <=> Busy(d)) /\ (Joins(d)' <=> Joins(d))
                                     /\ (InSys(d)' <=> InSys(d)) /\
                                          (OneLogin(d)' <=> OneLogin(d))
                                     /\ (Runs(d)' <=> Runs(d)) /\ Starts(d)' = Starts(d)
  BY <1>1 DEF Busy, Joins, InSys, OneLogin, Runs, Starts
<1>3. ASSUME NEW d \in Clients, d # c PROVE ClientOK(d)'
  <2>1. ClientOK(d) /\ tdStatus'[d] = tdStatus[d] /\ statuses'[d] = statuses[d]
    BY <1>3 DEF SessionsInv, SessionsTyped, G!ReadStatus
  <2>. QED  BY <1>1, <1>2, <1>3, <2>1, SameClient
<1>4. ClientOK(c)
  BY DEF SessionsInv
<1>5. SpiOK(c)' /\ SessionsOK(c)' /\ ReadsOwn(c)'
  BY <1>1, <1>2, <1>4 DEF ClientOK, SpiOK, SessionsOK, ReadsOwn
<1>6. FrameOK(c) => FrameOK(c)'
  BY <1>1, <1>2 DEF FrameOK
<1>8. /\ statuses[c] \in Seq(StatusFrame) /\ statuses[c] # <<>>
      /\ statuses'[c] = Tail(statuses[c])
      /\ tdStatus'[c] = [tdStatus[c] EXCEPT ![Head(statuses[c]).source] =
           Head(statuses[c]).status]
      /\ tdStatus[c] \in [Venues -> Statuses]
  BY DEF G!ReadStatus, SessionsInv, SessionsTyped
<1>9. ASSUME NEW s \in Venues, Seen(c, s)' PROVE Seen(c, s)
  <2>1. \A i \in DOMAIN statuses'[c] : i + 1 \in DOMAIN statuses[c] /\
          statuses'[c][i] = statuses[c][i + 1]
    BY <1>8
  <2>2. 1 \in DOMAIN statuses[c] /\ Head(statuses[c]) = statuses[c][1]
    BY <1>8
  <2>3. \/ tdStatus'[c][s] = tdStatus[c][s]
        \/ Head(statuses[c]).source = s /\ tdStatus'[c][s] = Head(statuses[c]).status
    BY <1>8
  <2>. QED  BY <1>1, <1>2, <1>9, <2>1, <2>2, <2>3 DEF Seen
<1>10. LoginOK(c) => LoginOK(c)'
  BY <1>1, <1>2, <1>9 DEF LoginOK
<1>11. GoneOK(c) => GoneOK(c)'
  BY <1>1, <1>8, GoneTail DEF GoneOK, SessionsInv
<1>12. KeptOK(c) => KeptOK(c)'
  <2>1. \A s \in Venues : tdStatus[c][s] # "Requested" => tdStatus'[c][s] # "Requested"
    <3>1. Head(statuses[c]) \in StatusFrame
      BY <1>8
    <3>2. Head(statuses[c]).status # "Requested"
      BY <3>1 DEF StatusFrame, Reports
    <3>. QED  BY <1>8, <3>2
  <2>2. \A i \in DOMAIN written[c] : written[c][i].source \in Venues
    <3>1. \A i \in DOMAIN written[c] : written[c][i] \in RequestFrame
      BY DEF SessionsInv, SessionsTyped
    <3>. QED  BY <3>1 DEF RequestFrame
  <2>. QED  BY <1>1, <1>2, <2>1, <2>2 DEF KeptOK, G!Passed
<1>13. ClientOK(c)'
  BY <1>2, <1>4, <1>5, <1>6, <1>10, <1>11, <1>12 DEF ClientOK
<1>. QED  BY <1>3, <1>13

LEMMA RequestStep ==
  ASSUME SessionsInv, NEW c \in Clients, NEW s \in Venues, G!Request(c, s)
  PROVE  \A d \in Clients : ClientOK(d)'
<1>1. UNCHANGED <<strat, tdStatus, statuses, sys, engine, spi, inMap, readNext, thread, api,
        isLogged, passed>>
  BY DEF G!Request, G!spis, G!apis
<1>2. ASSUME NEW d \in Clients PROVE (Busy(d)' <=> Busy(d)) /\ (Joins(d)' <=> Joins(d))
                                     /\ (InSys(d)' <=> InSys(d)) /\
                                          (OneLogin(d)' <=> OneLogin(d))
                                     /\ (Runs(d)' <=> Runs(d)) /\ Starts(d)' = Starts(d)
  BY <1>1 DEF Busy, Joins, InSys, OneLogin, Runs, Starts
<1>3. ASSUME NEW d \in Clients, d # c PROVE ClientOK(d)'
  <2>1. ClientOK(d) /\ written'[d] = written[d]
    BY <1>3 DEF SessionsInv, SessionsTyped, G!Request
  <2>. QED  BY <1>1, <1>2, <1>3, <2>1, SameClient
<1>. DEFINE r == [source |-> s, session |-> Starts(c)]
<1>4. /\ ClientOK(c) /\ Runs(c) /\ tdStatus[c][s] = "Logined" /\ Starts(c) \in Nat
      /\ readNext[c] \in Nat
      /\ written[c] \in Seq(RequestFrame) /\ written'[c] = Append(written[c], r)
  BY DEF SessionsInv, SessionsTyped, G!Request, Runs, Starts
<1>. HIDE DEF r
<1>5. r.source = s /\ r.session = Starts(c)
  BY DEF r
<1>6. /\ Seen(c, s) /\ spi[c] \in {0, Starts(c)} /\ Starts(c) >= 1 /\ ~InSys(c)
      /\ FrameOK(c) /\ LoginOK(c) /\ GoneOK(c) /\ KeptOK(c) /\ SpiOK(c) /\ SessionsOK(c) /\ ReadsOwn(c)
  BY <1>4 DEF Seen, ClientOK, LoginOK, SessionsOK
<1>7. /\ Len(written[c]) \in Nat /\ Len(written'[c]) = Len(written[c]) + 1
      /\ DOMAIN written[c] = 1 .. Len(written[c]) /\ DOMAIN written'[c] = 1 .. Len(written'[c])
  BY <1>4
<1>8. \A i \in DOMAIN written'[c] : \/ i \in DOMAIN written[c] /\ written'[c][i] = written[c][i]
                                    \/ i = Len(written[c]) + 1 /\ written'[c][i] = r
  BY <1>4
<1>9. SpiOK(c)' /\ FrameOK(c)'
  BY <1>1, <1>2, <1>6 DEF SpiOK, FrameOK
<1>10. SessionsOK(c)'
  <2>1. \A i \in DOMAIN written'[c] : written'[c][i].session <= Starts(c)
    BY <1>4, <1>5, <1>6, <1>8 DEF SessionsOK
  <2>. QED  BY <1>1, <1>2, <1>6, <2>1 DEF SessionsOK
<1>11. spi[c] # 0 => readNext[c] >= 1 /\ readNext[c] <= Len(written[c]) + 1
  BY <1>4, <1>6 DEF ReadsOwn
<1>12. ReadsOwn(c)'
  <2>1. spi[c] # 0 => \A i \in DOMAIN written'[c] : i >= readNext[c] =>
                        written'[c][i].session = spi[c]
    BY <1>4, <1>5, <1>6, <1>8 DEF ReadsOwn
  <2>2. spi[c] # 0 => readNext[c] <= Len(written'[c]) + 1
    BY <1>4, <1>7, <1>11
  <2>. QED  BY <1>1, <1>11, <2>1, <2>2 DEF ReadsOwn
<1>13. KeptOK(c)'
  <2>1. ASSUME NEW i \in DOMAIN written'[c], written'[c][i].session = Starts(c)
        PROVE  /\ tdStatus[c][written'[c][i].source] # "Requested"
               /\ G!Passed(c, i) \/ spi[c] = 0 \/ i >= readNext[c]
    <3>1. CASE i \in DOMAIN written[c] /\ written'[c][i] = written[c][i]
      BY <1>6, <2>1, <3>1 DEF KeptOK
    <3>2. CASE i = Len(written[c]) + 1 /\ written'[c][i] = r
      BY <1>4, <1>5, <1>6, <1>7, <1>11, <3>2
    <3>. QED  BY <1>8, <3>1, <3>2
  <2>. QED  BY <1>1, <1>2, <2>1 DEF KeptOK, G!Passed
<1>14. ASSUME NEW t \in Venues, Seen(c, t)' PROVE Seen(c, t)
  BY <1>1, <1>2, <1>5, <1>6, <1>8, <1>14 DEF Seen
<1>15. LoginOK(c)'
  BY <1>1, <1>2, <1>6, <1>14 DEF LoginOK
<1>16. GoneOK(c)'
  BY <1>1, <1>6 DEF GoneOK, GoneOne, Closes
<1>17. ClientOK(c)'
  BY <1>9, <1>10, <1>12, <1>13, <1>15, <1>16 DEF ClientOK
<1>. QED  BY <1>3, <1>17

LEMMA RejectStep ==
  ASSUME SessionsInv, G!Reject \/ G!Ignore
  PROVE  \A d \in Clients : ClientOK(d)'
<1>1. sys # <<>> /\ sys' = Tail(sys)
  BY DEF G!Reject, G!Ignore, G!Reads
<1>2. \A d : (InSys(d)' => InSys(d)) /\ (OneLogin(d) => OneLogin(d)')
  BY <1>1, SysTail DEF SessionsInv
<1>3. UNCHANGED <<strat, tdStatus, statuses, written, engine, spi, inMap, readNext, thread, api,
        isLogged, passed>>
  BY DEF G!Reject, G!Ignore, G!strategies, G!spis, G!apis
<1>4. ASSUME NEW d \in Clients PROVE ClientOK(d)'
  <2>1. ClientOK(d) /\ (Busy(d)' <=> Busy(d)) /\ (Joins(d)' <=> Joins(d))
    BY <1>3 DEF SessionsInv, Busy, Joins
  <2>. QED  BY <1>2, <1>3, <2>1, SameClient
<1>. QED  BY <1>4

LEMMA AcceptStep ==
  ASSUME SessionsInv, G!Accept
  PROVE  \A d \in Clients : ClientOK(d)'
<1>1. PICK c \in Clients : c = G!First.name
  BY SysTail DEF SessionsInv, G!Accept, G!Reads
<1>2. /\ InSys(c) /\ (OneLogin(c) => \A i \in DOMAIN sys' : sys'[i].name # c)
      /\ \A d : (InSys(d)' => InSys(d)) /\ (OneLogin(d) => OneLogin(d)')
  BY <1>1, SysTail DEF SessionsInv, G!Accept, G!Reads
<1>3. /\ engine.pc = "read" /\ ~inMap[c]
      /\ engine' = [pc |-> "load", of |-> c, left |-> Venues, now |-> "none"]
      /\ spi' = [spi EXCEPT ![c] = Starts(c)]
      /\ readNext' = [readNext EXCEPT ![c] = Len(written[c]) + 1]
      /\ UNCHANGED <<strat, tdStatus, statuses, written, inMap, thread, api, isLogged, passed>>
  BY <1>1 DEF G!Accept, G!Reads, G!Reading, G!ReadFrom, Starts, G!strategies, G!apis
<1>4. /\ spi'[c] = Starts(c) /\ readNext'[c] = Len(written[c]) + 1
      /\ \A d \in Clients : d # c => spi'[d] = spi[d] /\ readNext'[d] = readNext[d]
  BY <1>3 DEF SessionsInv, SessionsTyped
<1>5. ASSUME NEW d \in Clients, d # c PROVE ClientOK(d)'
  <2>1. ClientOK(d) /\ (Busy(d)' <=> Busy(d)) /\ (Joins(d)' => Joins(d))
    BY <1>3, <1>5 DEF SessionsInv, Busy, Joins, AtSpi, Loading
  <2>. QED  BY <1>2, <1>3, <1>4, <1>5, <2>1, SameClient
<1>6. ClientOK(c) /\ ~Busy(c) /\ Busy(c)' /\ ~Joins(c)'
  BY <1>3 DEF SessionsInv, Busy, Joins, AtSpi, Loading
<1>7. (Runs(c)' <=> Runs(c)) /\ Starts(c)' = Starts(c) /\ Starts(c) \in Nat /\ Starts(c) >= 1
  BY <1>2, <1>3, <1>6 DEF Runs, Starts, SessionsInv, SessionsTyped, ClientOK, SessionsOK
<1>8. \A s \in Venues : api[c][s] = "none"
  BY <1>3, <1>6 DEF ClientOK, SpiOK
<1>9. SpiOK(c)' /\ SessionsOK(c)'
  BY <1>3, <1>4, <1>6, <1>7, <1>8 DEF ClientOK, SpiOK, SessionsOK
<1>10. /\ written[c] \in Seq(RequestFrame) /\ Len(written[c]) \in Nat
       /\ DOMAIN written[c] = 1 .. Len(written[c])
  BY DEF SessionsInv, SessionsTyped
<1>11. ReadsOwn(c)'
  <2>1. \A i \in DOMAIN written[c] : ~(i >= readNext'[c])
    BY <1>4, <1>10
  <2>2. readNext'[c] >= 1 /\ readNext'[c] <= Len(written[c]) + 1
    BY <1>4, <1>10
  <2>. QED  BY <1>3, <2>1, <2>2 DEF ReadsOwn
<1>12. ASSUME Runs(c) PROVE FrameOK(c)' /\ LoginOK(c)' /\ GoneOK(c)' /\ KeptOK(c)'
  <2>1. FrameOK(c) /\ LoginOK(c) /\ GoneOK(c) /\ KeptOK(c)
    BY <1>6, <1>12 DEF ClientOK
  <2>2. ~InSys(c)' /\ OneLogin(c)'
    BY <1>2, <2>1 DEF FrameOK, InSys
  <2>3. \A s \in Venues : ~Seen(c, s) /\ ~Seen(c, s)'
    <3>1. \A s \in Venues : ~Seen(c, s)
      BY <1>2, <2>1 DEF LoginOK
    <3>. QED  BY <1>3, <1>7, <3>1 DEF Seen
  <2>4. FrameOK(c)' /\ LoginOK(c)'
    BY <1>3, <1>4, <1>6, <1>7, <1>8, <2>2, <2>3 DEF FrameOK, LoginOK
  <2>5. \A i \in DOMAIN written[c] : written[c][i].session # Starts(c)
    <3>1. \A i \in DOMAIN written[c] : written[c][i] \in RequestFrame
      BY <1>10
    <3>2. \A i \in DOMAIN written[c] : written[c][i].source \in Venues
      BY <3>1 DEF RequestFrame
    <3>. QED  BY <2>3, <3>2 DEF Seen
  <2>6. KeptOK(c)'
    BY <1>3, <1>7, <2>5 DEF KeptOK
  <2>7. GoneOK(c)'
    BY <1>3, <1>4, <1>7, <1>8 DEF GoneOK
  <2>. QED  BY <2>4, <2>6, <2>7
<1>13. ClientOK(c)'
  BY <1>7, <1>9, <1>11, <1>12 DEF ClientOK
<1>. QED  BY <1>5, <1>13

LEMMA TriesStep ==
  ASSUME SessionsInv, NEW s \in Venues, Tries(s)
  PROVE  \A d \in Clients : ClientOK(d)'
<1>1. PICK c \in Clients : c = engine.of
  BY TriesDo
<1>2. /\ engine.pc = "load" /\ engine.of = c /\ engine'.pc \in {"wait", "fail"} /\ engine'.of = c
      /\ ~inMap[c] /\ api[c][s] = "none"
  BY <1>1, TriesDo
<1>3. /\ UNCHANGED <<strat, tdStatus, statuses, written, sys, spi, inMap, readNext, thread,
           passed>>
      /\ \E v \in {"connecting", "failed"} : api' = [api EXCEPT ![c][s] = v]
      /\ isLogged' = isLogged \/ \E b \in BOOLEAN : isLogged' = [isLogged EXCEPT ![c][s] = b]
  BY <1>1, TriesDo
<1>4. ASSUME NEW d \in Clients
      PROVE  /\ Busy(d)' <=> Busy(d)
             /\ Joins(d)' <=> Joins(d)
             /\ InSys(d)' <=> InSys(d)
             /\ OneLogin(d)' <=> OneLogin(d)
             /\ Runs(d)' <=> Runs(d)
             /\ Starts(d)' = Starts(d)
             /\ \A t \in Venues : Seen(d, t)' <=> Seen(d, t)
  <2>1. /\ Busy(d)' <=> Busy(d)
        /\ Joins(d)' <=> Joins(d)
    BY <1>2 DEF Busy, Joins, AtSpi, Loading
  <2>2. /\ InSys(d)' <=> InSys(d)
        /\ OneLogin(d)' <=> OneLogin(d)
        /\ Runs(d)' <=> Runs(d)
        /\ Starts(d)' = Starts(d)
    BY <1>3 DEF InSys, OneLogin, Runs, Starts
  <2>3. \A t \in Venues : Seen(d, t)' <=> Seen(d, t)
    BY <1>3, <2>2 DEF Seen
  <2>. QED  BY <2>1, <2>2, <2>3
<1>5. \A d \in Clients : d # c => api'[d] = api[d] /\ isLogged'[d] = isLogged[d]
  BY <1>3 DEF SessionsInv, SessionsTyped
<1>6. /\ api'[c][s] \in {"connecting", "failed"}
      /\ \A t \in Venues : t # s =>
           api'[c][t] = api[c][t] /\ isLogged'[c][t] = isLogged[c][t]
  BY <1>3 DEF SessionsInv, SessionsTyped
<1>7. ASSUME NEW d \in Clients, d # c PROVE ClientOK(d)'
  <2>1. ClientOK(d)
    BY DEF SessionsInv
  <2>. QED  BY <1>3, <1>4, <1>5, <1>7, <2>1, SameClient
<1>8. ClientOK(c) /\ Busy(c) /\ spi[c] # 0
  BY <1>2 DEF SessionsInv, ClientOK, SpiOK, Busy, AtSpi, Loading
<1>9. SpiOK(c)' /\ SessionsOK(c)' /\ ReadsOwn(c)'
  <2>1. SpiOK(c)'
    BY <1>3, <1>4, <1>6, <1>8 DEF ClientOK, SpiOK
  <2>. QED  BY <1>3, <1>4, <1>8, <2>1 DEF ClientOK, SessionsOK, ReadsOwn
<1>10. ASSUME Runs(c) PROVE FrameOK(c)' /\ LoginOK(c)' /\ GoneOK(c)' /\ KeptOK(c)'
  <2>1. FrameOK(c) /\ LoginOK(c) /\ GoneOK(c) /\ KeptOK(c)
    BY <1>8, <1>10 DEF ClientOK
  <2>2. FrameOK(c)' /\ KeptOK(c)'
    BY <1>3, <1>4, <2>1 DEF FrameOK, KeptOK, G!Passed
  <2>3. spi[c] = Starts(c) /\ ~Seen(c, s)
    BY <1>2, <1>8, <2>1 DEF FrameOK, LoginOK
  <2>4. LoginOK(c)'
    BY <1>3, <1>4, <1>6, <2>1, <2>3 DEF LoginOK
  <2>5. GoneOK(c)'
    <3>1. \A t \in Venues : GoneOne(c, t) => GoneOne(c, t)'
      BY <1>3 DEF GoneOne, Closes
    <3>2. \A t \in Venues : api'[c][t] = "closed" => api[c][t] = "closed"
      BY <1>6
    <3>. QED  BY <1>3, <2>1, <3>1, <3>2 DEF GoneOK
  <2>. QED  BY <2>2, <2>4, <2>5
<1>11. ClientOK(c)'
  BY <1>4, <1>9, <1>10 DEF ClientOK
<1>. QED  BY <1>7, <1>11

LEMMA MovesStep ==
  ASSUME SessionsInv, Moves
  PROVE  \A d \in Clients : ClientOK(d)'
<1>1. UNCHANGED <<strat, tdStatus, statuses, written, sys, spi, inMap, readNext, thread, api,
        isLogged, passed>>
  BY MovesDo
<1>2. ASSUME NEW d \in Clients
      PROVE  (Busy(d)' <=> Busy(d)) /\ (Joins(d)' => Joins(d))
  BY MovesDo DEF Busy, Joins, AtSpi, Loading
<1>3. ASSUME NEW d \in Clients
      PROVE  (InSys(d)' <=> InSys(d)) /\ (OneLogin(d)' <=> OneLogin(d))
  BY <1>1 DEF InSys, OneLogin
<1>4. ASSUME NEW d \in Clients PROVE ClientOK(d)
  BY DEF SessionsInv
<1>. QED  BY <1>1, <1>2, <1>3, <1>4, SameClient

LEMMA LoadedStep ==
  ASSUME SessionsInv, G!Loaded
  PROVE  \A d \in Clients : ClientOK(d)'
<1>1. PICK c \in Clients : c = engine.of
  BY DEF G!Loaded, SessionsInv, EngineOK, AtSpi, Loading
<1>2. /\ engine.pc = "load" /\ engine.of = c /\ engine' = G!Reading
      /\ inMap' = [inMap EXCEPT ![c] = TRUE] /\ thread' = [thread EXCEPT ![c] = "start"]
      /\ UNCHANGED <<strat, tdStatus, statuses, written, sys, spi, readNext, api, isLogged,
           passed>>
  BY <1>1 DEF G!Loaded, G!strategies, G!apis
<1>3. /\ inMap'[c]
      /\ \A d \in Clients : d # c => inMap'[d] = inMap[d] /\ thread'[d] = thread[d]
  BY <1>2 DEF SessionsInv, SessionsTyped
<1>4. ASSUME NEW d \in Clients
      PROVE  /\ InSys(d)' <=> InSys(d)
             /\ OneLogin(d)' <=> OneLogin(d)
             /\ Runs(d)' <=> Runs(d)
             /\ Starts(d)' = Starts(d)
             /\ ~Busy(d)' /\ ~Joins(d)'
             /\ ClientOK(d)
  BY <1>2 DEF InSys, OneLogin, Runs, Starts, Busy, Joins, AtSpi, Loading, G!Reading, SessionsInv
<1>5. ASSUME NEW d \in Clients, d # c PROVE ClientOK(d)'
  <2>1. ~Busy(d)
    BY <1>2, <1>5 DEF Busy
  <2>. QED  BY <1>2, <1>3, <1>4, <1>5, <2>1, SameClient
<1>6. Busy(c) /\ spi[c] # 0
  BY <1>2, <1>4 DEF Busy, AtSpi, Loading, ClientOK, SpiOK
<1>7. SpiOK(c)' /\ SessionsOK(c)' /\ ReadsOwn(c)'
  BY <1>2, <1>3, <1>4, <1>6 DEF ClientOK, SpiOK, SessionsOK, ReadsOwn
<1>8. ASSUME Runs(c) PROVE FrameOK(c)' /\ LoginOK(c)' /\ GoneOK(c)' /\ KeptOK(c)'
  <2>1. FrameOK(c) /\ LoginOK(c) /\ GoneOK(c) /\ KeptOK(c)
    BY <1>4, <1>8 DEF ClientOK
  <2>2. \A t \in Venues : Seen(c, t)' <=> Seen(c, t)
    BY <1>2, <1>4 DEF Seen
  <2>. QED  BY <1>2, <1>4, <2>1, <2>2 DEF FrameOK, LoginOK, GoneOK, GoneOne, Closes, KeptOK,
            G!Passed
<1>9. ClientOK(c)'
  BY <1>4, <1>7, <1>8 DEF ClientOK
<1>. QED  BY <1>5, <1>9

LEMMA RemoveClientStep ==
  ASSUME SessionsInv, G!RemoveClient
  PROVE  \A d \in Clients : ClientOK(d)'
<1>1. PICK c \in Clients : c = G!First.name
  BY SysTail DEF SessionsInv, G!RemoveClient, G!Reads
<1>2. /\ InSys(c) /\ (OneLogin(c) => G!First.msg = "login")
      /\ \A d : (InSys(d)' => InSys(d)) /\ (OneLogin(d) => OneLogin(d)')
  BY <1>1, SysTail DEF SessionsInv, G!RemoveClient, G!Reads
<1>3. /\ engine.pc = "read" /\ G!First.msg = "end" /\ inMap[c]
      /\ engine' = [pc |-> "join", of |-> c, left |-> {}, now |-> "none"]
      /\ inMap' = [inMap EXCEPT ![c] = FALSE]
      /\ UNCHANGED <<strat, tdStatus, statuses, written, spi, readNext, thread, api, isLogged,
           passed>>
  BY <1>1 DEF G!RemoveClient, G!Reads, G!Reading, G!strategies, G!apis
<1>4. \A d \in Clients : d # c => inMap'[d] = inMap[d]
  BY <1>3 DEF SessionsInv, SessionsTyped
<1>5. ASSUME NEW d \in Clients, d # c PROVE ClientOK(d)'
  <2>1. ClientOK(d) /\ ~Busy(d) /\ ~Busy(d)' /\ ~Joins(d)'
    BY <1>3, <1>5 DEF SessionsInv, Busy, Joins, AtSpi, Loading
  <2>. QED  BY <1>2, <1>3, <1>4, <1>5, <2>1, SameClient
<1>6. /\ ClientOK(c) /\ ~Runs(c) /\ Busy(c)' /\ spi[c] # 0
      /\ (Runs(c)' <=> Runs(c)) /\ Starts(c)' = Starts(c)
  <2>1. ClientOK(c)
    BY DEF SessionsInv
  <2>2. ~Runs(c)
    BY <1>2, <1>3, <2>1 DEF ClientOK, FrameOK
  <2>. QED  BY <1>3, <2>1, <2>2 DEF ClientOK, SpiOK, Busy, AtSpi, Loading, Runs, Starts
<1>7. SpiOK(c)' /\ SessionsOK(c)' /\ ReadsOwn(c)'
  BY <1>2, <1>3, <1>6 DEF ClientOK, SpiOK, SessionsOK, ReadsOwn
<1>8. ClientOK(c)'
  BY <1>6, <1>7 DEF ClientOK
<1>. QED  BY <1>5, <1>8

LEMMA DestroyStep ==
  ASSUME SessionsInv, G!Destroy
  PROVE  \A d \in Clients : ClientOK(d)'
<1>1. PICK c \in Clients : c = engine.of /\ engine.pc \in {"fail", "join"}
  BY DEF G!Destroy, G!Destroying, SessionsInv, EngineOK, AtSpi, Loading
<1>2. /\ engine.of = c /\ engine' = G!Reading
      /\ UNCHANGED <<strat, tdStatus, statuses, written, sys, inMap, passed>>
      /\ api' = [api EXCEPT ![c] = [s \in Venues |-> "none"]]
      /\ isLogged' = [isLogged EXCEPT ![c] = [s \in Venues |-> FALSE]]
      /\ spi' = [spi EXCEPT ![c] = 0] /\ readNext' = [readNext EXCEPT ![c] = 0]
      /\ thread' = [thread EXCEPT ![c] = "none"]
      /\ \A s \in Venues : api[c][s] \in {"none", "closed"}
  BY <1>1 DEF G!Destroy, G!strategies
<1>3. /\ ~inMap[c] /\ spi'[c] = 0 /\ thread'[c] = "none"
      /\ \A s \in Venues : api'[c][s] = "none"
  BY <1>1, <1>2 DEF SessionsInv, SessionsTyped, EngineOK, AtSpi, Loading
<1>4. \A d \in Clients : d # c => /\ api'[d] = api[d] /\ isLogged'[d] = isLogged[d]
                                  /\ spi'[d] = spi[d] /\ readNext'[d] = readNext[d]
                                  /\ thread'[d] = thread[d]
  BY <1>2 DEF SessionsInv, SessionsTyped
<1>5. ASSUME NEW d \in Clients
      PROVE  /\ InSys(d)' <=> InSys(d)
             /\ OneLogin(d)' <=> OneLogin(d)
             /\ Runs(d)' <=> Runs(d)
             /\ Starts(d)' = Starts(d)
             /\ ~Busy(d)' /\ ~Joins(d)'
             /\ ClientOK(d)
  BY <1>2 DEF InSys, OneLogin, Runs, Starts, Busy, Joins, AtSpi, Loading, G!Reading, SessionsInv
<1>6. ASSUME NEW d \in Clients, d # c PROVE ClientOK(d)'
  <2>1. ~Busy(d)
    BY <1>2, <1>6 DEF Busy
  <2>. QED  BY <1>2, <1>4, <1>5, <1>6, <2>1, SameClient
<1>7. SpiOK(c)'
  BY <1>2, <1>3, <1>5 DEF SpiOK
<1>8. SessionsOK(c)' /\ ReadsOwn(c)'
  <2>1. Starts(c) \in Nat /\ SessionsOK(c)
    BY <1>5 DEF SessionsInv, SessionsTyped, Starts, ClientOK
  <2>2. SessionsOK(c)'
    BY <1>2, <1>3, <1>5, <2>1 DEF SessionsOK
  <2>. QED  BY <1>3, <2>2 DEF ReadsOwn
<1>9. ASSUME Runs(c) PROVE FrameOK(c)' /\ LoginOK(c)' /\ GoneOK(c)' /\ KeptOK(c)'
  <2>1. /\ FrameOK(c) /\ LoginOK(c) /\ GoneOK(c) /\ KeptOK(c) /\ Busy(c)
        /\ spi[c] = Starts(c) /\ spi[c] # 0
    BY <1>1, <1>5, <1>9 DEF ClientOK, FrameOK, SpiOK, Busy, AtSpi, Loading
  <2>2. \A s \in Venues : Seen(c, s)' <=> Seen(c, s)
    BY <1>2, <1>5 DEF Seen
  <2>3. FrameOK(c)'
    BY <1>5, <2>1 DEF FrameOK
  <2>4. LoginOK(c)'
    BY <1>3, <1>5, <2>1, <2>2 DEF LoginOK
  <2>5. ASSUME NEW s \in Venues PROVE GoneOne(c, s)
    <3>1. CASE api[c][s] = "closed"
      BY <2>1, <3>1 DEF GoneOK
    <3>2. CASE ~Seen(c, s)
      BY <3>2 DEF Seen, GoneOne
    <3>. QED  BY <1>2, <2>1, <3>1, <3>2 DEF LoginOK
  <2>6. GoneOK(c)'
    BY <1>2, <2>5 DEF GoneOK, GoneOne, Closes
  <2>7. KeptOK(c)'
    BY <1>2, <1>3, <1>5, <2>1 DEF KeptOK, G!Passed
  <2>. QED  BY <2>3, <2>4, <2>6, <2>7
<1>10. ClientOK(c)'
  BY <1>5, <1>7, <1>8, <1>9 DEF ClientOK
<1>. QED  BY <1>6, <1>10

LEMMA ReaderStep ==
  ASSUME SessionsInv, NEW c \in Clients, G!Reader(c)
  PROVE  \A d \in Clients : ClientOK(d)'
<1>1. /\ UNCHANGED <<strat, tdStatus, statuses, written, sys, engine, spi, inMap, api,
           isLogged>>
      /\ passed \subseteq passed' /\ thread[c] \in {"start", "loop"}
  BY DEF G!Reader, G!ThreadStart, G!PassOn, G!ThreadEnd, G!strategies, G!apis
<1>2. ASSUME NEW d \in Clients
      PROVE  /\ InSys(d)' <=> InSys(d)
             /\ OneLogin(d)' <=> OneLogin(d)
             /\ Runs(d)' <=> Runs(d)
             /\ Starts(d)' = Starts(d)
             /\ Busy(d)' <=> Busy(d)
             /\ Joins(d)' <=> Joins(d)
             /\ ClientOK(d)
  BY <1>1 DEF InSys, OneLogin, Runs, Starts, Busy, Joins, SessionsInv
<1>3. spi[c] # 0
  BY <1>1, <1>2 DEF ClientOK, SpiOK
<1>4. ASSUME NEW d \in Clients, d # c PROVE ClientOK(d)'
  <2>1. readNext'[d] = readNext[d] /\ thread'[d] = thread[d]
    BY <1>4 DEF SessionsInv, SessionsTyped, G!Reader, G!ThreadStart, G!PassOn, G!ThreadEnd
  <2>. QED  BY <1>1, <1>2, <1>4, <2>1, SameClient
<1>5. ASSUME G!ThreadStart(c) \/ G!ThreadEnd(c) PROVE ClientOK(c)'
  <2>1. readNext' = readNext
    BY <1>5 DEF G!ThreadStart, G!ThreadEnd
  <2>. QED  BY <1>1, <1>2, <1>3, <2>1, SameClient
<1>6. ASSUME G!PassOn(c) PROVE ClientOK(c)'
  <2>1. /\ thread' = thread /\ readNext'[c] = readNext[c] + 1 /\ readNext[c] <= Len(written[c])
        /\ readNext[c] \in Nat /\ written[c] \in Seq(RequestFrame)
        /\ isLogged[c][written[c][readNext[c]].source] =>
             [name |-> c, no |-> readNext[c], by |-> spi[c]] \in passed'
    BY <1>6 DEF G!PassOn, SessionsInv, SessionsTyped
  <2>2. readNext[c] >= 1 /\ \A i \in DOMAIN written[c] : i >= readNext[c] =>
          written[c][i].session = spi[c]
    BY <1>2, <1>3 DEF ClientOK, ReadsOwn
  <2>3. SpiOK(c)' /\ SessionsOK(c)'
    BY <1>1, <1>2, <2>1 DEF ClientOK, SpiOK, SessionsOK
  <2>4. ReadsOwn(c)'
    <3>1. \A i \in DOMAIN written[c] : i >= readNext[c] + 1 => i >= readNext[c]
      BY <2>1
    <3>2. readNext[c] + 1 >= 1 /\ readNext[c] + 1 <= Len(written[c]) + 1
      BY <2>1
    <3>. QED  BY <1>1, <2>1, <2>2, <3>1, <3>2 DEF ReadsOwn
  <2>5. ASSUME Runs(c) PROVE FrameOK(c)' /\ LoginOK(c)' /\ GoneOK(c)' /\ KeptOK(c)'
    <3>1. FrameOK(c) /\ LoginOK(c) /\ GoneOK(c) /\ KeptOK(c)
      BY <1>2, <2>5 DEF ClientOK
    <3>2. \A t \in Venues : Seen(c, t)' <=> Seen(c, t)
      BY <1>1, <1>2 DEF Seen
    <3>3. FrameOK(c)' /\ LoginOK(c)' /\ GoneOK(c)'
      BY <1>1, <1>2, <3>1, <3>2 DEF FrameOK, LoginOK, GoneOK, GoneOne, Closes
    <3>4. ASSUME NEW i \in DOMAIN written[c], written[c][i].session = Starts(c)
          PROVE  G!Passed(c, i)' \/ i >= readNext[c] + 1
      <4>1. CASE G!Passed(c, i)
        BY <1>1, <4>1 DEF G!Passed
      <4>2. CASE i = readNext[c]
        <5>1. written[c][i].source \in Venues
          <6>1. written[c][i] \in RequestFrame
            BY <2>1
          <6>. QED  BY <6>1 DEF RequestFrame
        <5>2. Seen(c, written[c][i].source)
          BY <3>4 DEF Seen
        <5>3. isLogged[c][written[c][i].source]
          BY <1>3, <3>1, <5>1, <5>2 DEF LoginOK
        <5>. QED  BY <2>1, <4>2, <5>3 DEF G!Passed
      <4>3. CASE i >= readNext[c] /\ i # readNext[c]
        <5>1. i \in Nat
          BY <2>1
        <5>. QED  BY <2>1, <4>3, <5>1
      <4>. QED  BY <1>3, <3>1, <3>4, <4>1, <4>2, <4>3 DEF KeptOK
    <3>5. KeptOK(c)'
      BY <1>1, <1>2, <2>1, <3>1, <3>4 DEF KeptOK
    <3>. QED  BY <3>3, <3>5
  <2>. QED  BY <1>2, <2>3, <2>4, <2>5 DEF ClientOK
<1>. QED  BY <1>4, <1>5, <1>6 DEF G!Reader

LEMMA ConnectionStep ==
  ASSUME SessionsInv, NEW c \in Clients, NEW s \in Venues, Connection(c, s)
  PROVE  \A d \in Clients : ClientOK(d)'
<1>1. UNCHANGED <<strat, tdStatus, written, sys, engine, spi, inMap, readNext, thread, passed>>
  BY ConnectionDoes
<1>2. ASSUME NEW d \in Clients
      PROVE  /\ InSys(d)' <=> InSys(d)
             /\ OneLogin(d)' <=> OneLogin(d)
             /\ Runs(d)' <=> Runs(d)
             /\ Starts(d)' = Starts(d)
             /\ Busy(d)' <=> Busy(d)
             /\ Joins(d)' <=> Joins(d)
             /\ ClientOK(d)
  BY <1>1 DEF InSys, OneLogin, Runs, Starts, Busy, Joins, SessionsInv
<1>3. /\ api[c][s] # "none" /\ \E v : api' = [api EXCEPT ![c][s] = v]
      /\ isLogged' = isLogged \/ \E b \in BOOLEAN : isLogged' = [isLogged EXCEPT ![c][s] = b]
  BY ConnectionDoes
<1>4. /\ \A d \in Clients : d # c => api'[d] = api[d] /\ isLogged'[d] = isLogged[d]
      /\ \A t \in Venues : t # s =>
           api'[c][t] = api[c][t] /\ isLogged'[c][t] = isLogged[c][t]
  BY <1>3 DEF SessionsInv, SessionsTyped
<1>5. SessionsTyped
  BY DEF SessionsInv
<1>6. ASSUME NEW d \in Clients, d # c PROVE ClientOK(d)'
  <2>1. statuses'[d] = statuses[d]
    BY <1>5, <1>6, ConnectionDoes, Reported
  <2>. QED  BY <1>1, <1>2, <1>4, <1>6, <2>1, SameClient
<1>7. /\ api'[c][s] = "reporting" => isLogged'[c][s]
      /\ api'[c][s] \in {"connecting", "connected", "reporting"} =>
           api[c][s] \in {"connecting", "connected"}
      /\ api[c][s] \in {"reporting", "logged", "closed"} =>
           isLogged'[c][s] = isLogged[c][s] /\ api'[c][s] \in {"logged", "closed"}
      /\ api[c][s] \in {"logged", "closed"} \/ api'[c][s] = "closed" => ~G!ReportLogin(c, s)
  <2>1. CASE G!Session(c, s)
    BY <2>1 DEF G!Session, G!OnWsConnected, G!ConnectFails, G!LoggedIn, G!Refuse, G!ReportLogin,
       SessionsInv, SessionsTyped
  <2>2. CASE G!Closed(c, s)
    BY <2>2 DEF G!Closed, G!ReportLogin, SessionsInv, SessionsTyped
  <2>. QED  BY <2>1, <2>2 DEF Connection, G!Close, G!Lose, G!DestroyApi
<1>8. inMap[c] \/ Busy(c)
  BY <1>2, <1>3 DEF ClientOK, SpiOK
<1>9. spi[c] # 0
  BY <1>2, <1>8 DEF ClientOK, SpiOK
<1>10. SpiOK(c)' /\ SessionsOK(c)' /\ ReadsOwn(c)'
  <2>1. SpiOK(c)'
    BY <1>1, <1>2, <1>4, <1>7, <1>8 DEF ClientOK, SpiOK
  <2>. QED  BY <1>1, <1>2, <2>1 DEF ClientOK, SessionsOK, ReadsOwn
<1>11. ASSUME Runs(c) PROVE FrameOK(c)' /\ LoginOK(c)' /\ GoneOK(c)' /\ KeptOK(c)'
  <2>1. FrameOK(c) /\ LoginOK(c) /\ GoneOK(c) /\ KeptOK(c)
    BY <1>2, <1>11 DEF ClientOK
  <2>2. FrameOK(c)' /\ KeptOK(c)'
    BY <1>1, <1>2, <2>1 DEF FrameOK, KeptOK, G!Passed
  <2>3. \/ statuses'[c] = statuses[c] /\ (api'[c][s] = "closed" => api[c][s] = "closed")
        \/ \E x \in Reports : /\ statuses'[c] =
                                   Append(statuses[c], [source |-> s, status |-> x])
                              /\ x = "Logined" => /\ api[c][s] = "reporting"
                                                 /\ api'[c][s] = "logged"
    <3>1. CASE G!Session(c, s) /\ ~G!ReportLogin(c, s)
      BY <3>1 DEF G!Session, G!OnWsConnected, G!ConnectFails, G!LoggedIn, G!Refuse, SessionsInv,
         SessionsTyped
    <3>2. CASE G!ReportLogin(c, s)
      <4>1. G!Report(c, s, "Logined") /\ "Logined" \in Reports
        BY <3>2 DEF G!ReportLogin, Reports
      <4>2. api[c][s] = "reporting" /\ api'[c][s] = "logged"
        BY <3>2 DEF G!ReportLogin, SessionsInv, SessionsTyped
      <4>. QED  BY <1>5, <1>11, <4>1, <4>2, Reported
    <3>3. CASE G!Closed(c, s)
      <4>1. G!Report(c, s, "Disconnected") /\ "Disconnected" \in Reports
        BY <3>3 DEF G!Closed, Reports
      <4>. QED  BY <1>5, <1>11, <4>1, Reported
    <3>. QED  BY <3>1, <3>2, <3>3 DEF Connection, G!Close, G!Lose, G!DestroyApi
  <2>4. ASSUME NEW t \in Venues, Seen(c, t)'
        PROVE  Seen(c, t) \/ (t = s /\ api[c][s] = "reporting")
    <3>1. CASE statuses'[c] = statuses[c]
      BY <1>1, <1>2, <2>4, <3>1 DEF Seen
    <3>2. ASSUME NEW x \in Reports,
                 statuses'[c] = Append(statuses[c], [source |-> s, status |-> x]),
                 x = "Logined" => api[c][s] = "reporting"
          PROVE  Seen(c, t) \/ (t = s /\ api[c][s] = "reporting")
      <4>1. statuses[c] \in Seq(StatusFrame)
        BY DEF SessionsInv, SessionsTyped
      <4>2. \A i \in DOMAIN statuses'[c] :
              \/ i \in DOMAIN statuses[c] /\ statuses'[c][i] = statuses[c][i]
              \/ statuses'[c][i] = [source |-> s, status |-> x]
        BY <3>2, <4>1
      <4>. QED  BY <1>1, <1>2, <2>4, <3>2, <4>2 DEF Seen
    <3>. QED  BY <2>3, <3>1, <3>2
  <2>5. ASSUME NEW t \in Venues
        PROVE  /\ api'[c][t] \in {"connecting", "connected", "reporting"} => spi[c] = Starts(c)
               /\ Seen(c, t)' => /\ ~InSys(c) /\ spi[c] \in {0, Starts(c)}
                                 /\ isLogged'[c][t] /\ api'[c][t] \in {"logged", "closed"}
    <3>1. CASE t # s
      BY <1>4, <1>9, <2>1, <2>4, <3>1 DEF LoginOK
    <3>2. CASE t = s
      <4>1. api[c][s] = "reporting" => spi[c] = Starts(c) /\ ~InSys(c) /\ isLogged[c][s]
        BY <1>2, <2>1 DEF LoginOK, FrameOK, ClientOK, SpiOK
      <4>. QED  BY <1>7, <1>9, <2>1, <2>4, <3>2, <4>1 DEF LoginOK
    <3>. QED  BY <3>1, <3>2
  <2>6. LoginOK(c)'
    BY <1>1, <1>2, <2>5 DEF LoginOK
  <2>7. ASSUME NEW t \in Venues, api'[c][t] = "closed" PROVE GoneOne(c, t)'
    <3>1. t # s => GoneOne(c, t)
      BY <1>4, <2>1, <2>7 DEF GoneOK
    <3>2. CASE statuses'[c] = statuses[c] /\ (api'[c][s] = "closed" => api[c][s] = "closed")
      <4>1. GoneOne(c, t)
        BY <2>1, <2>7, <3>1, <3>2 DEF GoneOK
      <4>. QED  BY <1>1, <3>2, <4>1 DEF GoneOne, Closes
    <3>3. ASSUME NEW x \in Reports,
                 statuses'[c] = Append(statuses[c], [source |-> s, status |-> x]),
                 x = "Logined" => api'[c][s] = "logged"
          PROVE  GoneOne(c, t)'
      <4>1. t = s => x = "Disconnected"
        BY <2>7, <3>3 DEF Reports
      <4>. QED  BY <1>1, <1>5, <3>1, <3>3, <4>1, GoneAppend
    <3>. QED  BY <2>3, <3>2, <3>3
  <2>8. GoneOK(c)'
    BY <1>1, <1>9, <2>7 DEF GoneOK
  <2>. QED  BY <2>2, <2>6, <2>8
<1>12. ClientOK(c)'
  BY <1>2, <1>10, <1>11 DEF ClientOK
<1>. QED  BY <1>6, <1>12

-----------------------------------------------------------------------------
(* The theorems.                                                           *)

LEMMA SessionsInvInit == G!Init => SessionsInv
<1>. SUFFICES ASSUME G!Init PROVE SessionsInv
  OBVIOUS
<1>. USE DEF G!Init
<1>1. SessionsTyped
  <2>1. strat \in [Clients -> [runs : BOOLEAN, starts : Nat]] /\
          tdStatus \in [Clients -> [Venues -> Statuses]]
    BY DEF Statuses
  <2>2. /\ statuses \in [Clients -> Seq(StatusFrame)]
        /\ written \in [Clients -> Seq(RequestFrame)]
        /\ sys \in Seq(SysFrame)
    OBVIOUS
  <2>3. /\ engine = [pc |-> engine.pc, of |-> engine.of, left |-> engine.left,
                       now |-> engine.now]
        /\ spi \in [Clients -> Nat] /\ inMap \in [Clients -> BOOLEAN]
        /\ readNext \in [Clients -> Nat]
        /\ thread = [c \in Clients |-> thread[c]]
    BY DEF G!Reading
  <2>4. /\ api = [c \in Clients |-> [s \in Venues |-> api[c][s]]]
        /\ isLogged \in [Clients -> [Venues -> BOOLEAN]]
    OBVIOUS
  <2>. QED  BY <2>1, <2>2, <2>3, <2>4 DEF SessionsTyped
<1>2. EngineOK /\ PassedOK
  BY DEF EngineOK, PassedOK, G!Reading, AtSpi, Loading
<1>3. ASSUME NEW c \in Clients PROVE ClientOK(c)
  <2>1. ~Runs(c) /\ Starts(c) = 0 /\ ~InSys(c) /\ ~Busy(c)
    BY DEF Runs, Starts, InSys, Busy, AtSpi, Loading, G!Reading
  <2>2. DOMAIN written[c] = {}
    OBVIOUS
  <2>. QED  BY <2>1, <2>2 DEF ClientOK, SpiOK, SessionsOK, ReadsOwn
<1>. QED  BY <1>1, <1>2, <1>3 DEF SessionsInv

LEMMA SessionsInvNext ==
  ASSUME ~Hasty
  PROVE  SessionsInv /\ [G!Next]_G!vars => SessionsInv'
<1>. SUFFICES ASSUME SessionsInv, [G!Next]_G!vars PROVE SessionsInv'
  OBVIOUS
<1>1. SessionsTyped' /\ EngineOK' /\ PassedOK'
  BY TypedStep, EngineStep, PassedStep
<1>. DEFINE P == \A d \in Clients : ClientOK(d)'
<1>2. ASSUME \/ G!Reject \/ G!Accept \/ G!Loaded \/ G!Ignore \/ G!RemoveClient \/ G!Destroy
             \/ Moves \/ \E s \in Venues : Tries(s)
      PROVE  P
  BY <1>2, RejectStep, AcceptStep, LoadedStep, RemoveClientStep, DestroyStep, MovesStep,
     TriesStep
<1>3. ASSUME NEW c \in Clients,
             \/ G!Login(c) \/ G!End(c) \/ G!EndUnseen(c) \/ G!EndUnstarted(c)
             \/ G!ReadStatus(c) \/ G!Reader(c)
      PROVE  P
  BY <1>3, LoginStep, EndStep, ReadStatusStep, ReaderStep
<1>4. ASSUME NEW c \in Clients, NEW s \in Venues, G!Request(c, s) \/ Connection(c, s)
      PROVE  P
  BY <1>4, RequestStep, ConnectionStep
<1>5. ASSUME UNCHANGED G!vars PROVE P
  <2>1. UNCHANGED <<strat, tdStatus, statuses, written, sys, engine, spi, inMap, readNext,
          thread,
                    api, isLogged, passed>>
    BY <1>5 DEF G!vars, G!strategies, G!spis, G!apis
  <2>2. ASSUME NEW d \in Clients
        PROVE  /\ InSys(d)' <=> InSys(d)
               /\ OneLogin(d)' <=> OneLogin(d)
               /\ Busy(d)' <=> Busy(d)
               /\ Joins(d)' <=> Joins(d)
               /\ ClientOK(d)
    BY <2>1 DEF InSys, OneLogin, Busy, Joins, SessionsInv
  <2>. QED  BY <2>1, <2>2, SameClient
<1>. HIDE DEF P
<1>6. G!Next => P
  BY <1>2, <1>3, <1>4, NextCases
<1>. QED  BY <1>1, <1>5, <1>6 DEF SessionsInv, P

(* A request a strategy makes once it has seen the login of its exchange   *)
(* is passed on or still to be read, or Load has failed after that login   *)
(* and the strategy is told, or will read, that the exchange is            *)
(* disconnected: for any strategies and exchanges, any accounts and        *)
(* connections that fail, and any number of sessions and requests, if a    *)
(* strategy is not started again before the gateway has dealt with its end *)
(* (Load, Listening, RegisterClient, OnUserLogin, OnWsClose).              *)
THEOREM RequestsAreNotDropped ==
  ASSUME ~Hasty
  PROVE  G!Spec => []NotDropped
<1>1. ASSUME SessionsInv, NEW c \in Clients, NEW i \in DOMAIN written[c],
             Runs(c), written[c][i].session = Starts(c)
      PROVE  G!Passed(c, i) \/ (spi[c] # 0 /\ i >= readNext[c]) \/ G!GivenUp(c, i)
  <2>. DEFINE s == written[c][i].source
  <2>1. /\ GoneOK(c) /\ tdStatus[c][s] # "Requested"
        /\ G!Passed(c, i) \/ spi[c] = 0 \/ i >= readNext[c]
    BY <1>1 DEF SessionsInv, ClientOK, KeptOK
  <2>2. s \in Venues /\ tdStatus[c][s] \in Statuses /\ statuses[c] \in Seq(StatusFrame)
    <3>1. written[c][i] \in RequestFrame
      BY <1>1 DEF SessionsInv, SessionsTyped
    <3>2. s \in Venues
      BY <3>1 DEF RequestFrame
    <3>. QED  BY <1>1, <3>2 DEF SessionsInv, SessionsTyped
  <2>. HIDE DEF s
  <2>3. ASSUME NEW j \in DOMAIN statuses[c], Closes(c, s, j)
        PROVE  statuses[c][j] = [source |-> s, status |-> "Disconnected"]
    <3>1. statuses[c][j] \in StatusFrame
      BY <2>2
    <3>. QED  BY <2>3, <3>1 DEF StatusFrame, Closes
  <2>4. spi[c] = 0 => G!Told(c, s)
    BY <2>1, <2>2, <2>3 DEF GoneOK, GoneOne, G!Told, Statuses
  <2>. QED  BY <2>1, <2>4 DEF G!GivenUp, s
<1>2. SessionsInv => NotDropped
  BY <1>1 DEF NotDropped, G!NotDropped, Runs, Starts
<1>. QED  BY <1>2, SessionsInvInit, SessionsInvNext, PTL DEF G!Spec

(* And whoever passes one on was loaded for the session it was made in     *)
(* (RegisterClient, Load).                                                 *)
THEOREM PassedInItsSession ==
  ASSUME ~Hasty
  PROVE  G!Spec => []OwnSession
<1>1. SessionsInv => OwnSession
  BY DEF SessionsInv, PassedOK, OwnSession, G!OwnSession
<1>. QED  BY <1>1, SessionsInvInit, SessionsInvNext, PTL DEF G!Spec
=============================================================================
