--------------------------- MODULE BalancesProofs ---------------------------
(***************************************************************************)
(* Proofs about Balances, for any currencies and funds, any finite set of  *)
(* orders and either exchange: at rest a strategy has the balance of the   *)
(* exchange, unless the last news did not get through; and an order that   *)
(* has passed CheckOrder is covered, unless older news were read meanwhile *)
(* or orders are placed on the main thread.                                *)
(***************************************************************************)
EXTENDS Balances, FiniteSetTheorems, SequenceTheorems, WellFoundedInduction, TLAPS

-----------------------------------------------------------------------------
(* Sequences whose members have no type.                                   *)

IsSeq(s) == \E S : s \in Seq(S)

LEMMA SeqFacts ==
  ASSUME NEW s, IsSeq(s)
  PROVE  Len(s) \in Nat /\ DOMAIN s = 1 .. Len(s)
BY DEF IsSeq

LEMMA AppendFacts ==
  ASSUME NEW s, NEW e, IsSeq(s)
  PROVE  /\ IsSeq(Append(s, e)) /\ Len(Append(s, e)) = Len(s) + 1
         /\ Append(s, e)[Len(s) + 1] = e
         /\ \A i \in 1 .. Len(s) : Append(s, e)[i] = s[i]
<1>1. PICK S : s \in Seq(S)
  BY DEF IsSeq
<1>2. s \in Seq(S \cup {e})
  BY <1>1
<1>3. Append(s, e) \in Seq(S \cup {e})
  BY <1>2
<1>4. IsSeq(Append(s, e))
  BY <1>3 DEF IsSeq
<1>. QED  BY <1>2, <1>4

LEMMA TailFacts ==
  ASSUME NEW s, IsSeq(s), s # <<>>
  PROVE  /\ IsSeq(Tail(s)) /\ Len(s) >= 1 /\ Len(Tail(s)) = Len(s) - 1 /\ Head(s) = s[1]
         /\ \A i \in 1 .. Len(s) - 1 : Tail(s)[i] = s[i + 1]
<1>1. PICK S : s \in Seq(S)
  BY DEF IsSeq
<1>2. Tail(s) \in Seq(S) /\ Len(s) >= 1
  BY <1>1
<1>3. IsSeq(Tail(s))
  BY <1>2 DEF IsSeq
<1>. QED  BY <1>1, <1>2, <1>3

LEMMA ConcatFacts ==
  ASSUME NEW s, NEW t, IsSeq(s), IsSeq(t)
  PROVE  /\ IsSeq(s \o t) /\ Len(s \o t) = Len(s) + Len(t)
         /\ \A i \in 1 .. Len(s) : (s \o t)[i] = s[i]
         /\ \A i \in 1 .. Len(t) : (s \o t)[Len(s) + i] = t[i]
<1>1. PICK S : s \in Seq(S)
  BY DEF IsSeq
<1>2. PICK T : t \in Seq(T)
  BY DEF IsSeq
<1>3. s \in Seq(S \cup T) /\ t \in Seq(S \cup T)
  BY <1>1, <1>2
<1>4. s \o t \in Seq(S \cup T)
  BY <1>3
<1>5. IsSeq(s \o t)
  BY <1>4 DEF IsSeq
<1>. QED  BY <1>3, <1>5

LEMMA FunctionIsSeq ==
  ASSUME NEW n \in Nat, NEW t, t = [i \in 1 .. n |-> t[i]]
  PROVE  IsSeq(t) /\ Len(t) = n
<1>. DEFINE S == {t[i] : i \in 1 .. n}
<1>1. t \in [1 .. n -> S]
  OBVIOUS
<1>. HIDE DEF S
<1>2. t \in Seq(S)
  BY <1>1, SeqDef
<1>3. IsSeq(t)
  BY <1>2 DEF IsSeq
<1>. QED  BY <1>1, <1>2, <1>3, LenProperties

-----------------------------------------------------------------------------
(* What the orders of a set cost.                                          *)

IsCost(f, S) ==
  /\ f \in [SUBSET S -> Nat] /\ f[{}] = 0
  /\ \A T \in SUBSET S : \A o \in S \ T : f[T \cup {o}] = f[T] + o.cost

LEMMA CostMore ==
  ASSUME NEW S, NEW x, x \notin S, \A o \in S \cup {x} : o.cost \in Nat,
         NEW f, IsCost(f, S)
  PROVE  \E g : IsCost(g, S \cup {x})
<1>. DEFINE U == S \cup {x}
            g == [T \in SUBSET U |-> IF x \in T THEN f[T \ {x}] + x.cost ELSE f[T]]
<1>1. \A T \in SUBSET U : T \ {x} \in SUBSET S /\ (x \notin T => T \in SUBSET S)
  OBVIOUS
<1>2. f \in [SUBSET S -> Nat] /\ f[{}] = 0
      /\ \A T \in SUBSET S : \A o \in S \ T : f[T \cup {o}] = f[T] + o.cost
  BY DEF IsCost
<1>3. g \in [SUBSET U -> Nat]
  <2>1. ASSUME NEW T \in SUBSET U
        PROVE  (IF x \in T THEN f[T \ {x}] + x.cost ELSE f[T]) \in Nat
    <3>1. CASE x \in T
      <4>1. f[T \ {x}] \in Nat /\ x.cost \in Nat
        BY <1>1, <1>2
      <4>. QED  BY <3>1, <4>1
    <3>2. CASE x \notin T
      BY <1>1, <1>2, <3>2
    <3>. QED  BY <3>1, <3>2
  <2>. QED  BY <2>1
<1>4. g[{}] = 0
  BY <1>2
<1>5. ASSUME NEW T \in SUBSET U, NEW o \in U \ T
      PROVE  g[T \cup {o}] = g[T] + o.cost
  <2>1. /\ g[T] = IF x \in T THEN f[T \ {x}] + x.cost ELSE f[T]
        /\ g[T \cup {o}] = IF x \in T \cup {o} THEN f[(T \cup {o}) \ {x}] + x.cost
                           ELSE f[T \cup {o}]
    OBVIOUS
  <2>2. CASE o = x
    <3>1. (T \cup {o}) \ {x} = T
      BY <2>2
    <3>. QED  BY <2>1, <2>2, <3>1
  <2>3. CASE o # x /\ x \in T
    <3>1. (T \cup {o}) \ {x} = (T \ {x}) \cup {o}
      BY <2>3
    <3>2. T \ {x} \in SUBSET S /\ o \in S \ (T \ {x})
      BY <1>1, <2>3
    <3>3. f[(T \ {x}) \cup {o}] = f[T \ {x}] + o.cost
      BY <1>2, <3>2
    <3>4. f[T \ {x}] \in Nat /\ o.cost \in Nat /\ x.cost \in Nat
      BY <1>2, <3>2
    <3>5. g[T] = f[T \ {x}] + x.cost /\ g[T \cup {o}] = f[(T \ {x}) \cup {o}] + x.cost
      BY <2>1, <2>3, <3>1
    <3>. QED  BY <3>3, <3>4, <3>5
  <2>4. CASE o # x /\ x \notin T
    <3>1. T \in SUBSET S /\ o \in S \ T
      BY <1>1, <2>4
    <3>2. g[T] = f[T] /\ g[T \cup {o}] = f[T \cup {o}]
      BY <2>1, <2>4
    <3>. QED  BY <1>2, <3>1, <3>2
  <2>. QED  BY <2>2, <2>3, <2>4
<1>. HIDE DEF g
<1>6. IsCost(g, U)
  BY <1>3, <1>4, <1>5 DEF IsCost
<1>. QED  BY <1>6

(* By the least number of orders that have no cost: there is none. *)
LEMMA CostExists ==
  ASSUME NEW U, IsFiniteSet(U), \A o \in U : o.cost \in Nat
  PROVE  \E f : IsCost(f, U)
<1>. DEFINE Bad == {n \in Nat : \E S \in SUBSET U : Cardinality(S) = n /\ ~\E f : IsCost(f, S)}
<1>1. Bad \in SUBSET Nat
  OBVIOUS
<1>2. ASSUME Bad # {} PROVE FALSE
  <2>1. PICK n \in Bad : \A k \in Bad : ~ (<<k, n>> \in OpToRel(<, Nat))
    BY <1>1, <1>2, NatLessThanWellFounded, WFMin, Zenon
  <2>2. \A k \in Bad : ~ (k < n)
    BY <1>1, <2>1 DEF OpToRel
  <2>3. PICK S \in SUBSET U : Cardinality(S) = n /\ ~\E f : IsCost(f, S)
    BY <2>1
  <2>4. IsFiniteSet(S)
    BY FS_Subset
  <2>5. S # {}
    <3>1. ASSUME S = {} PROVE FALSE
      <4>. DEFINE z == [T \in SUBSET S |-> 0]
      <4>1. IsCost(z, S)
        BY <3>1 DEF IsCost
      <4>. QED  BY <2>3, <4>1
    <3>. QED  BY <3>1
  <2>6. PICK x \in S : TRUE
    BY <2>5
  <2>7. IsFiniteSet(S \ {x}) /\ Cardinality(S \ {x}) = Cardinality(S) - 1
    BY <2>4, FS_RemoveElement
  <2>8. n \in Nat /\ n - 1 \in Nat
    BY <2>1, <2>3, <2>7, FS_CardinalityType
  <2>9. n - 1 \notin Bad
    BY <2>2, <2>8
  <2>10. PICK f : IsCost(f, S \ {x})
    BY <2>3, <2>7, <2>8, <2>9
  <2>11. x \notin S \ {x} /\ (S \ {x}) \cup {x} = S
    OBVIOUS
  <2>12. \A o \in (S \ {x}) \cup {x} : o.cost \in Nat
    BY <2>11
  <2>13. \E g : IsCost(g, (S \ {x}) \cup {x})
    BY <2>10, <2>11, <2>12, CostMore
  <2>. QED  BY <2>3, <2>11, <2>13
<1>3. IsFiniteSet(U) /\ Cardinality(U) \in Nat
  BY FS_CardinalityType
<1>. QED  BY <1>2, <1>3

Cost == CHOOSE f : IsCost(f, Orders)

LEMMA CostFacts ==
  ASSUME BalancesAssumption
  PROVE  /\ Cost \in [SUBSET Orders -> Nat] /\ Cost[{}] = 0
         /\ \A T \in SUBSET Orders : \A o \in Orders \ T : Cost[T \cup {o}] = Cost[T] + o.cost
         /\ \A T \in SUBSET Orders : \A o \in T : Cost[T] = Cost[T \ {o}] + o.cost
<1>1. IsFiniteSet(Orders) /\ \A o \in Orders : o.cost \in Nat
  BY DEF BalancesAssumption, OrderType
<1>2. \E f : IsCost(f, Orders)
  BY <1>1, CostExists
<1>3. IsCost(Cost, Orders)
  BY <1>2, Zenon DEF Cost
<1>4. ASSUME NEW T \in SUBSET Orders, NEW o \in T PROVE Cost[T] = Cost[T \ {o}] + o.cost
  <2>1. T \ {o} \in SUBSET Orders /\ o \in Orders \ (T \ {o}) /\ (T \ {o}) \cup {o} = T
    OBVIOUS
  <2>. QED  BY <1>3, <2>1 DEF IsCost
<1>. QED  BY <1>3, <1>4 DEF IsCost

-----------------------------------------------------------------------------
(* The types the arguments need.                                           *)

Calling == {"loadFree", "storeFree", "loadFreezed", "storeFreezed"}
StrategyThreads == {"main", "data"}

(* What is set aside of a currency may be any value. *)
IsAmount(b) == b = [free |-> b.free, freezed |-> b.freezed] /\ b.free \in Nat
IsCurrencies(b) == b = [c \in Currencies |-> b[c]] /\ \A c \in Currencies : IsAmount(b[c])

DoingOK(t) ==
  \/ doing[t] = Idle
  \/ t = "data" /\ doing[t].pc = "told"
  \/ /\ t \in Callers /\ doing[t].pc \in Calling /\ doing[t].order \in Orders
     /\ Name(doing[t].order.pays) \in DOMAIN balance

Typed ==
  /\ exchange \in {"okex", "binance"}
  /\ IsCurrencies(bank) /\ events \in Nat
  /\ open \subseteq Orders \cup OldOrders /\ sent \subseteq Orders
  /\ handled \in [Currencies -> Nat] /\ placed \in [Currencies -> Nat]
  /\ framed \in [Currencies -> Nat]
  /\ IsSeq(stream) /\ IsSeq(frames)
  /\ balance = [x \in DOMAIN balance |-> balance[x]]
  /\ \A c \in Currencies : Name(c) \in DOMAIN balance =>
       balance[Name(c)] = [free |-> balance[Name(c)].free,
                           freezed |-> balance[Name(c)].freezed]
  /\ doing = [t \in StrategyThreads |-> doing[t]] /\ \A t \in StrategyThreads : DoingOK(t)

-----------------------------------------------------------------------------
(* The last news of a currency are what the exchange has.                  *)

NewsIn(c, i) == c \in DOMAIN stream[i].told
NoNews(c) == \A i \in DOMAIN stream : ~NewsIn(c, i)
FrameOf(c, i) == Name(c) \in DOMAIN frames[i].told
NoFrames(c) == \A i \in DOMAIN frames : ~FrameOf(c, i)

StreamOK ==
  \A i \in DOMAIN stream :
    /\ exchange = "binance" => DOMAIN stream[i].told = Currencies
    /\ exchange = "okex" => \E c \in Currencies : DOMAIN stream[i].told = {c}
    /\ stream[i].n \in Nat /\ stream[i].n <= events
    /\ \A c \in Currencies : framed[c] <= stream[i].n
    /\ \A j \in DOMAIN stream : i <= j => stream[i].n <= stream[j].n

LastNews(c) ==
  \A i \in DOMAIN stream :
    NewsIn(c, i) /\ (\A j \in DOMAIN stream : i < j => ~NewsIn(c, j)) =>
      stream[i].told[c] = bank[c]

(* An answer to the query that is not true any more is followed by news,   *)
(* or came after them. *)
AnswerOK ==
  /\ \A c \in Currencies : framed[c] <= events
  /\ account.is = "answered" =>
       /\ account.bank = [c \in Currencies |-> account.bank[c]]
       /\ account.n \in Nat /\ account.n <= events
       /\ exchange = "okex" =>
            \A c \in Currencies :
              \/ account.bank[c] = bank[c]
              \/ framed[c] > account.n
              \/ \E i \in DOMAIN stream : NewsIn(c, i) /\ stream[i].n > account.n

(* Nothing of it that moved the balance is under way. *)
Untouched(c) ==
  /\ \A o \in sent : o.pays # c
  /\ \A t \in StrategyThreads : doing[t].pc \in Calling => doing[t].order.pays # c

ToldOf(c) == doing["data"].pc = "told" /\ Name(c) \in DOMAIN doing["data"].f.told

LastFrame(c) ==
  \A i \in DOMAIN frames :
    FrameOf(c, i) /\ (\A j \in DOMAIN frames : i < j => ~FrameOf(c, j)) =>
      frames[i].told[Name(c)] = bank[c]
LastTold(c) ==
  ToldOf(c) => /\ Name(c) \in DOMAIN balance
               /\ doing["data"].f.told[Name(c)] = bank[c]
               /\ Untouched(c) => balance[Name(c)].free = bank[c].free
LastKnown(c) ==
  ~ToldOf(c) /\ Untouched(c) /\ Name(c) \in DOMAIN balance => balance[Name(c)] = bank[c]

GotThrough(c) ==
  NoNews(c) /\ c \notin unsettled =>
    /\ LastFrame(c)
    /\ NoFrames(c) => LastTold(c) /\ LastKnown(c)

SInv == Typed /\ StreamOK /\ AnswerOK /\ \A c \in Currencies : LastNews(c) /\ GotThrough(c)

-----------------------------------------------------------------------------
(* News.                                                                   *)

LEMMA Names ==
  /\ \A c, d : Name(c) = Name(d) => c = d
  /\ \A c, d : AsListed(c) = Name(d) => c = d /\ exchange = "okex"
  /\ \A c : exchange = "okex" => AsListed(c) = Name(c)
BY DEF Name, AsListed

(* What Changed puts at the end of the stream: each currency of cs is in   *)
(* what is new, and at Binance every other too. *)
IsNews(C, m) ==
  /\ m.told = [c \in C |-> bank'[c]] /\ m.n = events' /\ m.handled = handled'
  /\ C \subseteq Currencies

LEMMA ChangedFacts ==
  ASSUME Typed, NEW n \in {1, 2}, NEW cs, cs \in [1 .. n -> Currencies], Len(cs) = n,
    Changed(cs)
  PROVE  /\ IsSeq(stream') /\ Len(stream) \in Nat /\ Len(stream') \in Nat
         /\ Len(stream) < Len(stream')
         /\ DOMAIN stream = 1 .. Len(stream) /\ DOMAIN stream' = 1 .. Len(stream')
         /\ \A i \in DOMAIN stream : i \in DOMAIN stream' /\ stream'[i] = stream[i]
         /\ \A i \in DOMAIN stream' \ DOMAIN stream :
              /\ exchange = "binance" => IsNews(Currencies, stream'[i])
              /\ exchange = "okex" => \E c \in Currencies : IsNews({c}, stream'[i])
         /\ \A k \in 1 .. n : \E i \in DOMAIN stream' \ DOMAIN stream :
              cs[k] \in DOMAIN stream'[i].told
         /\ events' = events + 1
<1>1. IsSeq(stream) /\ Len(stream) \in Nat /\ DOMAIN stream = 1 .. Len(stream)
  BY SeqFacts DEF Typed
<1>2. events' = events + 1
  BY DEF Changed
<1>3. CASE exchange = "okex"
  <2>. DEFINE new == [i \in 1 .. n |-> Told({cs[i]})]
  <2>1. stream' = stream \o new
    BY <1>3 DEF Changed
  <2>2. IsSeq(new) /\ Len(new) = n
    BY FunctionIsSeq
  <2>3. \A i \in 1 .. n : IsNews({cs[i]}, new[i]) /\ cs[i] \in DOMAIN new[i].told
    BY DEF Told, IsNews
  <2>. HIDE DEF new
  <2>4. /\ IsSeq(stream') /\ Len(stream') = Len(stream) + n
        /\ \A i \in 1 .. Len(stream) : stream'[i] = stream[i]
        /\ \A i \in 1 .. n : stream'[Len(stream) + i] = new[i]
    BY <1>1, <2>1, <2>2, ConcatFacts
  <2>5. DOMAIN stream' = 1 .. Len(stream')
    BY <2>4, SeqFacts
  <2>6. \A i \in DOMAIN stream' \ DOMAIN stream :
          i - Len(stream) \in 1 .. n /\ stream'[i] = new[i - Len(stream)]
    <3>1. ASSUME NEW i \in DOMAIN stream' \ DOMAIN stream
          PROVE  i - Len(stream) \in 1 .. n /\ Len(stream) + (i - Len(stream)) = i
      BY <1>1, <2>4, <2>5
    <3>. QED  BY <2>4, <3>1
  <2>7. \A k \in 1 .. n : Len(stream) + k \in DOMAIN stream' \ DOMAIN stream
    BY <1>1, <2>4, <2>5
  <2>8. \A i \in DOMAIN stream' \ DOMAIN stream : \E c \in Currencies : IsNews({c}, stream'[i])
    BY <2>3, <2>6
  <2>9. \A k \in 1 .. n : \E i \in DOMAIN stream' \ DOMAIN stream :
          cs[k] \in DOMAIN stream'[i].told
    <3>1. ASSUME NEW k \in 1 .. n PROVE cs[k] \in DOMAIN stream'[Len(stream) + k].told
      BY <2>3, <2>4
    <3>. QED  BY <2>7, <3>1
  <2>10. \A i \in DOMAIN stream : i \in DOMAIN stream' /\ stream'[i] = stream[i]
    BY <1>1, <2>4, <2>5
  <2>11. Len(stream') \in Nat /\ Len(stream) < Len(stream')
    BY <1>1, <2>4
  <2>. QED  BY <1>1, <1>2, <1>3, <2>4, <2>5, <2>8, <2>9, <2>10, <2>11
<1>4. CASE exchange = "binance"
  <2>1. stream' = Append(stream, Told(Currencies))
    BY <1>4 DEF Changed
  <2>2. IsNews(Currencies, Told(Currencies)) /\ DOMAIN Told(Currencies).told = Currencies
    BY DEF Told, IsNews
  <2>3. /\ IsSeq(stream') /\ Len(stream') = Len(stream) + 1
        /\ \A i \in 1 .. Len(stream) : stream'[i] = stream[i]
        /\ stream'[Len(stream) + 1] = Told(Currencies)
    BY <1>1, <2>1, AppendFacts
  <2>4. DOMAIN stream' = 1 .. Len(stream')
    BY <2>3, SeqFacts
  <2>5. DOMAIN stream' \ DOMAIN stream = {Len(stream) + 1}
    BY <1>1, <2>3, <2>4
  <2>6. exchange # "okex"
    BY <1>4
  <2>. QED  BY <1>1, <1>2, <2>2, <2>3, <2>4, <2>5, <2>6
<1>. QED  BY <1>3, <1>4 DEF Typed

(* The account changes: what follows is in the stream. *)
LEMMA NewsStep ==
  ASSUME Typed, StreamOK, AnswerOK, \A c \in Currencies : LastNews(c),
         NEW n \in {1, 2}, NEW cs, cs \in [1 .. n -> Currencies], Len(cs) = n, Changed(cs),
         \A c \in Currencies : (\A k \in 1 .. n : cs[k] # c) => bank'[c] = bank[c],
         UNCHANGED <<exchange, theGateway, framed>>
  PROVE  /\ StreamOK' /\ AnswerOK' /\ \A c \in Currencies : LastNews(c)'
         /\ \A c \in Currencies : NoNews(c)' => NoNews(c) /\ bank'[c] = bank[c]
<1>1. /\ Len(stream) \in Nat /\ Len(stream') \in Nat /\ Len(stream) < Len(stream')
      /\ DOMAIN stream = 1 .. Len(stream) /\ DOMAIN stream' = 1 .. Len(stream')
      /\ \A i \in DOMAIN stream : i \in DOMAIN stream' /\ stream'[i] = stream[i]
      /\ events' = events + 1
  BY ChangedFacts
<1>2. \A i \in DOMAIN stream' \ DOMAIN stream :
        /\ exchange = "binance" => IsNews(Currencies, stream'[i])
        /\ exchange = "okex" => \E c \in Currencies : IsNews({c}, stream'[i])
  BY ChangedFacts
<1>3. \A k \in 1 .. n : \E i \in DOMAIN stream' \ DOMAIN stream :
        cs[k] \in DOMAIN stream'[i].told
  BY ChangedFacts
<1>4. exchange \in {"okex", "binance"} /\ exchange' = exchange /\ framed' = framed
      /\ account' = account /\ events \in Nat /\ framed \in [Currencies -> Nat]
  BY DEF Typed, theGateway
<1>5. \A i \in DOMAIN stream' \ DOMAIN stream :
        /\ stream'[i].n = events + 1
        /\ \A c \in DOMAIN stream'[i].told : stream'[i].told[c] = bank'[c]
        /\ exchange = "binance" => DOMAIN stream'[i].told = Currencies
        /\ exchange = "okex" => \E c \in Currencies : DOMAIN stream'[i].told = {c}
  <2>1. ASSUME NEW i \in DOMAIN stream' \ DOMAIN stream, exchange = "binance"
        PROVE  /\ stream'[i].n = events + 1
               /\ \A c \in DOMAIN stream'[i].told : stream'[i].told[c] = bank'[c]
               /\ DOMAIN stream'[i].told = Currencies
    <3>1. IsNews(Currencies, stream'[i])
      BY <1>2, <2>1
    <3>2. stream'[i].told = [c \in Currencies |-> bank'[c]] /\ stream'[i].n = events'
      BY <3>1 DEF IsNews
    <3>3. DOMAIN stream'[i].told = Currencies
      BY <3>2
    <3>4. \A c \in Currencies : stream'[i].told[c] = bank'[c]
      BY <3>2
    <3>. QED  BY <1>1, <3>2, <3>3, <3>4
  <2>2. ASSUME NEW i \in DOMAIN stream' \ DOMAIN stream, exchange = "okex"
        PROVE  /\ stream'[i].n = events + 1
               /\ \A c \in DOMAIN stream'[i].told : stream'[i].told[c] = bank'[c]
               /\ \E c \in Currencies : DOMAIN stream'[i].told = {c}
    <3>1. PICK d \in Currencies : IsNews({d}, stream'[i])
      BY <1>2, <2>2
    <3>. QED  BY <1>1, <3>1 DEF IsNews
  <2>. QED  BY <1>4, <2>1, <2>2
<1>6. \A i \in DOMAIN stream : \A j \in DOMAIN stream' \ DOMAIN stream : i < j /\ ~(j <= i)
  BY <1>1
<1>7. StreamOK'
  <2>1. ASSUME NEW i \in DOMAIN stream'
        PROVE  /\ exchange = "binance" => DOMAIN stream'[i].told = Currencies
               /\ exchange = "okex" => \E c \in Currencies : DOMAIN stream'[i].told = {c}
               /\ stream'[i].n \in Nat /\ stream'[i].n <= events'
               /\ \A c \in Currencies : framed[c] <= stream'[i].n
    <3>1. CASE i \in DOMAIN stream
      BY <1>1, <1>4, <3>1 DEF StreamOK
    <3>2. CASE i \notin DOMAIN stream
      BY <1>1, <1>4, <1>5, <3>2 DEF AnswerOK
    <3>. QED  BY <3>1, <3>2
  <2>2. ASSUME NEW i \in DOMAIN stream', NEW j \in DOMAIN stream', i <= j
        PROVE  stream'[i].n <= stream'[j].n
    <3>1. CASE i \in DOMAIN stream /\ j \in DOMAIN stream
      BY <1>1, <2>2, <3>1 DEF StreamOK
    <3>2. CASE j \notin DOMAIN stream
      BY <1>1, <1>5, <2>1, <3>2
    <3>3. CASE i \notin DOMAIN stream /\ j \in DOMAIN stream
      BY <1>6, <2>2, <3>3
    <3>. QED  BY <3>1, <3>2, <3>3
  <2>. QED  BY <1>4, <2>1, <2>2 DEF StreamOK
<1>8. ASSUME NEW c \in Currencies, \A i \in DOMAIN stream' \ DOMAIN stream : ~NewsIn(c, i)'
      PROVE  bank'[c] = bank[c]
  BY <1>3, <1>8 DEF NewsIn
<1>9. \A i \in DOMAIN stream : \A c : NewsIn(c, i)' <=> NewsIn(c, i)
  BY <1>1 DEF NewsIn
<1>10. AnswerOK'
  <2>1. ASSUME account.is = "answered", exchange = "okex", NEW c \in Currencies,
               account.n \in Nat, account.n <= events,
               \/ account.bank[c] = bank[c]
               \/ framed[c] > account.n
               \/ \E i \in DOMAIN stream : NewsIn(c, i) /\ stream[i].n > account.n
        PROVE  \/ account.bank[c] = bank'[c]
               \/ framed[c] > account.n
               \/ \E i \in DOMAIN stream' : NewsIn(c, i)' /\ stream'[i].n > account.n
    <3>1. CASE \E i \in DOMAIN stream' \ DOMAIN stream : NewsIn(c, i)'
      BY <1>4, <1>5, <2>1, <3>1
    <3>2. CASE \A i \in DOMAIN stream' \ DOMAIN stream : ~NewsIn(c, i)'
      BY <1>1, <1>8, <1>9, <2>1, <3>2
    <3>. QED  BY <3>1, <3>2
  <2>2. \A c \in Currencies : framed[c] <= events'
    BY <1>1, <1>4 DEF AnswerOK
  <2>3. account.is = "answered" =>
          account.n \in Nat /\ account.n <= events /\ account.n <= events'
    BY <1>1, <1>4 DEF AnswerOK
  <2>. QED  BY <1>4, <2>1, <2>2, <2>3 DEF AnswerOK
<1>11. ASSUME NEW c \in Currencies PROVE LastNews(c)'
  <2>1. SUFFICES ASSUME NEW i \in DOMAIN stream', NewsIn(c, i)',
                        \A j \in DOMAIN stream' : i < j => ~NewsIn(c, j)'
                 PROVE  stream'[i].told[c] = bank'[c]
    BY DEF LastNews, NewsIn
  <2>2. CASE i \notin DOMAIN stream
    BY <1>5, <2>1, <2>2 DEF NewsIn
  <2>3. CASE i \in DOMAIN stream
    <3>1. bank'[c] = bank[c]
      BY <1>6, <1>8, <2>1, <2>3
    <3>2. NewsIn(c, i) /\ \A j \in DOMAIN stream : i < j => ~NewsIn(c, j)
      BY <1>1, <1>9, <2>1, <2>3
    <3>. QED  BY <1>1, <2>3, <3>1, <3>2 DEF LastNews
  <2>. QED  BY <2>2, <2>3
<1>12. ASSUME NEW c \in Currencies, NoNews(c)' PROVE NoNews(c) /\ bank'[c] = bank[c]
  <2>1. \A i \in DOMAIN stream' : ~NewsIn(c, i)'
    BY <1>12 DEF NoNews, NewsIn
  <2>. QED  BY <1>1, <1>8, <1>9, <2>1 DEF NoNews
<1>. QED  BY <1>7, <1>10, <1>11, <1>12

LEMMA AfterNews ==
  ASSUME SInv, NEW n \in {1, 2}, NEW cs, cs \in [1 .. n -> Currencies], Len(cs) = n,
    Changed(cs),
         \A c \in Currencies : (\A k \in 1 .. n : cs[k] # c) => bank'[c] = bank[c],
         IsCurrencies(bank)', open' \subseteq Orders \cup OldOrders, sent' \subseteq sent,
         \A o \in sent \ sent' : \E k \in 1 .. n : cs[k] = o.pays,
         handled' \in [Currencies -> Nat],
         UNCHANGED <<exchange, theGateway, theStrategy, remembered>>
  PROVE  SInv'
<1>1. /\ exchange' = exchange /\ frames' = frames /\ balance' = balance /\ doing' = doing
      /\ placed' = placed /\ framed' = framed /\ unsettled' = unsettled
      /\ UNCHANGED <<exchange, theGateway, framed>>
  BY DEF theGateway, theStrategy, remembered
<1>2. Typed /\ StreamOK /\ AnswerOK /\ \A c \in Currencies : LastNews(c) /\ GotThrough(c)
  BY DEF SInv
<1>3. /\ StreamOK' /\ AnswerOK' /\ \A c \in Currencies : LastNews(c)'
      /\ \A c \in Currencies : NoNews(c)' => NoNews(c) /\ bank'[c] = bank[c]
  BY <1>1, <1>2, NewsStep
<1>4. /\ IsSeq(stream') /\ events' = events + 1
      /\ \A k \in 1 .. n : \E i \in DOMAIN stream' \ DOMAIN stream :
           cs[k] \in DOMAIN stream'[i].told
  BY <1>2, ChangedFacts
<1>5. \A t \in StrategyThreads : DoingOK(t) => DoingOK(t)'
  BY <1>1 DEF DoingOK
<1>6. Typed'
  BY <1>1, <1>2, <1>4, <1>5 DEF Typed
<1>7. ASSUME NEW c \in Currencies, NoNews(c)', Untouched(c)'
      PROVE  Untouched(c)
  <2>1. \A k \in 1 .. n : cs[k] # c
    BY <1>4, <1>7 DEF NoNews, NewsIn
  <2>2. \A o \in sent : o.pays # c
    BY <1>7, <2>1 DEF Untouched
  <2>. QED  BY <1>1, <1>7, <2>2 DEF Untouched
<1>8. ASSUME NEW c \in Currencies PROVE GotThrough(c)'
  <2>1. SUFFICES ASSUME NoNews(c)', c \notin unsettled'
                 PROVE  /\ LastFrame(c)'
                        /\ NoFrames(c)' => LastTold(c)' /\ LastKnown(c)'
    BY DEF GotThrough
  <2>2. NoNews(c) /\ bank'[c] = bank[c] /\ c \notin unsettled
    BY <1>1, <1>3, <2>1
  <2>3. LastFrame(c) /\ (NoFrames(c) => LastTold(c) /\ LastKnown(c))
    BY <1>2, <2>2 DEF GotThrough
  <2>4. LastFrame(c)' /\ (NoFrames(c)' => NoFrames(c))
    BY <1>1, <2>2, <2>3 DEF LastFrame, FrameOf, NoFrames
  <2>5. LastTold(c) => LastTold(c)'
    BY <1>1, <1>7, <2>1, <2>2 DEF LastTold, ToldOf
  <2>6. LastKnown(c) => LastKnown(c)'
    BY <1>1, <1>7, <2>1, <2>2 DEF LastKnown, ToldOf
  <2>. QED  BY <2>3, <2>4, <2>5, <2>6
<1>. QED  BY <1>3, <1>6, <1>8 DEF SInv

LEMMA MoveFacts ==
  ASSUME IsCurrencies(bank), NEW c \in Currencies, NEW x \in Int, NEW y \in Int,
         bank[c].free + x \in Nat
  PROVE  /\ Move(c, x, y) = [d \in Currencies |-> Move(c, x, y)[d]]
         /\ \A d \in Currencies : IsAmount(Move(c, x, y)[d])
         /\ \A d \in Currencies : d # c => Move(c, x, y)[d] = bank[d]
         /\ Move(c, x, y)[c].free = bank[c].free + x
<1>1. bank = [d \in Currencies |-> bank[d]] /\ \A d \in Currencies : IsAmount(bank[d])
  BY DEF IsCurrencies
<1>2. bank[c] = [free |-> bank[c].free, freezed |-> bank[c].freezed]
  BY <1>1 DEF IsAmount
<1>3. DOMAIN bank = Currencies
  BY <1>1
<1>4. Move(c, x, y) = [d \in Currencies |-> Move(c, x, y)[d]]
  BY <1>3 DEF Move
<1>5. Move(c, x, y)[c] = [free |-> bank[c].free + x, freezed |-> bank[c].freezed + y]
  BY <1>2, <1>3 DEF Move
<1>6. \A d \in Currencies : d # c => Move(c, x, y)[d] = bank[d]
  BY <1>3 DEF Move
<1>7. IsAmount(Move(c, x, y)[c])
  BY <1>5 DEF IsAmount
<1>. QED  BY <1>1, <1>4, <1>5, <1>6, <1>7

LEMMA OrderFacts ==
  ASSUME BalancesAssumption, NEW o \in Orders \cup OldOrders
  PROVE  o.pays \in Currencies /\ o.gets \in Currencies /\ o.cost \in Nat /\ o.gain \in Nat
BY DEF BalancesAssumption, OrderType

LEMMA AcceptStep ==
  ASSUME BalancesAssumption, SInv, NEW o, Accept(o)
  PROVE  SInv'
<1>1. o \in Orders /\ o.pays \in Currencies /\ o.cost \in Nat
  BY OrderFacts DEF SInv, Typed, Accept
<1>. DEFINE cs == <<o.pays>>
<1>2. cs \in [1 .. 1 -> Currencies] /\ Len(cs) = 1 /\ cs[1] = o.pays
  BY <1>1
<1>3. IsCurrencies(bank) /\ bank[o.pays].free \in Nat
  BY <1>1 DEF SInv, Typed, IsCurrencies, IsAmount
<1>4. bank[o.pays].free + (-o.cost) \in Nat /\ -o.cost \in Int
  BY <1>1, <1>3 DEF Accept
<1>5. bank' = Move(o.pays, -o.cost, o.cost)
  BY DEF Accept
<1>6. IsCurrencies(bank)' /\ \A d \in Currencies : d # o.pays => bank'[d] = bank[d]
  BY <1>1, <1>3, <1>4, <1>5, MoveFacts DEF IsCurrencies
<1>7. handled' \in [Currencies -> Nat]
  BY <1>1 DEF Accept, SInv, Typed
<1>8. /\ open' \subseteq Orders \cup OldOrders /\ sent' \subseteq sent
      /\ \A d \in sent \ sent' : \E k \in 1 .. 1 : cs[k] = d.pays
  BY <1>1, <1>2 DEF Accept, SInv, Typed
<1>9. Changed(cs) /\ UNCHANGED <<exchange, theGateway, theStrategy, remembered>>
  BY DEF Accept
<1>10. \A c \in Currencies : (\A k \in 1 .. 1 : cs[k] # c) => bank'[c] = bank[c]
  BY <1>2, <1>6
<1>. HIDE DEF cs
<1>. QED  BY <1>2, <1>6, <1>7, <1>8, <1>9, <1>10, AfterNews

LEMMA CancelStep ==
  ASSUME BalancesAssumption, SInv, NEW o \in Orders \cup OldOrders, Cancel(o)
  PROVE  SInv'
<1>1. o.pays \in Currencies /\ o.cost \in Nat
  BY OrderFacts
<1>. DEFINE cs == <<o.pays>>
<1>2. cs \in [1 .. 1 -> Currencies] /\ Len(cs) = 1 /\ cs[1] = o.pays
  BY <1>1
<1>3. IsCurrencies(bank) /\ bank[o.pays].free \in Nat
  BY <1>1 DEF SInv, Typed, IsCurrencies, IsAmount
<1>4. bank[o.pays].free + o.cost \in Nat /\ -o.cost \in Int /\ o.cost \in Int
  BY <1>1, <1>3
<1>5. bank' = Move(o.pays, o.cost, -o.cost)
  BY DEF Cancel
<1>6. IsCurrencies(bank)' /\ \A d \in Currencies : d # o.pays => bank'[d] = bank[d]
  BY <1>1, <1>3, <1>4, <1>5, MoveFacts DEF IsCurrencies
<1>7. handled' \in [Currencies -> Nat]
  BY DEF Cancel, SInv, Typed
<1>8. /\ open' \subseteq Orders \cup OldOrders /\ sent' \subseteq sent
      /\ \A d \in sent \ sent' : \E k \in 1 .. 1 : cs[k] = d.pays
  BY DEF Cancel, SInv, Typed
<1>9. Changed(cs) /\ UNCHANGED <<exchange, theGateway, theStrategy, remembered>>
  BY DEF Cancel
<1>10. \A c \in Currencies : (\A k \in 1 .. 1 : cs[k] # c) => bank'[c] = bank[c]
  BY <1>2, <1>6
<1>. HIDE DEF cs
<1>. QED  BY <1>2, <1>6, <1>7, <1>8, <1>9, <1>10, AfterNews

LEMMA FillStep ==
  ASSUME BalancesAssumption, SInv, NEW o \in Orders \cup OldOrders, Fill(o)
  PROVE  SInv'
<1>1. o.pays \in Currencies /\ o.gets \in Currencies /\ o.cost \in Nat /\ o.gain \in Nat
  BY OrderFacts
<1>. DEFINE cs == <<o.pays, o.gets>>
            paid == Move(o.pays, 0, -o.cost)
<1>2. cs \in [1 .. 2 -> Currencies] /\ Len(cs) = 2 /\ cs[1] = o.pays /\ cs[2] = o.gets
  BY <1>1
<1>3. IsCurrencies(bank) /\ bank[o.pays].free \in Nat
  BY <1>1 DEF SInv, Typed, IsCurrencies, IsAmount
<1>4. bank[o.pays].free + 0 \in Nat /\ -o.cost \in Int
  BY <1>1, <1>3
<1>5. /\ paid = [d \in Currencies |-> paid[d]] /\ \A d \in Currencies : IsAmount(paid[d])
      /\ \A d \in Currencies : d # o.pays => paid[d] = bank[d]
  BY <1>1, <1>3, <1>4, MoveFacts
<1>6. bank' = [paid EXCEPT ![o.gets].free = @ + o.gain]
  BY DEF Fill
<1>. HIDE DEF paid
<1>7. /\ bank' = [d \in Currencies |-> bank'[d]]
      /\ \A d \in Currencies : d # o.gets => bank'[d] = paid[d]
      /\ bank'[o.gets] = [free |-> paid[o.gets].free + o.gain, freezed |-> paid[o.gets].freezed]
  <2>1. paid[o.gets] = [free |-> paid[o.gets].free, freezed |-> paid[o.gets].freezed]
    BY <1>1, <1>5 DEF IsAmount
  <2>2. bank' = [d \in Currencies |-> IF d = o.gets THEN [paid[d] EXCEPT !.free = @ + o.gain]
                                      ELSE paid[d]]
    BY <1>1, <1>5, <1>6
  <2>. QED  BY <1>1, <2>1, <2>2
<1>8. IsAmount(bank'[o.gets])
  BY <1>1, <1>5, <1>7 DEF IsAmount
<1>9. IsCurrencies(bank)'
  BY <1>1, <1>5, <1>7, <1>8 DEF IsCurrencies
<1>10. \A d \in Currencies : d # o.pays /\ d # o.gets => bank'[d] = bank[d]
  BY <1>5, <1>7
<1>11. handled' \in [Currencies -> Nat]
  BY DEF Fill, SInv, Typed
<1>12. /\ open' \subseteq Orders \cup OldOrders /\ sent' \subseteq sent
       /\ \A d \in sent \ sent' : \E k \in 1 .. 2 : cs[k] = d.pays
  BY DEF Fill, SInv, Typed
<1>13. Changed(cs) /\ UNCHANGED <<exchange, theGateway, theStrategy, remembered>>
  BY DEF Fill
<1>14. \A c \in Currencies : (\A k \in 1 .. 2 : cs[k] # c) => bank'[c] = bank[c]
  BY <1>2, <1>10
<1>. HIDE DEF cs
<1>. QED  BY <1>2, <1>9, <1>11, <1>12, <1>13, <1>14, AfterNews

(* A refused order is news that does not get through. *)
LEMMA RefuseStep ==
  ASSUME BalancesAssumption, SInv, NEW o, Refuse(o)
  PROVE  SInv'
<1>1. o \in Orders /\ o.pays \in Currencies
  BY OrderFacts DEF SInv, Typed, Refuse
<1>2. /\ UNCHANGED <<exchange, bank, open, events, stream, account, lastTime, frames, balance,
                     doing, placed, framed>>
      /\ sent' = sent \ {o} /\ unsettled' = unsettled \cup {o.pays}
  BY DEF Refuse, theGateway, theStrategy
<1>3. \A t \in StrategyThreads : DoingOK(t) => DoingOK(t)'
  BY <1>2 DEF DoingOK
<1>4. handled' \in [Currencies -> Nat]
  BY <1>1 DEF Refuse, SInv, Typed
<1>5. Typed'
  BY <1>2, <1>3, <1>4 DEF SInv, Typed
<1>6. StreamOK' /\ AnswerOK' /\ \A c \in Currencies : LastNews(c)'
  BY <1>2 DEF SInv, StreamOK, AnswerOK, LastNews, NewsIn
<1>7. ASSUME NEW c \in Currencies PROVE GotThrough(c)'
  <2>1. SUFFICES ASSUME NoNews(c)', c \notin unsettled'
                 PROVE  /\ LastFrame(c)'
                        /\ NoFrames(c)' => LastTold(c)' /\ LastKnown(c)'
    BY DEF GotThrough
  <2>2. NoNews(c) /\ c \notin unsettled /\ c # o.pays
    BY <1>2, <2>1 DEF NoNews, NewsIn
  <2>3. LastFrame(c) /\ (NoFrames(c) => LastTold(c) /\ LastKnown(c))
    BY <2>2 DEF SInv, GotThrough
  <2>4. LastFrame(c)' /\ (NoFrames(c)' => NoFrames(c))
    BY <1>2, <2>3 DEF LastFrame, FrameOf, NoFrames
  <2>5. Untouched(c)' => Untouched(c)
    BY <1>2, <2>2 DEF Untouched
  <2>6. (LastTold(c) => LastTold(c)') /\ (LastKnown(c) => LastKnown(c)')
    BY <1>2, <2>5 DEF LastTold, LastKnown, ToldOf
  <2>. QED  BY <2>3, <2>4, <2>6
<1>. QED  BY <1>5, <1>6, <1>7 DEF SInv

LEMMA AnswerStep ==
  ASSUME BalancesAssumption, SInv, AnswerQuery
  PROVE  SInv'
<1>1. /\ UNCHANGED <<exchange, bank, open, events, handled, stream, frames, balance,
                     doing, placed, sent, framed, unsettled>>
      /\ account' = [is |-> "answered", bank |-> bank, n |-> events, handled |-> handled]
  BY DEF AnswerQuery, theExchange, theStrategy, remembered
<1>2. \A t \in StrategyThreads : DoingOK(t) => DoingOK(t)'
  BY <1>1 DEF DoingOK
<1>3. Typed'
  BY <1>1, <1>2 DEF SInv, Typed
<1>4. StreamOK' /\ \A c \in Currencies : LastNews(c)'
  BY <1>1 DEF SInv, StreamOK, LastNews, NewsIn
<1>5. AnswerOK'
  BY <1>1 DEF SInv, AnswerOK, Typed, IsCurrencies
<1>6. \A c \in Currencies : GotThrough(c)'
  BY <1>1 DEF SInv, GotThrough, NoNews, NewsIn, LastFrame, FrameOf, NoFrames, LastTold,
              LastKnown, ToldOf, Untouched
<1>. QED  BY <1>3, <1>4, <1>5, <1>6 DEF SInv

(* The first message of the stream is read. *)
LEMMA ReadFacts ==
  ASSUME SInv, stream # <<>>, stream' = Tail(stream),
    UNCHANGED <<exchange, bank, events, account>>,
         framed' \in [Currencies -> Nat],
         \A c \in Currencies : framed'[c] = framed[c] \/ framed'[c] = stream[1].n,
         \A c \in Currencies : exchange = "okex" /\ NewsIn(c, 1) => framed'[c] = stream[1].n
  PROVE  /\ StreamOK' /\ AnswerOK' /\ \A c \in Currencies : LastNews(c)'
         /\ IsSeq(stream') /\ 1 \in DOMAIN stream /\ Head(stream) = stream[1]
         /\ \A c \in Currencies : NoNews(c)' /\ ~NewsIn(c, 1) => NoNews(c)
         /\ \A c \in Currencies : NoNews(c)' /\ NewsIn(c, 1) => stream[1].told[c] = bank[c]
<1>1. Typed /\ StreamOK /\ AnswerOK /\ \A c \in Currencies : LastNews(c)
  BY DEF SInv
<1>2. /\ IsSeq(stream) /\ Len(stream) \in Nat /\ DOMAIN stream = 1 .. Len(stream)
      /\ framed \in [Currencies -> Nat] /\ events \in Nat
  BY <1>1, SeqFacts DEF Typed
<1>3. /\ IsSeq(stream') /\ Len(stream) >= 1 /\ Len(stream') = Len(stream) - 1
      /\ Head(stream) = stream[1]
      /\ \A i \in 1 .. Len(stream) - 1 : stream'[i] = stream[i + 1]
  BY <1>2, TailFacts
<1>4. DOMAIN stream' = 1 .. Len(stream') /\ 1 \in DOMAIN stream
  BY <1>2, <1>3, SeqFacts
<1>5. \A i \in DOMAIN stream' : i + 1 \in DOMAIN stream /\ stream'[i] = stream[i + 1]
  BY <1>2, <1>3, <1>4
<1>6. \A i \in DOMAIN stream : i # 1 => i - 1 \in DOMAIN stream' /\ stream'[i - 1] = stream[i]
  <2>1. ASSUME NEW i \in DOMAIN stream, i # 1
        PROVE  i - 1 \in 1 .. Len(stream) - 1 /\ (i - 1) + 1 = i
    BY <1>2, <2>1
  <2>. QED  BY <1>3, <1>4, <2>1
<1>7. \A i \in DOMAIN stream' : \A c : NewsIn(c, i)' <=> NewsIn(c, i + 1)
  BY <1>5 DEF NewsIn
<1>8. \A i \in DOMAIN stream : stream[1].n <= stream[i].n /\ stream[i].n \in Nat
  BY <1>1, <1>2, <1>4 DEF StreamOK
<1>9. StreamOK'
  <2>1. ASSUME NEW i \in DOMAIN stream', NEW c \in Currencies
        PROVE  framed'[c] <= stream'[i].n
    BY <1>1, <1>5, <1>8 DEF StreamOK
  <2>2. ASSUME NEW i \in DOMAIN stream'
        PROVE  /\ exchange = "binance" => DOMAIN stream'[i].told = Currencies
               /\ exchange = "okex" => \E c \in Currencies : DOMAIN stream'[i].told = {c}
               /\ stream'[i].n \in Nat /\ stream'[i].n <= events
    BY <1>1, <1>5 DEF StreamOK
  <2>3. ASSUME NEW i \in DOMAIN stream', NEW j \in DOMAIN stream', i <= j
        PROVE  stream'[i].n <= stream'[j].n
    <3>1. i + 1 <= j + 1
      BY <1>4, <2>3
    <3>. QED  BY <1>1, <1>5, <3>1 DEF StreamOK
  <2>. QED  BY <2>1, <2>2, <2>3 DEF StreamOK
<1>10. AnswerOK'
  <2>1. \A c \in Currencies : framed[c] <= stream[1].n /\ stream[1].n <= events
    BY <1>1, <1>4 DEF StreamOK
  <2>2. \A c \in Currencies : framed[c] <= framed'[c] /\ framed'[c] <= events
    BY <1>1, <1>2, <1>8, <2>1 DEF AnswerOK
  <2>3. ASSUME account.is = "answered", exchange = "okex", NEW c \in Currencies,
               account.n \in Nat,
               \/ account.bank[c] = bank[c]
               \/ framed[c] > account.n
               \/ \E i \in DOMAIN stream : NewsIn(c, i) /\ stream[i].n > account.n
        PROVE  \/ account.bank[c] = bank[c]
               \/ framed'[c] > account.n
               \/ \E i \in DOMAIN stream' : NewsIn(c, i)' /\ stream'[i].n > account.n
    <3>1. CASE framed[c] > account.n
      BY <1>2, <2>2, <2>3, <3>1
    <3>2. ASSUME NEW i \in DOMAIN stream, NewsIn(c, i), stream[i].n > account.n
          PROVE  framed'[c] > account.n
                 \/ \E k \in DOMAIN stream' : NewsIn(c, k)' /\ stream'[k].n > account.n
      <4>1. CASE i = 1
        BY <2>3, <3>2, <4>1
      <4>2. CASE i # 1
        BY <1>2, <1>6, <1>7, <3>2, <4>2 DEF NewsIn
      <4>. QED  BY <4>1, <4>2
    <3>. QED  BY <2>3, <3>1, <3>2
  <2>4. account.is = "answered" => account.n \in Nat
    BY <1>1 DEF AnswerOK
  <2>. QED  BY <1>1, <2>2, <2>3, <2>4 DEF AnswerOK
<1>11. ASSUME NEW c \in Currencies PROVE LastNews(c)'
  <2>1. SUFFICES ASSUME NEW i \in DOMAIN stream', NewsIn(c, i)',
                        \A j \in DOMAIN stream' : i < j => ~NewsIn(c, j)'
                 PROVE  stream'[i].told[c] = bank[c]
    BY DEF LastNews, NewsIn
  <2>2. NewsIn(c, i + 1)
    BY <1>7, <2>1
  <2>3. ASSUME NEW j \in DOMAIN stream, i + 1 < j PROVE ~NewsIn(c, j)
    <3>1. j # 1 /\ i < j - 1
      BY <1>2, <1>4, <2>3
    <3>. QED  BY <1>6, <2>1, <3>1 DEF NewsIn
  <2>. QED  BY <1>1, <1>5, <2>2, <2>3 DEF LastNews
<1>12. ASSUME NEW c \in Currencies, NoNews(c)'
       PROVE  \A i \in DOMAIN stream : i # 1 => ~NewsIn(c, i)
  BY <1>6, <1>12 DEF NoNews, NewsIn
<1>13. \A c \in Currencies : NoNews(c)' /\ ~NewsIn(c, 1) => NoNews(c)
  BY <1>12 DEF NoNews
<1>14. ASSUME NEW c \in Currencies, NoNews(c)', NewsIn(c, 1)
       PROVE  stream[1].told[c] = bank[c]
  <2>1. \A i \in DOMAIN stream : 1 < i => ~NewsIn(c, i)
    BY <1>2, <1>12, <1>14
  <2>. QED  BY <1>1, <1>4, <1>14, <2>1 DEF LastNews
<1>. QED  BY <1>3, <1>4, <1>9, <1>10, <1>11, <1>13, <1>14

(* Frames are written after those there are: new does not mention c, or    *)
(* what it says of c is true. *)
LEMMA FramesFacts ==
  ASSUME IsSeq(frames), NEW new, IsSeq(new), frames' = frames \o new,
         UNCHANGED bank, NEW c \in Currencies,
         \A i \in DOMAIN new : Name(c) \in DOMAIN new[i].told => new[i].told[Name(c)] = bank[c],
         LastFrame(c) \/ \E i \in DOMAIN new : Name(c) \in DOMAIN new[i].told
  PROVE  /\ IsSeq(frames') /\ LastFrame(c)'
         /\ NoFrames(c)' => NoFrames(c) /\
              \A i \in DOMAIN new : Name(c) \notin DOMAIN new[i].told
<1>1. /\ Len(frames) \in Nat /\ DOMAIN frames = 1 .. Len(frames)
      /\ Len(new) \in Nat /\ DOMAIN new = 1 .. Len(new)
  BY SeqFacts
<1>2. /\ IsSeq(frames') /\ Len(frames') = Len(frames) + Len(new)
      /\ \A i \in 1 .. Len(frames) : frames'[i] = frames[i]
      /\ \A i \in 1 .. Len(new) : frames'[Len(frames) + i] = new[i]
  BY ConcatFacts
<1>3. DOMAIN frames' = 1 .. Len(frames')
  BY <1>2, SeqFacts
<1>4. \A i \in DOMAIN frames : i \in DOMAIN frames' /\ frames'[i] = frames[i]
  BY <1>1, <1>2, <1>3
<1>5. \A i \in DOMAIN new : Len(frames) + i \in DOMAIN frames' /\
        frames'[Len(frames) + i] = new[i]
  BY <1>1, <1>2, <1>3
<1>6. ASSUME NEW i \in DOMAIN frames', i \notin DOMAIN frames
      PROVE  i - Len(frames) \in DOMAIN new /\ frames'[i] = new[i - Len(frames)]
  <2>1. i - Len(frames) \in DOMAIN new /\ Len(frames) + (i - Len(frames)) = i
    BY <1>1, <1>2, <1>3, <1>6
  <2>. QED  BY <1>5, <2>1
<1>7. LastFrame(c)'
  <2>1. SUFFICES ASSUME NEW i \in DOMAIN frames', Name(c) \in DOMAIN frames'[i].told,
                        \A j \in DOMAIN frames' : i < j => Name(c) \notin DOMAIN frames'[j].told
                 PROVE  frames'[i].told[Name(c)] = bank[c]
    BY DEF LastFrame, FrameOf
  <2>2. CASE i \notin DOMAIN frames
    BY <1>6, <2>1, <2>2
  <2>3. CASE i \in DOMAIN frames
    <3>1. \A k \in DOMAIN new : Name(c) \notin DOMAIN new[k].told
      <4>1. \A k \in DOMAIN new : i < Len(frames) + k
        BY <1>1, <2>3
      <4>. QED  BY <1>5, <2>1, <4>1
    <3>2. LastFrame(c)
      BY <3>1
    <3>3. FrameOf(c, i) /\ \A j \in DOMAIN frames : i < j => ~FrameOf(c, j)
      BY <1>4, <2>1, <2>3 DEF FrameOf
    <3>. QED  BY <1>4, <2>3, <3>2, <3>3 DEF LastFrame
  <2>. QED  BY <2>2, <2>3
<1>8. NoFrames(c)' => NoFrames(c) /\ \A i \in DOMAIN new : Name(c) \notin DOMAIN new[i].told
  BY <1>4, <1>5 DEF NoFrames, FrameOf
<1>. QED  BY <1>2, <1>7, <1>8

LEMMA GotThroughFrames ==
  ASSUME SInv, NEW new, IsSeq(new), frames' = frames \o new,
         UNCHANGED <<bank, balance, doing, sent>>, NEW c \in Currencies,
         NoNews(c)' /\ c \notin unsettled' =>
           /\ \A i \in DOMAIN new :
                Name(c) \in DOMAIN new[i].told => new[i].told[Name(c)] = bank[c]
           /\ \/ NoNews(c) /\ c \notin unsettled
              \/ \E i \in DOMAIN new : Name(c) \in DOMAIN new[i].told
  PROVE  GotThrough(c)'
<1>1. SUFFICES ASSUME NoNews(c)', c \notin unsettled'
               PROVE  /\ LastFrame(c)'
                      /\ NoFrames(c)' => LastTold(c)' /\ LastKnown(c)'
  BY DEF GotThrough
<1>2. IsSeq(frames) /\ GotThrough(c)
  BY DEF SInv, Typed
<1>3. LastFrame(c) \/ \E i \in DOMAIN new : Name(c) \in DOMAIN new[i].told
  BY <1>1, <1>2 DEF GotThrough
<1>4. /\ LastFrame(c)'
      /\ NoFrames(c)' => NoFrames(c) /\ \A i \in DOMAIN new : Name(c) \notin DOMAIN new[i].told
  BY <1>1, <1>2, <1>3, FramesFacts
<1>5. NoFrames(c)' => LastTold(c) /\ LastKnown(c)
  BY <1>1, <1>2, <1>4 DEF GotThrough
<1>6. (LastTold(c) => LastTold(c)') /\ (LastKnown(c) => LastKnown(c)')
  BY DEF LastTold, LastKnown, ToldOf, Untouched
<1>. QED  BY <1>4, <1>5, <1>6

LEMMA FramesTyped ==
  ASSUME Typed, UNCHANGED <<exchange, bank, events, open, sent, handled, placed, balance,
    doing>>,
         framed' \in [Currencies -> Nat], IsSeq(stream'), IsSeq(frames')
  PROVE  Typed'
<1>1. \A t \in StrategyThreads : DoingOK(t) => DoingOK(t)'
  BY DEF DoingOK
<1>. QED  BY <1>1 DEF Typed

LEMMA OKOnWsMessageStep ==
  ASSUME BalancesAssumption, SInv, OnWsMessage, exchange = "okex"
  PROVE  SInv'
<1>. DEFINE m == stream[1]
            c == CHOOSE d \in DOMAIN m.told : TRUE
            f == Frame(Name(c), m.told[c], m)
<1>1. /\ stream # <<>> /\ stream' = Tail(stream) /\ OKOnRtnBalance(Head(stream))
      /\ UNCHANGED <<exchange, bank, open, events, handled, account, balance, doing, placed,
           sent>>
  BY DEF OnWsMessage, theStrategy
<1>2. /\ IsSeq(stream) /\ Len(stream) \in Nat /\ DOMAIN stream = 1 .. Len(stream)
      /\ Len(stream) >= 1 /\ Head(stream) = m
  BY <1>1, SeqFacts, TailFacts DEF SInv, Typed
<1>3. \E d \in Currencies : DOMAIN m.told = {d}
  BY <1>2 DEF SInv, StreamOK
<1>4. DOMAIN m.told = {c} /\ c \in Currencies
  BY <1>3
<1>5. /\ frames' = Append(frames, f) /\ framed' = [framed EXCEPT ![c] = m.n]
      /\ unsettled' = unsettled \ {c}
  BY <1>1, <1>2 DEF OKOnRtnBalance
<1>6. f.told = [y \in {Name(c)} |-> m.told[c]]
  BY DEF Frame
<1>7. m.n \in Nat /\ framed \in [Currencies -> Nat] /\ IsSeq(frames)
  BY <1>2 DEF SInv, StreamOK, Typed
<1>. HIDE DEF f, c
<1>8. /\ framed' \in [Currencies -> Nat]
      /\ \A d \in Currencies : framed'[d] = framed[d] \/ framed'[d] = m.n
      /\ \A d \in Currencies : NewsIn(d, 1) => d = c /\ framed'[d] = m.n
      /\ NewsIn(c, 1)
  BY <1>4, <1>5, <1>7 DEF NewsIn
<1>. HIDE DEF m
<1>9. /\ StreamOK' /\ AnswerOK' /\ \A d \in Currencies : LastNews(d)'
      /\ IsSeq(stream')
      /\ \A d \in Currencies : NoNews(d)' /\ ~NewsIn(d, 1) => NoNews(d)
      /\ \A d \in Currencies : NoNews(d)' /\ NewsIn(d, 1) => m.told[d] = bank[d]
  BY <1>1, <1>8, ReadFacts DEF m
<1>10. IsSeq(frames') /\ IsSeq(<<f>>) /\ <<f>>[1] = f /\ DOMAIN <<f>> = {1}
  <2>1. IsSeq(frames')
    BY <1>5, <1>7, AppendFacts
  <2>2. <<f>> \in Seq({f}) /\ <<f>>[1] = f /\ DOMAIN <<f>> = {1}
    OBVIOUS
  <2>. QED  BY <2>1, <2>2 DEF IsSeq
<1>11. frames' = frames \o <<f>>
  <2>1. PICK S : frames \in Seq(S)
    BY <1>7 DEF IsSeq
  <2>2. frames \in Seq(S \cup {f}) /\ f \in S \cup {f}
    BY <2>1
  <2>3. Append(frames, f) = frames \o <<f>>
    BY <2>2
  <2>. QED  BY <1>5, <2>3
<1>12. Typed'
  BY <1>1, <1>8, <1>9, <1>10, FramesTyped DEF SInv
<1>13. ASSUME NEW d \in Currencies PROVE GotThrough(d)'
  <2>1. CASE d = c
    <3>1. NoNews(d)' => \A i \in DOMAIN <<f>> : <<f>>[i].told[Name(d)] = bank[d]
                                              /\ Name(d) \in DOMAIN <<f>>[i].told
      BY <1>6, <1>8, <1>9, <1>10, <2>1
    <3>. QED  BY <1>1, <1>10, <1>11, <3>1, GotThroughFrames
  <2>2. CASE d # c
    <3>1. NoNews(d)' /\ d \notin unsettled' => NoNews(d) /\ d \notin unsettled
      BY <1>5, <1>8, <1>9, <2>2
    <3>2. \A i \in DOMAIN <<f>> : Name(d) \notin DOMAIN <<f>>[i].told
      BY <1>6, <1>10, <2>2, Names
    <3>. QED  BY <1>1, <1>10, <1>11, <3>1, <3>2, GotThroughFrames
  <2>. QED  BY <2>1, <2>2
<1>. QED  BY <1>9, <1>12, <1>13 DEF SInv

LEMMA BNOnWsMessageStep ==
  ASSUME BalancesAssumption, SInv, OnWsMessage, exchange = "binance"
  PROVE  SInv'
<1>. DEFINE m == stream[1]
            gone == {c \in Currencies : Zero(m.told[c])}
<1>1. /\ stream # <<>> /\ stream' = Tail(stream) /\ BNOnRtnAccount(Head(stream))
      /\ UNCHANGED <<exchange, bank, open, events, handled, account, balance, doing, placed,
           sent>>
  BY DEF OnWsMessage, theStrategy
<1>2. /\ IsSeq(stream) /\ Len(stream) \in Nat /\ DOMAIN stream = 1 .. Len(stream)
      /\ Len(stream) >= 1 /\ Head(stream) = m
  BY <1>1, SeqFacts, TailFacts DEF SInv, Typed
<1>3. /\ DOMAIN m.told = Currencies /\ m.n \in Nat /\ framed \in [Currencies -> Nat]
      /\ IsSeq(frames) /\ \A c \in Currencies : NewsIn(c, 1)
  BY <1>2 DEF SInv, StreamOK, Typed, NewsIn
<1>4. CASE NotLater(m)
  <2>1. unsettled' = Currencies /\ UNCHANGED <<lastTime, frames, framed>>
    BY <1>1, <1>2, <1>4 DEF BNOnRtnAccount
  <2>2. /\ StreamOK' /\ AnswerOK' /\ \A d \in Currencies : LastNews(d)'
        /\ IsSeq(stream')
    BY <1>1, <1>3, <2>1, ReadFacts
  <2>3. Typed'
    BY <1>1, <1>3, <2>1, <2>2, FramesTyped DEF SInv
  <2>4. \A c \in Currencies : GotThrough(c)'
    BY <2>1 DEF GotThrough
  <2>. QED  BY <2>2, <2>3, <2>4 DEF SInv
<1>5. CASE ~NotLater(m)
  <2>1. /\ \E news \in InOrder(NotZero(m.told)) :
             frames' = frames \o [i \in DOMAIN news |->
                         Frame(Name(Listed[news[i]]), m.told[Listed[news[i]]], m)]
        /\ framed' = [c \in Currencies |-> IF c \in gone THEN framed[c] ELSE m.n]
        /\ unsettled' = gone
    BY <1>1, <1>2, <1>5 DEF BNOnRtnAccount
  <2>2. PICK news \in InOrder(NotZero(m.told)) :
             frames' = frames \o [i \in DOMAIN news |->
                         Frame(Name(Listed[news[i]]), m.told[Listed[news[i]]], m)]
    BY <2>1
  <2>. DEFINE new == [i \in DOMAIN news |->
                        Frame(Name(Listed[news[i]]), m.told[Listed[news[i]]], m)]
  <2>3. frames' = frames \o new
    BY <2>2
  <2>4. /\ NotZero(m.told) \subseteq 1 .. Len(Listed) /\ Len(Listed) \in Nat
        /\ news \in [1 .. Cardinality(NotZero(m.told)) -> NotZero(m.told)]
        /\ \A k \in NotZero(m.told) : \E i \in DOMAIN news : news[i] = k
    BY DEF NotZero, InOrder, BalancesAssumption
  <2>5. Cardinality(NotZero(m.told)) \in Nat
    <3>1. IsFiniteSet(1 .. Len(Listed))
      BY <2>4, FS_Interval
    <3>2. IsFiniteSet(NotZero(m.told))
      BY <2>4, <3>1, FS_Subset
    <3>. QED  BY <3>2, FS_CardinalityType
  <2>6. IsSeq(new)
    BY <2>4, <2>5, FunctionIsSeq
  <2>7. \A i \in DOMAIN new :
          /\ Listed[news[i]] \in Currencies
          /\ new[i].told = [y \in {Name(Listed[news[i]])} |-> m.told[Listed[news[i]]]]
    BY <2>4 DEF Frame, Currencies
  <2>8. DOMAIN new = DOMAIN news
    OBVIOUS
  <2>. HIDE DEF new
  <2>9. ASSUME NEW c \in Currencies, c \notin gone
        PROVE  \E i \in DOMAIN new : Name(c) \in DOMAIN new[i].told
    <3>1. PICK k \in 1 .. Len(Listed) : Listed[k] = c
      BY DEF Currencies
    <3>2. k \in NotZero(m.told)
      BY <2>9, <3>1 DEF NotZero
    <3>3. PICK i \in DOMAIN news : news[i] = k
      BY <2>4, <3>2
    <3>. QED  BY <2>7, <2>8, <3>1, <3>3
  <2>10. ASSUME NEW c \in Currencies, NEW i \in DOMAIN new, Name(c) \in DOMAIN new[i].told
         PROVE  new[i].told[Name(c)] = m.told[c]
    <3>. DEFINE d == Listed[news[i]]
    <3>0. new[i].told = [y \in {Name(d)} |-> m.told[d]]
      BY <2>7
    <3>. HIDE DEF d, m, gone
    <3>1. Name(c) = Name(d)
      BY <2>10, <3>0
    <3>2. d = c
      BY <3>1, Names
    <3>. QED  BY <3>0, <3>2
  <2>11. /\ framed' \in [Currencies -> Nat]
         /\ \A d \in Currencies : framed'[d] = framed[d] \/ framed'[d] = m.n
    BY <1>3, <2>1
  <2>. HIDE DEF m, gone
  <2>12. /\ StreamOK' /\ AnswerOK' /\ \A d \in Currencies : LastNews(d)'
         /\ IsSeq(stream')
         /\ \A d \in Currencies : NoNews(d)' /\ NewsIn(d, 1) => m.told[d] = bank[d]
    <3>1. exchange # "okex"
      OBVIOUS
    <3>. QED  BY <1>1, <2>11, <3>1, ReadFacts DEF m
  <2>13. IsSeq(frames')
    BY <1>3, <2>3, <2>6, ConcatFacts
  <2>14. Typed'
    BY <1>1, <2>11, <2>12, <2>13, FramesTyped DEF SInv
  <2>15. ASSUME NEW c \in Currencies PROVE GotThrough(c)'
    <3>1. NoNews(c)' /\ c \notin unsettled' =>
            /\ \A i \in DOMAIN new :
                 Name(c) \in DOMAIN new[i].told => new[i].told[Name(c)] = bank[c]
            /\ \E i \in DOMAIN new : Name(c) \in DOMAIN new[i].told
      BY <1>3, <2>1, <2>9, <2>10, <2>12
    <3>. QED  BY <1>1, <2>3, <2>6, <3>1, GotThroughFrames
  <2>. QED  BY <2>12, <2>14, <2>15 DEF SInv
<1>. QED  BY <1>4, <1>5

LEMMA OnRspQryUserInfoStep ==
  ASSUME BalancesAssumption, SInv, OnRspQryUserInfo
  PROVE  SInv'
<1>. DEFINE told == [x \in {AsListed(c) : c \in InAnswer} |-> account.bank[x[1]]]
            f == [of |-> "account", told |-> told, handled |-> account.handled]
<1>1. /\ account.is = "answered" /\ account' = [is |-> "written"] /\ frames' = Append(frames, f)
      /\ unsettled' = unsettled \cup
           {c \in InAnswer : exchange = "okex" /\ framed[c] > account.n}
      /\ UNCHANGED <<exchange, bank, open, events, handled, stream, balance, doing, placed,
                     sent, framed>>
  BY DEF OnRspQryUserInfo, theExchange, theStrategy
<1>2. InAnswer \subseteq Currencies
  BY DEF InAnswer, NotZero, Currencies
<1>3. f.told = told
  OBVIOUS
<1>4. ASSUME NEW c \in Currencies, Name(c) \in DOMAIN told
      PROVE  c \in InAnswer /\ exchange = "okex" /\ told[Name(c)] = account.bank[c]
  <2>1. PICK d \in InAnswer : AsListed(d) = Name(c)
    BY <1>4
  <2>2. d = c /\ exchange = "okex"
    BY <2>1, Names
  <2>3. Name(c)[1] = c
    BY DEF Name
  <2>. QED  BY <1>4, <2>2, <2>3
<1>. HIDE DEF told, f
<1>5. /\ IsSeq(frames) /\ IsSeq(stream) /\ framed \in [Currencies -> Nat]
      /\ Typed /\ StreamOK /\ AnswerOK /\ \A c \in Currencies : LastNews(c)
  BY DEF SInv, Typed
<1>6. IsSeq(frames') /\ IsSeq(<<f>>) /\ <<f>>[1] = f /\ DOMAIN <<f>> = {1}
  <2>1. IsSeq(frames')
    BY <1>1, <1>5, AppendFacts
  <2>2. <<f>> \in Seq({f}) /\ <<f>>[1] = f /\ DOMAIN <<f>> = {1}
    OBVIOUS
  <2>. QED  BY <2>1, <2>2 DEF IsSeq
<1>7. frames' = frames \o <<f>>
  <2>1. PICK S : frames \in Seq(S)
    BY <1>5 DEF IsSeq
  <2>2. frames \in Seq(S \cup {f}) /\ f \in S \cup {f}
    BY <2>1
  <2>3. Append(frames, f) = frames \o <<f>>
    BY <2>2
  <2>. QED  BY <1>1, <2>3
<1>8. Typed'
  BY <1>1, <1>5, <1>6, FramesTyped
<1>9. StreamOK' /\ \A c \in Currencies : LastNews(c)'
  BY <1>1, <1>5 DEF StreamOK, LastNews, NewsIn
<1>10. AnswerOK'
  BY <1>1, <1>5 DEF AnswerOK
<1>11. ASSUME NEW c \in Currencies PROVE GotThrough(c)'
  <2>1. ASSUME NoNews(c)', c \notin unsettled'
        PROVE  NoNews(c) /\ c \notin unsettled /\
          (Name(c) \in DOMAIN told => told[Name(c)] = bank[c])
    <3>1. NoNews(c) /\ c \notin unsettled
      BY <1>1, <2>1 DEF NoNews, NewsIn
    <3>2. ASSUME Name(c) \in DOMAIN told PROVE told[Name(c)] = bank[c]
      <4>1. c \in InAnswer /\ exchange = "okex" /\ told[Name(c)] = account.bank[c]
        BY <1>4, <3>2
      <4>2. ~(framed[c] > account.n)
        BY <1>1, <2>1, <4>1
      <4>3. account.bank[c] = bank[c]
        BY <1>1, <1>5, <3>1, <4>1, <4>2 DEF AnswerOK, NoNews
      <4>. QED  BY <4>1, <4>3
    <3>. QED  BY <3>1, <3>2
  <2>2. NoNews(c)' /\ c \notin unsettled' =>
          /\ \A i \in DOMAIN <<f>> :
               Name(c) \in DOMAIN <<f>>[i].told => <<f>>[i].told[Name(c)] = bank[c]
          /\ NoNews(c) /\ c \notin unsettled
    BY <1>3, <1>6, <2>1
  <2>. QED  BY <1>1, <1>6, <1>7, <2>2, GotThroughFrames
<1>. QED  BY <1>8, <1>9, <1>10, <1>11 DEF SInv

-----------------------------------------------------------------------------
(* The strategy reads what it is told, and places orders.                  *)

LEMMA StoreFreeStep ==
  ASSUME BalancesAssumption, SInv, StoreFree
  PROVE  SInv'
<1>. DEFINE f == frames[1]
<1>1. /\ frames # <<>> /\ doing["data"] = Idle /\ frames' = Tail(frames)
      /\ UNCHANGED <<exchange, bank, open, events, handled, stream, account, placed, sent,
                     framed, unsettled>>
  BY DEF StoreFree, theExchange
<1>2. /\ IsSeq(frames) /\ Len(frames) \in Nat /\ DOMAIN frames = 1 .. Len(frames)
      /\ IsSeq(frames') /\ Len(frames) >= 1 /\ Len(frames') = Len(frames) - 1
      /\ Head(frames) = f /\ \A i \in 1 .. Len(frames) - 1 : frames'[i] = frames[i + 1]
  BY <1>1, SeqFacts, TailFacts DEF SInv, Typed
<1>3. DOMAIN frames' = 1 .. Len(frames') /\ 1 \in DOMAIN frames
  BY <1>2, SeqFacts
<1>4. \A i \in DOMAIN frames' : i + 1 \in DOMAIN frames /\ frames'[i] = frames[i + 1]
  BY <1>2, <1>3
<1>5. \A i \in DOMAIN frames : i # 1 => i - 1 \in DOMAIN frames' /\ frames'[i - 1] = frames[i]
  <2>1. ASSUME NEW i \in DOMAIN frames, i # 1
        PROVE  i - 1 \in 1 .. Len(frames) - 1 /\ (i - 1) + 1 = i
    BY <1>2, <2>1
  <2>. QED  BY <1>2, <1>3, <2>1
<1>6. /\ doing' = [doing EXCEPT !["data"] = [pc |-> "told", f |-> f]]
      /\ balance' = [x \in DOMAIN balance \cup DOMAIN f.told |->
                       [KnownOr0(x) EXCEPT !.free = IF x \in DOMAIN f.told THEN f.told[x].free
                                                                          ELSE @]]
  BY <1>2 DEF StoreFree
<1>. HIDE DEF f
<1>7. /\ doing = [t \in StrategyThreads |-> doing[t]] /\ "data" \in StrategyThreads
      /\ \A t \in StrategyThreads : DoingOK(t)
      /\ \A c \in Currencies : Name(c) \in DOMAIN balance =>
           balance[Name(c)] = [free |-> balance[Name(c)].free,
                               freezed |-> balance[Name(c)].freezed]
  BY DEF SInv, Typed, StrategyThreads
<1>8. /\ doing' = [t \in StrategyThreads |-> doing'[t]]
      /\ doing'["data"] = [pc |-> "told", f |-> f]
      /\ \A t \in StrategyThreads : t # "data" => doing'[t] = doing[t]
  BY <1>6, <1>7
<1>9. DOMAIN balance' = DOMAIN balance \cup DOMAIN f.told
  BY <1>6
<1>10. ASSUME NEW c \in Currencies, Name(c) \in DOMAIN balance'
       PROVE  /\ balance'[Name(c)] = [free |-> balance'[Name(c)].free,
                                      freezed |-> balance'[Name(c)].freezed]
              /\ Name(c) \in DOMAIN f.told => balance'[Name(c)].free = f.told[Name(c)].free
              /\ Name(c) \notin DOMAIN f.told => balance'[Name(c)] = balance[Name(c)]
  <2>1. balance'[Name(c)] = [KnownOr0(Name(c)) EXCEPT !.free =
                               IF Name(c) \in DOMAIN f.told THEN f.told[Name(c)].free ELSE @]
    BY <1>6, <1>9, <1>10
  <2>2. KnownOr0(Name(c)) =
          [free |-> KnownOr0(Name(c)).free, freezed |-> KnownOr0(Name(c)).freezed]
    BY <1>7 DEF KnownOr0, Nothing
  <2>3. Name(c) \notin DOMAIN f.told => KnownOr0(Name(c)) = balance[Name(c)]
    BY <1>9, <1>10 DEF KnownOr0
  <2>. QED  BY <2>1, <2>2, <2>3
<1>11. Typed'
  <2>1. \A t \in StrategyThreads : DoingOK(t)'
    BY <1>7, <1>8, <1>9 DEF DoingOK
  <2>2. balance' = [x \in DOMAIN balance' |-> balance'[x]]
    BY <1>6
  <2>. QED  BY <1>1, <1>2, <1>8, <1>10, <2>1, <2>2 DEF SInv, Typed
<1>12. StreamOK' /\ AnswerOK' /\ \A c \in Currencies : LastNews(c)'
  BY <1>1 DEF SInv, StreamOK, AnswerOK, LastNews, NewsIn
<1>13. ASSUME NEW c \in Currencies PROVE GotThrough(c)'
  <2>1. SUFFICES ASSUME NoNews(c)', c \notin unsettled'
                 PROVE  /\ LastFrame(c)'
                        /\ NoFrames(c)' => LastTold(c)' /\ LastKnown(c)'
    BY DEF GotThrough
  <2>2. LastFrame(c) /\ (NoFrames(c) => LastTold(c) /\ LastKnown(c))
    BY <1>1, <2>1 DEF SInv, GotThrough, NoNews, NewsIn
  <2>3. LastFrame(c)'
    <3>1. SUFFICES ASSUME NEW i \in DOMAIN frames', Name(c) \in DOMAIN frames'[i].told,
                          \A j \in DOMAIN frames' : i < j =>
                            Name(c) \notin DOMAIN frames'[j].told
                   PROVE  frames'[i].told[Name(c)] = bank[c]
      BY <1>1 DEF LastFrame, FrameOf
    <3>2. ASSUME NEW j \in DOMAIN frames, i + 1 < j PROVE ~FrameOf(c, j)
      <4>1. j # 1 /\ i < j - 1
        BY <1>2, <1>3, <3>2
      <4>. QED  BY <1>5, <3>1, <4>1 DEF FrameOf
    <3>3. FrameOf(c, i + 1)
      BY <1>4, <3>1 DEF FrameOf
    <3>. QED  BY <1>4, <2>2, <3>2, <3>3 DEF LastFrame
  <2>4. Untouched(c)' => Untouched(c)
    <3>1. Idle.pc \notin Calling
      BY DEF Idle, Calling
    <3>. QED  BY <1>1, <1>8, <3>1 DEF Untouched
  <2>5. ~ToldOf(c)
    BY <1>1 DEF ToldOf, Idle
  <2>6. ToldOf(c)' <=> Name(c) \in DOMAIN f.told
    BY <1>8 DEF ToldOf
  <2>7. ASSUME NoFrames(c)' PROVE \A i \in DOMAIN frames : i # 1 => ~FrameOf(c, i)
    BY <1>5, <2>7 DEF NoFrames, FrameOf
  <2>8. ASSUME NoFrames(c)', Name(c) \in DOMAIN f.told
        PROVE  LastTold(c)' /\ LastKnown(c)'
    <3>1. f.told[Name(c)] = bank[c]
      <4>1. FrameOf(c, 1) /\ \A j \in DOMAIN frames : 1 < j => ~FrameOf(c, j)
        BY <2>7, <2>8 DEF FrameOf, f
      <4>. QED  BY <1>3, <2>2, <4>1 DEF LastFrame, f
    <3>2. Name(c) \in DOMAIN balance' /\ balance'[Name(c)].free = bank[c].free
      BY <1>9, <1>10, <2>8, <3>1
    <3>. QED  BY <1>1, <1>8, <2>6, <2>8, <3>1, <3>2 DEF LastTold, LastKnown
  <2>9. ASSUME NoFrames(c)', Name(c) \notin DOMAIN f.told
        PROVE  LastTold(c)' /\ LastKnown(c)'
    <3>1. NoFrames(c)
      BY <2>7, <2>9 DEF NoFrames, FrameOf, f
    <3>2. LastKnown(c)
      BY <2>2, <3>1
    <3>. QED  BY <1>1, <1>9, <1>10, <2>4, <2>5, <2>6, <2>9, <3>2 DEF LastTold, LastKnown
  <2>. QED  BY <2>3, <2>8, <2>9
<1>. QED  BY <1>11, <1>12, <1>13 DEF SInv

LEMMA StoreFreezedStep ==
  ASSUME BalancesAssumption, SInv, StoreFreezed
  PROVE  SInv'
<1>. DEFINE f == doing["data"].f
<1>1. /\ doing["data"].pc = "told"
      /\ balance' = [x \in DOMAIN balance |-> [balance[x] EXCEPT !.freezed = FreezedOf(x, f)]]
      /\ doing' = [doing EXCEPT !["data"] = Idle]
      /\ account' = account \/ account' = [is |-> "read"]
      /\ UNCHANGED <<exchange, bank, open, events, handled, stream, frames, placed, sent,
                     framed, unsettled>>
  BY DEF StoreFreezed, theExchange, remembered
<1>. HIDE DEF f
<1>2. /\ doing = [t \in StrategyThreads |-> doing[t]] /\ "data" \in StrategyThreads
      /\ \A t \in StrategyThreads : DoingOK(t) /\ IsCurrencies(bank)
      /\ \A c \in Currencies : Name(c) \in DOMAIN balance =>
           balance[Name(c)] = [free |-> balance[Name(c)].free,
                               freezed |-> balance[Name(c)].freezed]
  BY DEF SInv, Typed, StrategyThreads
<1>3. /\ doing' = [t \in StrategyThreads |-> doing'[t]] /\ doing'["data"] = Idle
      /\ \A t \in StrategyThreads : t # "data" => doing'[t] = doing[t]
  BY <1>1, <1>2
<1>4. DOMAIN balance' = DOMAIN balance /\ balance' = [x \in DOMAIN balance' |-> balance'[x]]
  BY <1>1
<1>5. ASSUME NEW c \in Currencies, Name(c) \in DOMAIN balance
      PROVE  balance'[Name(c)] =
        [free |-> balance[Name(c)].free, freezed |-> FreezedOf(Name(c), f)]
  BY <1>1, <1>2, <1>5
<1>6. Typed'
  <2>1. \A t \in StrategyThreads : DoingOK(t)'
    BY <1>2, <1>3, <1>4 DEF DoingOK
  <2>2. \A c \in Currencies : Name(c) \in DOMAIN balance' =>
          balance'[Name(c)] = [free |-> balance'[Name(c)].free,
                               freezed |-> balance'[Name(c)].freezed]
    BY <1>4, <1>5
  <2>. QED  BY <1>1, <1>3, <1>4, <2>1, <2>2 DEF SInv, Typed
<1>7. StreamOK' /\ AnswerOK' /\ \A c \in Currencies : LastNews(c)'
  BY <1>1 DEF SInv, StreamOK, AnswerOK, LastNews, NewsIn
<1>8. ASSUME NEW c \in Currencies PROVE GotThrough(c)'
  <2>1. SUFFICES ASSUME NoNews(c)', c \notin unsettled'
                 PROVE  /\ LastFrame(c)'
                        /\ NoFrames(c)' => LastTold(c)' /\ LastKnown(c)'
    BY DEF GotThrough
  <2>2. LastFrame(c) /\ (NoFrames(c) => LastTold(c) /\ LastKnown(c))
    BY <1>1, <2>1 DEF SInv, GotThrough, NoNews, NewsIn
  <2>3. LastFrame(c)' /\ (NoFrames(c)' => NoFrames(c))
    BY <1>1, <2>2 DEF LastFrame, FrameOf, NoFrames
  <2>4. LastTold(c)'
    BY <1>3 DEF LastTold, ToldOf, Idle
  <2>5. Untouched(c)' => Untouched(c)
    <3>1. "told" \notin Calling
      BY DEF Calling
    <3>. QED  BY <1>1, <1>3, <3>1 DEF Untouched
  <2>6. ASSUME LastTold(c), LastKnown(c), Untouched(c)', Name(c) \in DOMAIN balance'
        PROVE  balance'[Name(c)] = bank[c]
    <3>1. balance'[Name(c)] =
            [free |-> balance[Name(c)].free, freezed |-> FreezedOf(Name(c), f)]
      BY <1>4, <1>5, <2>6
    <3>2. bank[c] = [free |-> bank[c].free, freezed |-> bank[c].freezed]
      BY <1>2 DEF IsCurrencies, IsAmount
    <3>3. CASE ToldOf(c)
      BY <1>1, <2>5, <2>6, <3>1, <3>2, <3>3 DEF LastTold, ToldOf, FreezedOf, f
    <3>4. CASE ~ToldOf(c)
      <4>1. balance[Name(c)] = bank[c]
        BY <1>4, <2>5, <2>6, <3>4 DEF LastKnown
      <4>2. FreezedOf(Name(c), f) = balance[Name(c)].freezed
        BY <1>1, <3>4 DEF ToldOf, FreezedOf, f
      <4>. QED  BY <3>1, <3>2, <4>1, <4>2
    <3>. QED  BY <3>3, <3>4
  <2>. QED  BY <1>1, <2>2, <2>3, <2>4, <2>6 DEF LastKnown
<1>. QED  BY <1>6, <1>7, <1>8 DEF SInv

(* A step of a call, for an order that pays p. *)
LEMMA CalledStep ==
  ASSUME SInv, NEW t \in StrategyThreads, NEW p \in Currencies,
         doing' = [doing EXCEPT ![t] = doing'[t]], doing[t].pc # "told", doing'[t].pc # "told",
         DOMAIN balance' = DOMAIN balance, Typed',
         \A c \in Currencies : c # p /\ Name(c) \in DOMAIN balance =>
           balance'[Name(c)] = balance[Name(c)],
         ~Untouched(p)', \A c \in Currencies : c # p /\ Untouched(c)' => Untouched(c),
         UNCHANGED <<theExchange, theGateway, remembered>>
  PROVE  SInv'
<1>1. UNCHANGED <<exchange, bank, events, stream, account, frames, framed, unsettled>>
  BY DEF theExchange, theGateway, remembered
<1>2. doing = [u \in StrategyThreads |-> doing[u]] /\ "data" \in StrategyThreads
  BY DEF SInv, Typed, StrategyThreads
<1>3. StreamOK' /\ AnswerOK' /\ \A c \in Currencies : LastNews(c)'
  BY <1>1 DEF SInv, StreamOK, AnswerOK, LastNews, NewsIn
<1>4. \A c \in Currencies : ToldOf(c)' => ToldOf(c) /\ doing'["data"] = doing["data"]
  BY <1>2 DEF ToldOf
<1>5. \A c \in Currencies : ToldOf(c) => ToldOf(c)'
  BY <1>2 DEF ToldOf
<1>6. ASSUME NEW c \in Currencies PROVE GotThrough(c)'
  <2>1. SUFFICES ASSUME NoNews(c)', c \notin unsettled'
                 PROVE  /\ LastFrame(c)'
                        /\ NoFrames(c)' => LastTold(c)' /\ LastKnown(c)'
    BY DEF GotThrough
  <2>2. LastFrame(c) /\ (NoFrames(c) => LastTold(c) /\ LastKnown(c))
    BY <1>1, <2>1 DEF SInv, GotThrough, NoNews, NewsIn
  <2>3. LastFrame(c)' /\ (NoFrames(c)' => NoFrames(c))
    BY <1>1, <2>2 DEF LastFrame, FrameOf, NoFrames
  <2>4. LastTold(c) => LastTold(c)'
    BY <1>1, <1>4 DEF LastTold
  <2>5. LastKnown(c) => LastKnown(c)'
    BY <1>1, <1>5 DEF LastKnown
  <2>. QED  BY <2>2, <2>3, <2>4, <2>5
<1>. QED  BY <1>3, <1>6 DEF SInv

LEMMA DoingFacts ==
  ASSUME Typed, NEW t \in Callers, BalancesAssumption, NEW pc, Stands(t, pc), pc \in Calling
  PROVE  /\ t \in StrategyThreads /\ doing[t].order \in Orders
         /\ doing[t].order.pays \in Currencies /\ Paid(t) = Name(doing[t].order.pays)
         /\ Paid(t) \in DOMAIN balance /\ doing[t].order.cost \in Nat
         /\ doing = [u \in StrategyThreads |-> doing[u]]
         /\ \A u \in StrategyThreads : DoingOK(u)
<1>1. t \in StrategyThreads /\ doing[t].pc = pc
  BY DEF BalancesAssumption, StrategyThreads, Stands
<1>2. doing[t] # Idle /\ pc # "told"
  <2>1. Idle.pc = "idle" /\ "idle" \notin Calling /\ "told" \notin Calling
    BY DEF Idle, Calling
  <2>. QED  BY <1>1, <2>1
<1>3. doing[t].order \in Orders /\ Name(doing[t].order.pays) \in DOMAIN balance
  BY <1>1, <1>2 DEF Typed, DoingOK
<1>. QED  BY <1>1, <1>3, OrderFacts DEF Typed, Paid

(* What a call's step leaves of the others. *)
LEMMA CallTyped ==
  ASSUME Typed, NEW t \in Callers, BalancesAssumption, t \in StrategyThreads,
         doing' = [doing EXCEPT ![t] = doing'[t]],
         DOMAIN balance' = DOMAIN balance, balance' = [x \in DOMAIN balance' |-> balance'[x]],
         \/ doing'[t] = Idle
         \/ /\ doing'[t].pc \in Calling /\ doing'[t].order \in Orders
            /\ Name(doing'[t].order.pays) \in DOMAIN balance,
         \A c \in Currencies : Name(c) \in DOMAIN balance =>
           balance'[Name(c)] = [free |-> balance'[Name(c)].free,
                                freezed |-> balance'[Name(c)].freezed],
         sent' \subseteq Orders, placed' \in [Currencies -> Nat],
         UNCHANGED <<theExchange, theGateway, remembered>>
  PROVE  Typed'
<1>1. UNCHANGED <<exchange, bank, open, events, handled, stream, frames, framed>>
  BY DEF theExchange, theGateway, remembered
<1>2. doing = [u \in StrategyThreads |-> doing[u]] /\ \A u \in StrategyThreads : DoingOK(u)
  BY DEF Typed
<1>3. /\ doing' = [u \in StrategyThreads |-> doing'[u]]
      /\ \A u \in StrategyThreads : u # t => doing'[u] = doing[u]
  <2>1. DOMAIN doing = StrategyThreads
    BY <1>2
  <2>. QED  BY <2>1
<1>4. \A u \in StrategyThreads : DoingOK(u)'
  <2>1. DoingOK(t)'
    BY DEF DoingOK
  <2>2. \A u \in StrategyThreads : u # t => DoingOK(u)'
    BY <1>2, <1>3 DEF DoingOK
  <2>. QED  BY <2>1, <2>2
<1>. QED  BY <1>1, <1>3, <1>4 DEF Typed

LEMMA CheckOrderStep ==
  ASSUME BalancesAssumption, SInv, NEW t \in Callers, NEW o \in Orders, CheckOrder(t, o)
  PROVE  SInv'
<1>1. t \in StrategyThreads /\ o.pays \in Currencies /\ Typed
  BY OrderFacts DEF BalancesAssumption, StrategyThreads, SInv
<1>2. PICK pc, v :
        /\ pc = "loadFree"
        /\ doing[t].pc = "idle" /\ Name(o.pays) \in DOMAIN balance
        /\ doing' = [doing EXCEPT ![t] = [pc |-> pc, order |-> o, value |-> v]]
        /\ UNCHANGED <<theExchange, theGateway, balance, placed, sent, remembered>>
  BY DEF CheckOrder, Stands, Goes
<1>3. DOMAIN doing = StrategyThreads
  BY <1>1 DEF Typed
<1>9. doing'[t] = [pc |-> pc, order |-> o, value |-> v]
  BY <1>1, <1>2, <1>3
<1>4. /\ \A u \in StrategyThreads : u # t => doing'[u] = doing[u]
      /\ doing' = [doing EXCEPT ![t] = doing'[t]]
  BY <1>1, <1>2, <1>3
<1>5. /\ doing'[t].pc \in Calling /\ doing'[t].order = o /\ doing[t].pc \notin Calling
      /\ doing[t].pc # "told" /\ doing'[t].pc # "told"
  <2>1. doing'[t].pc = pc /\ doing'[t].order = o
    BY <1>9
  <2>. QED  BY <1>2, <2>1 DEF Calling
<1>6. Typed'
  <2>1. /\ balance' = balance /\ sent' = sent /\ placed' = placed
        /\ UNCHANGED <<theExchange, theGateway, remembered>>
    BY <1>2
  <2>2. balance = [x \in DOMAIN balance |-> balance[x]] /\ sent \subseteq Orders
        /\ placed \in [Currencies -> Nat]
        /\ \A c \in Currencies : Name(c) \in DOMAIN balance =>
             balance[Name(c)] = [free |-> balance[Name(c)].free,
                                 freezed |-> balance[Name(c)].freezed]
    BY <1>1 DEF Typed
  <2>3. /\ DOMAIN balance' = DOMAIN balance
        /\ balance' = [x \in DOMAIN balance' |-> balance'[x]]
        /\ sent' \subseteq Orders /\ placed' \in [Currencies -> Nat]
        /\ Name(doing'[t].order.pays) \in DOMAIN balance /\ doing'[t].order \in Orders
        /\ \A c \in Currencies : Name(c) \in DOMAIN balance =>
             balance'[Name(c)] = [free |-> balance'[Name(c)].free,
                                  freezed |-> balance'[Name(c)].freezed]
    BY <1>2, <1>5, <2>1, <2>2
  <2>4. Typed /\ doing' = [doing EXCEPT ![t] = doing'[t]] /\ doing'[t].pc \in Calling
    BY <1>1, <1>4, <1>5
  <2>. QED  BY <1>1, <2>1, <2>3, <2>4, CallTyped
<1>7. ~Untouched(o.pays)'
  BY <1>1, <1>5 DEF Untouched
<1>8. \A c \in Currencies : Untouched(c)' => Untouched(c)
  BY <1>2, <1>4, <1>5 DEF Untouched
<1>. QED  BY <1>1, <1>2, <1>4, <1>5, <1>6, <1>7, <1>8, CalledStep

LEMMA LoadStep ==
  ASSUME BalancesAssumption, SInv, NEW t \in Callers, LoadFree(t) \/ LoadFreezed(t)
  PROVE  SInv'
<1>0. PICK o : o = doing[t].order
  OBVIOUS
<1>1. PICK pc, next, v :
        /\ pc \in Calling /\ next \in Calling
        /\ Stands(t, pc) /\ doing' = [doing EXCEPT ![t] = [pc |-> next, order |-> o, value |-> v]]
        /\ UNCHANGED <<theExchange, theGateway, balance, placed, sent, remembered>>
  BY <1>0 DEF LoadFree, LoadFreezed, Goes, Calling
<1>2. /\ Typed /\ t \in StrategyThreads /\ o \in Orders /\ o.pays \in Currencies
      /\ Name(o.pays) \in DOMAIN balance /\ DOMAIN doing = StrategyThreads
  BY <1>0, <1>1, DoingFacts DEF SInv
<1>3. /\ doing'[t] = [pc |-> next, order |-> o, value |-> v]
      /\ \A u \in StrategyThreads : u # t => doing'[u] = doing[u]
      /\ doing' = [doing EXCEPT ![t] = doing'[t]] /\ doing[t].pc = pc
  BY <1>1, <1>2 DEF Stands
<1>4. doing'[t].pc \in Calling /\ doing'[t].order = o
  BY <1>1, <1>3
<1>5. Typed'
  BY <1>1, <1>2, <1>3, <1>4, CallTyped DEF Typed
<1>6. ~Untouched(o.pays)'
  BY <1>2, <1>4 DEF Untouched
<1>7. \A c \in Currencies : Untouched(c)' => Untouched(c)
  BY <1>0, <1>1, <1>3, <1>4 DEF Untouched
<1>8. doing[t].pc # "told" /\ doing'[t].pc # "told"
  BY <1>1, <1>3, <1>4 DEF Calling
<1>. QED  BY <1>1, <1>2, <1>3, <1>5, <1>6, <1>7, <1>8, CalledStep

LEMMA TakeFreeStep ==
  ASSUME BalancesAssumption, SInv, NEW t \in Callers, TakeFree(t)
  PROVE  SInv'
<1>0. PICK o : o = doing[t].order
  OBVIOUS
<1>1. PICK pc, v :
        /\ pc = "loadFreezed"
        /\ Stands(t, "storeFree") /\ "storeFree" \in Calling
        /\ balance' = [balance EXCEPT ![Paid(t)].free = doing[t].value - o.cost]
        /\ doing' = [doing EXCEPT ![t] = [pc |-> pc, order |-> o, value |-> v]]
        /\ UNCHANGED <<theExchange, theGateway, placed, sent, remembered>>
  BY <1>0 DEF TakeFree, Goes, Calling
<1>2. /\ Typed /\ t \in StrategyThreads /\ o \in Orders /\ o.pays \in Currencies
      /\ Paid(t) = Name(o.pays) /\ Name(o.pays) \in DOMAIN balance
      /\ DOMAIN doing = StrategyThreads
  BY <1>0, <1>1, DoingFacts DEF SInv
<1>9. doing'[t] = [pc |-> pc, order |-> o, value |-> v]
  BY <1>1, <1>2
<1>3. /\ \A u \in StrategyThreads : u # t => doing'[u] = doing[u]
      /\ doing' = [doing EXCEPT ![t] = doing'[t]] /\ doing[t].pc = "storeFree"
  BY <1>1, <1>2 DEF Stands
<1>4. /\ doing'[t].pc \in Calling /\ doing'[t].order = o
      /\ doing[t].pc # "told" /\ doing'[t].pc # "told"
  <2>1. doing'[t].pc = pc /\ doing'[t].order = o
    BY <1>9
  <2>. QED  BY <1>1, <1>3, <2>1 DEF Calling
<1>5. /\ DOMAIN balance' = DOMAIN balance /\ balance' = [x \in DOMAIN balance' |-> balance'[x]]
      /\ \A x \in DOMAIN balance : x # Name(o.pays) => balance'[x] = balance[x]
      /\ balance'[Name(o.pays)] =
           [balance[Name(o.pays)] EXCEPT !.free = doing[t].value - o.cost]
  BY <1>1, <1>2 DEF Typed
<1>6. ASSUME NEW c \in Currencies, Name(c) \in DOMAIN balance
      PROVE  balance'[Name(c)] = [free |-> balance'[Name(c)].free,
                                  freezed |-> balance'[Name(c)].freezed]
  <2>1. balance[Name(c)] =
          [free |-> balance[Name(c)].free, freezed |-> balance[Name(c)].freezed]
    BY <1>2, <1>6 DEF Typed
  <2>2. CASE c = o.pays
    BY <1>5, <2>1, <2>2
  <2>3. CASE c # o.pays
    BY <1>5, <1>6, <2>1, <2>3, Names
  <2>. QED  BY <2>2, <2>3
<1>7. Typed'
  BY <1>1, <1>2, <1>3, <1>4, <1>5, <1>6, CallTyped DEF Typed
<1>8. ~Untouched(o.pays)'
  BY <1>2, <1>4 DEF Untouched
<1>10. \A c \in Currencies : Untouched(c)' => Untouched(c)
  <2>1. \A u \in StrategyThreads : doing[u].pc \in Calling =>
          doing'[u].pc \in Calling /\ doing'[u].order = doing[u].order
    BY <1>0, <1>3, <1>4
  <2>2. sent' = sent
    BY <1>1
  <2>. QED  BY <2>1, <2>2 DEF Untouched
<1>11. \A c \in Currencies : c # o.pays /\ Name(c) \in DOMAIN balance =>
         balance'[Name(c)] = balance[Name(c)]
  BY <1>5, Names
<1>. QED  BY <1>1, <1>2, <1>3, <1>4, <1>5, <1>7, <1>8, <1>10, <1>11, CalledStep

LEMMA PlaceStep ==
  ASSUME BalancesAssumption, SInv, NEW t \in Callers, Place(t)
  PROVE  SInv'
<1>0. PICK o : o = doing[t].order
  OBVIOUS
<1>1. /\ Stands(t, "storeFreezed") /\ "storeFreezed" \in Calling
      /\ balance' = [balance EXCEPT ![Paid(t)].freezed = doing[t].value + o.cost]
      /\ doing' = [doing EXCEPT ![t] = Idle]
      /\ placed' = [placed EXCEPT ![o.pays] = @ + 1] /\ sent' = sent \cup {o}
      /\ UNCHANGED <<theExchange, theGateway, remembered>>
  BY <1>0 DEF Place, Calling
<1>2. /\ Typed /\ t \in StrategyThreads /\ o \in Orders /\ o.pays \in Currencies
      /\ Paid(t) = Name(o.pays) /\ Name(o.pays) \in DOMAIN balance
      /\ DOMAIN doing = StrategyThreads
  BY <1>0, <1>1, DoingFacts DEF SInv
<1>3. /\ doing'[t] = Idle /\ \A u \in StrategyThreads : u # t => doing'[u] = doing[u]
      /\ doing' = [doing EXCEPT ![t] = doing'[t]] /\ doing[t].pc = "storeFreezed"
  BY <1>1, <1>2 DEF Stands
<1>5. /\ DOMAIN balance' = DOMAIN balance /\ balance' = [x \in DOMAIN balance' |-> balance'[x]]
      /\ \A x \in DOMAIN balance : x # Name(o.pays) => balance'[x] = balance[x]
      /\ balance'[Name(o.pays)] =
           [balance[Name(o.pays)] EXCEPT !.freezed = doing[t].value + o.cost]
  BY <1>1, <1>2 DEF Typed
<1>6. ASSUME NEW c \in Currencies, Name(c) \in DOMAIN balance
      PROVE  balance'[Name(c)] = [free |-> balance'[Name(c)].free,
                                  freezed |-> balance'[Name(c)].freezed]
  <2>1. balance[Name(c)] =
          [free |-> balance[Name(c)].free, freezed |-> balance[Name(c)].freezed]
    BY <1>2, <1>6 DEF Typed
  <2>2. CASE c = o.pays
    BY <1>5, <2>1, <2>2
  <2>3. CASE c # o.pays
    BY <1>5, <1>6, <2>1, <2>3, Names
  <2>. QED  BY <2>2, <2>3
<1>7. Typed'
  <2>1. placed' \in [Currencies -> Nat] /\ sent' \subseteq Orders
    <3>1. placed \in [Currencies -> Nat] /\ sent \subseteq Orders
      BY <1>2 DEF Typed
    <3>2. placed' = [placed EXCEPT ![o.pays] = @ + 1] /\ sent' = sent \cup {o}
      BY <1>1
    <3>. QED  BY <1>2, <3>1, <3>2
  <2>. QED  BY <1>1, <1>2, <1>3, <1>5, <1>6, <2>1, CallTyped
<1>8. ~Untouched(o.pays)'
  BY <1>1 DEF Untouched
<1>9. \A c \in Currencies : c # o.pays /\ Untouched(c)' => Untouched(c)
  BY <1>0, <1>1, <1>3 DEF Untouched
<1>10. doing[t].pc # "told" /\ doing'[t].pc # "told"
  <2>1. Idle.pc = "idle"
    BY DEF Idle
  <2>. QED  BY <1>3, <2>1
<1>11. \A c \in Currencies : c # o.pays /\ Name(c) \in DOMAIN balance =>
         balance'[Name(c)] = balance[Name(c)]
  BY <1>5, Names
<1>. QED  BY <1>1, <1>2, <1>3, <1>5, <1>7, <1>8, <1>9, <1>10, <1>11, CalledStep

-----------------------------------------------------------------------------
LEMMA InitStep ==
  ASSUME BalancesAssumption, FundsInit
  PROVE  SInv
<1>1. bank = [c \in Currencies |-> [free |-> Funds[c], freezed |-> Freezed(c)]]
  BY Zenon DEF FundsInit
<1>2. Funds \in [Currencies -> Nat]
  BY DEF BalancesAssumption
<1>3. IsCurrencies(bank)
  BY <1>1, <1>2 DEF IsCurrencies, IsAmount
<1>4. /\ exchange \in Exchanges /\ open = OldOrders /\ sent = {} /\ events = 0
      /\ handled = [c \in Currencies |-> 0] /\ placed = [c \in Currencies |-> 0]
      /\ framed = [c \in Currencies |-> 0] /\ stream = <<>> /\ frames = <<>>
      /\ balance = NotKnown /\ doing = [t \in {"main", "data"} |-> Idle]
      /\ account = [is |-> "asked"]
  BY Zenon DEF FundsInit
<1>5. IsSeq(<<>>) /\ DOMAIN <<>> = {}
  <2>1. <<>> \in Seq({})
    OBVIOUS
  <2>. QED  BY <2>1 DEF IsSeq
<1>6. DOMAIN NotKnown = {} /\ NotKnown = [x \in DOMAIN NotKnown |-> NotKnown[x]]
  BY DEF NotKnown
<1>7. \A t \in StrategyThreads : DoingOK(t)
  BY <1>4 DEF DoingOK, StrategyThreads
<1>8. doing = [t \in StrategyThreads |-> doing[t]]
  BY <1>4 DEF StrategyThreads
<1>9. exchange \in {"okex", "binance"}
  BY <1>4 DEF BalancesAssumption
<1>10. Typed
  BY <1>3, <1>4, <1>5, <1>6, <1>7, <1>8, <1>9 DEF Typed
<1>11. StreamOK /\ AnswerOK /\ \A c \in Currencies : LastNews(c)
  BY <1>4, <1>5 DEF StreamOK, AnswerOK, LastNews
<1>12. \A c \in Currencies : ~ToldOf(c)
  BY <1>4 DEF ToldOf, Idle
<1>13. \A c \in Currencies : GotThrough(c)
  BY <1>4, <1>5, <1>6, <1>12 DEF GotThrough, LastFrame, LastTold, LastKnown
<1>. QED  BY <1>10, <1>11, <1>13 DEF SInv

LEMMA SInvStep ==
  ASSUME BalancesAssumption, SInv, [FundsNext]_funds
  PROVE  SInv'
<1>1. ASSUME NEW o \in Orders \cup OldOrders, Accept(o) \/ Refuse(o) \/ Fill(o) \/ Cancel(o)
      PROVE  SInv'
  BY <1>1, AcceptStep, RefuseStep, FillStep, CancelStep
<1>2. CASE AnswerQuery \/ OnRspQryUserInfo \/ StoreFree \/ StoreFreezed
  BY <1>2, AnswerStep, OnRspQryUserInfoStep, StoreFreeStep, StoreFreezedStep
<1>3. CASE OnWsMessage
  BY <1>3, OKOnWsMessageStep, BNOnWsMessageStep DEF SInv, Typed
<1>4. ASSUME NEW t \in Callers, InsertOrder(t) PROVE SInv'
  BY <1>4, CheckOrderStep, LoadStep, TakeFreeStep, PlaceStep DEF InsertOrder
<1>5. CASE UNCHANGED funds
  <2>1. UNCHANGED <<exchange, bank, open, events, handled, stream, account, frames, balance,
                    doing, placed, sent, framed, unsettled>>
    BY <1>5 DEF funds, theExchange, theGateway, theStrategy, remembered
  <2>2. Typed'
    BY <2>1 DEF SInv, Typed, DoingOK
  <2>3. StreamOK' /\ AnswerOK' /\ \A c \in Currencies : LastNews(c)'
    BY <2>1 DEF SInv, StreamOK, AnswerOK, LastNews, NewsIn
  <2>4. \A c \in Currencies : GotThrough(c)'
    BY <2>1 DEF SInv, GotThrough, NoNews, NewsIn, LastFrame, FrameOf, NoFrames, LastTold,
                LastKnown, ToldOf, Untouched
  <2>. QED  BY <2>2, <2>3, <2>4 DEF SInv
<1>. QED  BY <1>1, <1>2, <1>3, <1>4, <1>5 DEF FundsNext

LEMMA SInvSettled ==
  ASSUME SInv
  PROVE  Settled
<1>1. SUFFICES ASSUME AtRest, NEW c \in Currencies, c \notin unsettled,
        Name(c) \in DOMAIN balance
               PROVE  balance[Name(c)] = bank[c]
  BY DEF Settled
<1>2. NoNews(c) /\ NoFrames(c)
  <2>1. DOMAIN <<>> = {}
    OBVIOUS
  <2>. QED  BY <1>1, <2>1 DEF AtRest, NoNews, NoFrames
<1>3. LastKnown(c)
  BY <1>1, <1>2 DEF SInv, GotThrough
<1>4. \A t \in StrategyThreads : doing[t].pc = "idle"
  BY <1>1 DEF AtRest, StrategyThreads, Idle
<1>5. ~ToldOf(c) /\ Untouched(c)
  BY <1>1, <1>4 DEF ToldOf, Untouched, AtRest, Calling, StrategyThreads
<1>. QED  BY <1>1, <1>3, <1>5 DEF LastKnown

(* For either exchange, any currencies and any orders, placed on the main  *)
(* thread as well as on the data thread: when nothing is under way the     *)
(* strategy has the exchange's balance of each currency it knows, unless   *)
(* the last news of it did not get through.                                *)
THEOREM BalancesSettle == ASSUME BalancesAssumption PROVE FundsSpec => []Settled
<1>1. FundsInit => SInv
  BY InitStep
<1>2. SInv /\ [FundsNext]_funds => SInv'
  BY SInvStep
<1>3. SInv => Settled
  BY SInvSettled
<1>. QED  BY <1>1, <1>2, <1>3, PTL DEF FundsSpec

-----------------------------------------------------------------------------
(* Orders are covered.                                                     *)

SentOf(c) == {o \in sent : o.pays = c}

(* What was so when n orders that pay c had reached the exchange: if no    *)
(* other was placed since, it cannot have become less.                     *)
NotMore(b, n, c) ==
  IsAmount(b) /\ n <= handled[c] /\ (n >= placed[c] => b.free <= bank[c].free)

NewsNotMore ==
  /\ \A i \in DOMAIN stream : \A c \in Currencies :
       NewsIn(c, i) => NotMore(stream[i].told[c], stream[i].handled[c], c)
  /\ \A i \in DOMAIN stream : stream[i].handled \in [Currencies -> Nat]
  /\ account.is = "answered" =>
       /\ account.handled \in [Currencies -> Nat]
       /\ \A c \in Currencies : NotMore(account.bank[c], account.handled[c], c)
  /\ \A i \in DOMAIN frames : frames[i].handled \in [Currencies -> Nat]
  /\ \A i \in DOMAIN frames : \A c \in Currencies :
       FrameOf(c, i) => NotMore(frames[i].told[Name(c)], frames[i].handled[c], c)

Handled == \A c \in Currencies : handled[c] + Cardinality(SentOf(c)) = placed[c]

(* The order of a call: not placed yet, and what is left is enough. *)
CallOK ==
  LET d == doing["data"] IN
  d.pc \in Calling =>
    /\ d.order \notin sent
    /\ d.pc = "loadFree" => d.order.cost <= balance[Name(d.order.pays)].free
    /\ d.pc = "storeFree" => /\ d.value = balance[Name(d.order.pays)].free
                              /\ d.order.cost <= d.value

SetAside(c) ==
  LET d == doing["data"] IN
  IF d.pc \in {"loadFreezed", "storeFreezed"} /\ d.order.pays = c THEN d.order.cost ELSE 0

(* What the strategy believes to have, and what is under way, is there. *)
IsCovered(c) ==
  IF Name(c) \in DOMAIN balance
  THEN balance[Name(c)].free \in Nat /\
       (c \notin crossed =>
         balance[Name(c)].free + SetAside(c) + Cost[SentOf(c)] <= bank[c].free)
  ELSE SentOf(c) = {}

CInv ==
  /\ SInv /\ NewsNotMore /\ Handled /\ CallOK /\ Covered
  /\ \A c \in Currencies : IsCovered(c)

LEMMA SentFacts ==
  ASSUME BalancesAssumption, sent \subseteq Orders, NEW c
  PROVE  /\ SentOf(c) \in SUBSET Orders /\ IsFiniteSet(SentOf(c))
         /\ Cardinality(SentOf(c)) \in Nat /\ Cost[SentOf(c)] \in Nat
         /\ Cardinality(SentOf(c)) = 0 => SentOf(c) = {} /\ Cost[SentOf(c)] = 0
         /\ SentOf(c) = {} => Cost[SentOf(c)] = 0
         /\ \A o \in SentOf(c) : o.cost <= Cost[SentOf(c)]
<1>1. SentOf(c) \in SUBSET Orders
  BY DEF SentOf
<1>2. IsFiniteSet(SentOf(c))
  BY <1>1, FS_Subset DEF BalancesAssumption
<1>3. Cardinality(SentOf(c)) \in Nat /\ (Cardinality(SentOf(c)) = 0 => SentOf(c) = {})
  BY <1>2, FS_CardinalityType, FS_EmptySet
<1>4. Cost[SentOf(c)] \in Nat /\ (SentOf(c) = {} => Cost[SentOf(c)] = 0)
  BY <1>1, CostFacts
<1>5. ASSUME NEW o \in SentOf(c) PROVE o.cost <= Cost[SentOf(c)]
  <2>1. Cost[SentOf(c)] = Cost[SentOf(c) \ {o}] + o.cost
    BY <1>1, CostFacts
  <2>2. Cost[SentOf(c) \ {o}] \in Nat /\ o.cost \in Nat
    <3>1. SentOf(c) \ {o} \in SUBSET Orders /\ o \in Orders
      BY <1>1
    <3>. QED  BY <3>1, CostFacts, OrderFacts
  <2>. QED  BY <1>4, <2>1, <2>2
<1>. QED  BY <1>1, <1>2, <1>3, <1>4, <1>5

LEMMA SetAsideFacts ==
  ASSUME BalancesAssumption, Typed, NEW c \in Currencies
  PROVE  /\ SetAside(c) \in Nat
         /\ doing["data"].pc \notin {"loadFreezed", "storeFreezed"} => SetAside(c) = 0
<1>. DEFINE d == doing["data"]
<1>1. "data" \in StrategyThreads /\ DoingOK("data")
  BY DEF Typed, StrategyThreads
<1>2. ASSUME d.pc \in {"loadFreezed", "storeFreezed"} PROVE d.order.cost \in Nat
  <2>1. d # Idle /\ d.pc # "told"
    <3>1. Idle.pc = "idle"
      BY DEF Idle
    <3>. QED  BY <1>2, <3>1
  <2>2. d.order \in Orders
    BY <1>1, <2>1 DEF DoingOK
  <2>. QED  BY <2>2, OrderFacts
<1>. QED  BY <1>2 DEF SetAside

LEMMA NotMoreStep ==
  ASSUME NEW c \in Currencies, NEW b, NEW n \in Nat, NotMore(b, n, c),
         handled \in [Currencies -> Nat], placed \in [Currencies -> Nat],
         handled' \in [Currencies -> Nat], placed' \in [Currencies -> Nat],
         IsCurrencies(bank), IsCurrencies(bank)',
         handled[c] <= handled'[c], placed[c] <= placed'[c],
         handled[c] >= placed[c] => bank[c].free <= bank'[c].free
  PROVE  NotMore(b, n, c)'
<1>1. bank[c].free \in Nat /\ bank'[c].free \in Nat
  BY DEF IsCurrencies, IsAmount
<1>2. IsAmount(b) /\ b.free \in Nat
  BY DEF NotMore, IsAmount
<1>. QED  BY <1>1, <1>2 DEF NotMore, IsAmount

(* The account changes, to what is not less where no order is under way. *)
LEMMA NewsNotMoreStep ==
  ASSUME SInv, NewsNotMore, SInv',
         NEW n \in {1, 2}, NEW cs, cs \in [1 .. n -> Currencies], Len(cs) = n, Changed(cs),
         \A c \in Currencies : /\ handled[c] <= handled'[c]
                               /\ handled[c] >= placed[c] => bank[c].free <= bank'[c].free,
         UNCHANGED <<exchange, theGateway, theStrategy>>
  PROVE  NewsNotMore'
<1>1. /\ exchange' = exchange /\ account' = account /\ frames' = frames /\ placed' = placed
      /\ exchange \in {"okex", "binance"}
  BY DEF theGateway, theStrategy, SInv, Typed
<1>2. /\ handled \in [Currencies -> Nat] /\ placed \in [Currencies -> Nat] /\ IsCurrencies(bank)
      /\ handled' \in [Currencies -> Nat] /\ IsCurrencies(bank)' /\ Typed
  BY DEF SInv, Typed
<1>3. ASSUME NEW c \in Currencies, NEW b, NEW k \in Nat, NotMore(b, k, c)
      PROVE  NotMore(b, k, c)'
  <2>1. placed[c] <= placed'[c] /\ placed' \in [Currencies -> Nat]
    BY <1>1, <1>2
  <2>. QED  BY <1>2, <1>3, <2>1, NotMoreStep
<1>4. /\ \A i \in DOMAIN stream : i \in DOMAIN stream' /\ stream'[i] = stream[i]
      /\ \A i \in DOMAIN stream' \ DOMAIN stream :
           \E C \in SUBSET Currencies : IsNews(C, stream'[i])
  <2>1. /\ \A i \in DOMAIN stream : i \in DOMAIN stream' /\ stream'[i] = stream[i]
        /\ \A i \in DOMAIN stream' \ DOMAIN stream :
             /\ exchange = "binance" => IsNews(Currencies, stream'[i])
             /\ exchange = "okex" => \E c \in Currencies : IsNews({c}, stream'[i])
    BY <1>2, ChangedFacts
  <2>2. ASSUME NEW i \in DOMAIN stream' \ DOMAIN stream
        PROVE  \E C \in SUBSET Currencies : IsNews(C, stream'[i])
    <3>1. CASE exchange = "binance"
      <4>1. IsNews(Currencies, stream'[i])
        BY <2>1, <3>1
      <4>. QED  BY <4>1
    <3>2. CASE exchange = "okex"
      <4>1. PICK c \in Currencies : IsNews({c}, stream'[i])
        BY <2>1, <3>2
      <4>2. {c} \in SUBSET Currencies
        OBVIOUS
      <4>. QED  BY <4>1, <4>2
    <3>. QED  BY <1>1, <3>1, <3>2
  <2>. QED  BY <2>1, <2>2
<1>5. ASSUME NEW i \in DOMAIN stream'
      PROVE  /\ stream'[i].handled \in [Currencies -> Nat]
             /\ \A c \in Currencies :
                  NewsIn(c, i)' => NotMore(stream[i].told[c], stream[i].handled[c], c)'
  <2>1. CASE i \in DOMAIN stream
    <3>1. stream'[i] = stream[i] /\ stream[i].handled \in [Currencies -> Nat]
      BY <1>4, <2>1 DEF NewsNotMore
    <3>2. ASSUME NEW c \in Currencies, NewsIn(c, i)'
          PROVE  NotMore(stream[i].told[c], stream[i].handled[c], c)'
      <4>1. PICK b, k : b = stream'[i].told[c] /\ k = stream'[i].handled[c]
        OBVIOUS
      <4>2. NotMore(b, k, c) /\ k \in Nat
        BY <2>1, <3>1, <3>2, <4>1 DEF NewsNotMore, NewsIn
      <4>3. NotMore(b, k, c)'
        BY <1>3, <4>2
      <4>. QED  BY <4>1, <4>3 DEF NotMore
    <3>. QED  BY <3>1, <3>2
  <2>2. CASE i \notin DOMAIN stream
    <3>1. PICK C \in SUBSET Currencies : IsNews(C, stream'[i])
      BY <1>4, <2>2
    <3>2. /\ stream'[i].handled = handled' /\ DOMAIN stream'[i].told = C
          /\ \A c \in C : stream'[i].told[c] = bank'[c]
      BY <3>1 DEF IsNews
    <3>3. ASSUME NEW c \in Currencies, NewsIn(c, i)'
          PROVE  NotMore(stream[i].told[c], stream[i].handled[c], c)'
      <4>1. stream'[i].told[c] = bank'[c] /\ stream'[i].handled[c] = handled'[c]
        BY <3>2, <3>3 DEF NewsIn
      <4>2. IsAmount(bank'[c]) /\ handled'[c] \in Nat /\ bank'[c].free \in Nat
        BY <1>2 DEF IsCurrencies, IsAmount
      <4>. QED  BY <4>1, <4>2 DEF NotMore, IsAmount
    <3>. QED  BY <1>2, <3>2, <3>3
  <2>. QED  BY <2>1, <2>2
<1>6. account.is = "answered" =>
        /\ account.handled \in [Currencies -> Nat]
        /\ \A c \in Currencies : NotMore(account.bank[c], account.handled[c], c)'
  <2>1. ASSUME account.is = "answered", NEW c \in Currencies
        PROVE  NotMore(account.bank[c], account.handled[c], c)'
    <3>1. PICK b, k : b = account.bank[c] /\ k = account.handled[c]
      OBVIOUS
    <3>2. NotMore(b, k, c) /\ k \in Nat
      BY <2>1, <3>1 DEF NewsNotMore
    <3>3. NotMore(b, k, c)'
      BY <1>3, <3>2
    <3>. QED  BY <1>1, <3>1, <3>3 DEF NotMore
  <2>. QED  BY <2>1 DEF NewsNotMore
<1>7. ASSUME NEW i \in DOMAIN frames, NEW c \in Currencies, FrameOf(c, i)
      PROVE  NotMore(frames[i].told[Name(c)], frames[i].handled[c], c)'
  <2>1. PICK b, k : b = frames[i].told[Name(c)] /\ k = frames[i].handled[c]
    OBVIOUS
  <2>2. NotMore(b, k, c) /\ k \in Nat
    BY <1>7, <2>1 DEF NewsNotMore
  <2>3. NotMore(b, k, c)'
    BY <1>3, <2>2
  <2>. QED  BY <1>1, <2>1, <2>3 DEF NotMore
<1>. QED  BY <1>1, <1>5, <1>6, <1>7 DEF NewsNotMore, FrameOf

(* The exchange's steps: what the strategy believes does not change. *)
LEMMA AcceptCovered ==
  ASSUME BalancesAssumption, CInv, NEW o, Accept(o), SInv'
  PROVE  CInv'
<1>. DEFINE p == o.pays
<1>1. /\ o \in Orders /\ p \in Currencies /\ o.cost \in Nat /\ sent \subseteq Orders
      /\ o \in SentOf(p)
  BY OrderFacts DEF CInv, SInv, Typed, Accept, SentOf
<1>2. /\ sent' = sent \ {o} /\ handled' = [handled EXCEPT ![p] = @ + 1]
      /\ bank[p].free >= o.cost /\ bank' = Move(p, -o.cost, o.cost) /\ Changed(<<p>>)
      /\ UNCHANGED <<exchange, theGateway, theStrategy>>
      /\ UNCHANGED <<balance, doing, placed, refused, crossed>>
  BY DEF Accept, theStrategy, remembered
<1>3. /\ IsCurrencies(bank) /\ handled \in [Currencies -> Nat] /\ placed \in [Currencies -> Nat]
      /\ Handled /\ \A c \in Currencies : IsCovered(c)
  BY DEF CInv, SInv, Typed
<1>4. bank[p].free \in Nat /\ bank[p].free + (-o.cost) \in Nat /\ -o.cost \in Int
  BY <1>1, <1>2, <1>3 DEF IsCurrencies, IsAmount
<1>5. bank'[p].free = bank[p].free - o.cost /\ \A c \in Currencies : c # p => bank'[c] = bank[c]
  BY <1>1, <1>2, <1>3, <1>4, MoveFacts
<1>6. SentOf(p)' = SentOf(p) \ {o} /\ \A c : c # p => SentOf(c)' = SentOf(c)
  BY <1>2 DEF SentOf
<1>7. /\ Cardinality(SentOf(p)) \in Nat
      /\ Cardinality(SentOf(p)') = Cardinality(SentOf(p)) - 1
      /\ Cardinality(SentOf(p)') \in Nat
  <2>1. IsFiniteSet(SentOf(p)) /\ Cardinality(SentOf(p)) \in Nat
    BY <1>1, SentFacts
  <2>2. /\ Cardinality(SentOf(p) \ {o}) = Cardinality(SentOf(p)) - 1
        /\ IsFiniteSet(SentOf(p) \ {o})
    BY <1>1, <2>1, FS_RemoveElement
  <2>3. Cardinality(SentOf(p) \ {o}) \in Nat
    BY <2>2, FS_CardinalityType
  <2>. QED  BY <1>6, <2>1, <2>2, <2>3
<1>8. handled[p] < placed[p]
  BY <1>1, <1>3, <1>7 DEF Handled
<1>9. NewsNotMore'
  <2>1. <<p>> \in [1 .. 1 -> Currencies] /\ Len(<<p>>) = 1
    BY <1>1
  <2>2. ASSUME NEW c \in Currencies
        PROVE  /\ handled[c] <= handled'[c]
               /\ handled[c] >= placed[c] => bank[c].free <= bank'[c].free
    <3>1. bank[c].free \in Nat /\ handled[c] \in Nat
      BY <1>3 DEF IsCurrencies, IsAmount
    <3>2. CASE c = p
      BY <1>1, <1>2, <1>3, <1>8, <3>2
    <3>3. CASE c # p
      BY <1>2, <1>3, <1>5, <3>1, <3>3
    <3>. QED  BY <3>2, <3>3
  <2>. QED  BY <1>2, <2>1, <2>2, NewsNotMoreStep DEF CInv
<1>10. Handled'
  <2>1. ASSUME NEW c \in Currencies PROVE handled'[c] + Cardinality(SentOf(c)') = placed[c]
    <3>1. CASE c = p
      BY <1>1, <1>2, <1>3, <1>7, <3>1 DEF Handled
    <3>2. CASE c # p
      BY <1>2, <1>3, <1>6, <3>2 DEF Handled
    <3>. QED  BY <3>1, <3>2
  <2>. QED  BY <1>2, <2>1 DEF Handled
<1>11. CallOK' /\ Covered'
  BY <1>2 DEF CInv, CallOK, Covered
<1>12. ASSUME NEW c \in Currencies PROVE IsCovered(c)'
  <2>1. SetAside(c)' = SetAside(c) /\ SetAside(c) \in Nat
    BY <1>2, SetAsideFacts DEF SetAside, CInv, SInv
  <2>2. CASE c = p
    <3>1. Name(p) \in DOMAIN balance /\ IsCovered(p)
      BY <1>1, <1>3 DEF IsCovered
    <3>2. Cost[SentOf(p)'] = Cost[SentOf(p)] - o.cost /\ Cost[SentOf(p)] \in Nat
      <4>1. SentOf(p) \in SUBSET Orders /\ Cost[SentOf(p)] \in Nat
        BY <1>1, SentFacts
      <4>2. Cost[SentOf(p)] = Cost[SentOf(p) \ {o}] + o.cost /\ Cost[SentOf(p) \ {o}] \in Nat
        <5>1. SentOf(p) \ {o} \in SUBSET Orders
          BY <4>1
        <5>. QED  BY <1>1, <4>1, <5>1, CostFacts
      <4>. QED  BY <1>1, <1>6, <4>1, <4>2
    <3>. QED  BY <1>1, <1>2, <1>4, <1>5, <2>1, <2>2, <3>1, <3>2 DEF IsCovered
  <2>3. CASE c # p
    <3>1. IsCovered(c) /\ SentOf(c)' = SentOf(c) /\ bank'[c] = bank[c]
      BY <1>3, <1>5, <1>6, <2>3
    <3>. QED  BY <1>2, <2>1, <3>1 DEF IsCovered
  <2>. QED  BY <2>2, <2>3
<1>. QED  BY <1>9, <1>10, <1>11, <1>12 DEF CInv

(* A cancelled or filled order leaves no less. *)
LEMMA MoreCovered ==
  ASSUME BalancesAssumption, CInv, SInv',
         NEW n \in {1, 2}, NEW cs, cs \in [1 .. n -> Currencies], Len(cs) = n, Changed(cs),
         \A c \in Currencies : bank[c].free <= bank'[c].free,
         UNCHANGED <<exchange, theGateway, theStrategy, handled, sent, remembered>>
  PROVE  CInv'
<1>1. UNCHANGED <<balance, doing, placed, sent, handled, refused, crossed>>
  BY DEF theStrategy, remembered
<1>2. /\ IsCurrencies(bank) /\ IsCurrencies(bank)' /\ handled \in [Currencies -> Nat]
      /\ sent \subseteq Orders /\ Typed
  BY DEF CInv, SInv, Typed
<1>3. NewsNotMore'
  <2>1. \A c \in Currencies : handled[c] <= handled'[c]
    BY <1>1, <1>2
  <2>. QED  BY <2>1, NewsNotMoreStep DEF CInv
<1>4. Handled' /\ CallOK' /\ Covered'
  BY <1>1 DEF CInv, Handled, SentOf, CallOK, Covered
<1>5. ASSUME NEW c \in Currencies PROVE IsCovered(c)'
  <2>1. SetAside(c)' = SetAside(c) /\ SetAside(c) \in Nat /\ SentOf(c)' = SentOf(c)
    BY <1>1, <1>2, SetAsideFacts DEF SetAside, SentOf
  <2>2. Cost[SentOf(c)] \in Nat
    BY <1>2, SentFacts
  <2>3. bank[c].free \in Nat /\ bank'[c].free \in Nat
    BY <1>2 DEF IsCurrencies, IsAmount
  <2>. QED  BY <1>1, <2>1, <2>2, <2>3 DEF CInv, IsCovered
<1>. QED  BY <1>3, <1>4, <1>5 DEF CInv

LEMMA CancelCovered ==
  ASSUME BalancesAssumption, CInv, NEW o \in Orders \cup OldOrders, Cancel(o), SInv'
  PROVE  CInv'
<1>. DEFINE p == o.pays
<1>1. p \in Currencies /\ o.cost \in Nat /\ IsCurrencies(bank)
  BY OrderFacts DEF CInv, SInv, Typed
<1>2. \A c \in Currencies : bank[c].free \in Nat
  BY <1>1 DEF IsCurrencies, IsAmount
<1>3. bank' = Move(p, o.cost, -o.cost) /\ Changed(<<p>>)
      /\ UNCHANGED <<exchange, theGateway, theStrategy, handled, sent, remembered>>
  BY DEF Cancel
<1>4. bank[p].free + o.cost \in Nat /\ -o.cost \in Int /\ o.cost \in Int
  BY <1>1, <1>2
<1>5. bank'[p].free = bank[p].free + o.cost /\ \A c \in Currencies : c # p => bank'[c] = bank[c]
  BY <1>1, <1>3, <1>4, MoveFacts
<1>6. \A c \in Currencies : bank[c].free <= bank'[c].free
  BY <1>1, <1>2, <1>5
<1>7. <<p>> \in [1 .. 1 -> Currencies] /\ Len(<<p>>) = 1
  BY <1>1
<1>. QED  BY <1>3, <1>6, <1>7, MoreCovered

LEMMA FillCovered ==
  ASSUME BalancesAssumption, CInv, NEW o \in Orders \cup OldOrders, Fill(o), SInv'
  PROVE  CInv'
<1>. DEFINE p == o.pays
            g == o.gets
            paid == Move(p, 0, -o.cost)
<1>1. p \in Currencies /\ g \in Currencies /\ o.cost \in Nat /\ o.gain \in Nat /\
        IsCurrencies(bank)
  BY OrderFacts DEF CInv, SInv, Typed
<1>2. \A c \in Currencies : bank[c].free \in Nat
  BY <1>1 DEF IsCurrencies, IsAmount
<1>3. bank' = [paid EXCEPT ![g].free = @ + o.gain] /\ Changed(<<p, g>>)
      /\ UNCHANGED <<exchange, theGateway, theStrategy, handled, sent, remembered>>
  BY DEF Fill
<1>4. bank[p].free + 0 \in Nat /\ -o.cost \in Int
  BY <1>1, <1>2
<1>5. /\ paid = [d \in Currencies |-> paid[d]] /\ \A d \in Currencies : IsAmount(paid[d])
      /\ paid[p].free = bank[p].free + 0 /\ \A c \in Currencies : c # p => paid[c] = bank[c]
  BY <1>1, <1>4, MoveFacts
<1>. HIDE DEF paid
<1>6. \A c \in Currencies : paid[c].free = bank[c].free
  BY <1>2, <1>5
<1>7. /\ \A c \in Currencies : c # g => bank'[c] = paid[c]
      /\ bank'[g] = [free |-> paid[g].free + o.gain, freezed |-> paid[g].freezed]
  <2>1. paid[g] = [free |-> paid[g].free, freezed |-> paid[g].freezed]
    BY <1>1, <1>5 DEF IsAmount
  <2>2. bank' = [d \in Currencies |-> IF d = g THEN [paid[d] EXCEPT !.free = @ + o.gain]
                                      ELSE paid[d]]
    BY <1>1, <1>3, <1>5
  <2>. QED  BY <1>1, <2>1, <2>2
<1>8. bank'[g].free = bank[g].free + o.gain
  BY <1>1, <1>6, <1>7
<1>9. \A c \in Currencies : bank[c].free <= bank'[c].free
  BY <1>1, <1>2, <1>6, <1>7, <1>8
<1>10. <<p, g>> \in [1 .. 2 -> Currencies] /\ Len(<<p, g>>) = 2
  BY <1>1
<1>. QED  BY <1>3, <1>9, <1>10, MoreCovered

(* What is refused was not there: the strategy believed to have it. *)
LEMMA RefuseCovered ==
  ASSUME BalancesAssumption, CInv, NEW o, Refuse(o), SInv'
  PROVE  CInv'
<1>. DEFINE p == o.pays
<1>1. /\ o \in Orders /\ p \in Currencies /\ o.cost \in Nat /\ sent \subseteq Orders
      /\ o \in SentOf(p) /\ Typed
  BY OrderFacts DEF CInv, SInv, Typed, Refuse, SentOf
<1>2. /\ sent' = sent \ {o} /\ handled' = [handled EXCEPT ![p] = @ + 1]
      /\ bank[p].free < o.cost /\ refused' = refused \cup {p}
      /\ UNCHANGED <<bank, stream, account, frames, balance, doing, placed, crossed>>
  BY DEF Refuse, theGateway, theStrategy
<1>3. /\ IsCurrencies(bank) /\ IsCurrencies(bank)'
      /\ handled \in [Currencies -> Nat] /\ placed \in [Currencies -> Nat]
      /\ handled' \in [Currencies -> Nat] /\ placed' \in [Currencies -> Nat]
      /\ Handled /\ Covered /\ \A c \in Currencies : IsCovered(c)
  BY DEF CInv, SInv, Typed
<1>4. \A c \in Currencies : bank[c].free \in Nat /\ handled[c] <= handled'[c]
  BY <1>1, <1>2, <1>3 DEF IsCurrencies, IsAmount
<1>5. SentOf(p)' = SentOf(p) \ {o} /\ \A c : c # p => SentOf(c)' = SentOf(c)
  BY <1>2 DEF SentOf
<1>6. /\ Cardinality(SentOf(p)) \in Nat
      /\ Cardinality(SentOf(p)') = Cardinality(SentOf(p)) - 1
  <2>1. IsFiniteSet(SentOf(p)) /\ Cardinality(SentOf(p)) \in Nat
    BY <1>1, SentFacts
  <2>2. Cardinality(SentOf(p) \ {o}) = Cardinality(SentOf(p)) - 1
    BY <1>1, <2>1, FS_RemoveElement
  <2>. QED  BY <1>5, <2>1, <2>2
<1>7. p \in crossed
  <2>1. Name(p) \in DOMAIN balance /\ IsCovered(p)
    BY <1>1, <1>3 DEF IsCovered
  <2>2. o.cost <= Cost[SentOf(p)] /\ Cost[SentOf(p)] \in Nat /\ SetAside(p) \in Nat
    BY <1>1, SentFacts, SetAsideFacts
  <2>. QED  BY <1>1, <1>2, <1>4, <2>1, <2>2 DEF IsCovered
<1>8. Covered'
  BY <1>2, <1>3, <1>7 DEF Covered
<1>9. \A c \in Currencies : \A b : \A n \in Nat : NotMore(b, n, c) => NotMore(b, n, c)'
  BY <1>2, <1>3, <1>4 DEF NotMore
<1>10. NewsNotMore'
  BY <1>2, <1>9 DEF CInv, NewsNotMore, NewsIn, FrameOf
<1>11. Handled'
  <2>1. ASSUME NEW c \in Currencies PROVE handled'[c] + Cardinality(SentOf(c)') = placed[c]
    <3>1. CASE c = p
      BY <1>1, <1>2, <1>3, <1>6, <3>1 DEF Handled
    <3>2. CASE c # p
      BY <1>2, <1>3, <1>5, <3>2 DEF Handled
    <3>. QED  BY <3>1, <3>2
  <2>. QED  BY <1>2, <2>1 DEF Handled
<1>12. CallOK'
  BY <1>2 DEF CInv, CallOK
<1>13. ASSUME NEW c \in Currencies PROVE IsCovered(c)'
  <2>1. IsCovered(c) /\ SetAside(c)' = SetAside(c)
    BY <1>2, <1>3 DEF SetAside
  <2>2. CASE c = p
    <3>1. Name(p) \in DOMAIN balance
      BY <1>1, <1>3 DEF IsCovered
    <3>. QED  BY <1>2, <1>7, <2>1, <2>2, <3>1 DEF IsCovered
  <2>3. CASE c # p
    BY <1>2, <1>5, <2>1, <2>3 DEF IsCovered
  <2>. QED  BY <2>2, <2>3
<1>. QED  BY <1>8, <1>10, <1>11, <1>12, <1>13 DEF CInv

(* Steps that move nothing but news. *)
LEMMA SameCovered ==
  ASSUME CInv, SInv', NewsNotMore',
         UNCHANGED <<bank, handled, balance, doing, placed, sent, refused, crossed>>
  PROVE  CInv'
<1>1. Handled' /\ CallOK' /\ Covered'
  BY DEF CInv, Handled, SentOf, CallOK, Covered
<1>2. \A c \in Currencies : IsCovered(c)'
  BY DEF CInv, IsCovered, SentOf, SetAside
<1>. QED  BY <1>1, <1>2 DEF CInv

LEMMA AnswerCovered ==
  ASSUME BalancesAssumption, CInv, AnswerQuery, SInv'
  PROVE  CInv'
<1>1. /\ UNCHANGED <<bank, handled, balance, doing, placed, sent, refused, crossed, stream,
           frames>>
      /\ account' = [is |-> "answered", bank |-> bank, n |-> events, handled |-> handled]
  BY DEF AnswerQuery, theExchange, theStrategy, remembered
<1>2. handled \in [Currencies -> Nat] /\ placed \in [Currencies -> Nat] /\ IsCurrencies(bank)
  BY DEF CInv, SInv, Typed
<1>3. ASSUME NEW c \in Currencies PROVE NotMore(bank[c], handled[c], c)
  <2>1. handled[c] \in Nat /\ IsAmount(bank[c]) /\ bank[c].free \in Nat
    BY <1>2 DEF IsCurrencies, IsAmount
  <2>. QED  BY <2>1 DEF NotMore
<1>4. NewsNotMore'
  <2>1. \A c \in Currencies : \A b, n : NotMore(b, n, c) => NotMore(b, n, c)'
    BY <1>1 DEF NotMore
  <2>2. account'.bank = bank /\ account'.handled = handled
    BY <1>1
  <2>. QED  BY <1>1, <1>2, <1>3, <2>1, <2>2 DEF CInv, NewsNotMore, NewsIn, FrameOf
<1>. QED  BY <1>1, <1>4, SameCovered

(* What is put at the end of the frames is as old as what it is of. *)
LEMMA FramesNotMore ==
  ASSUME CInv, NEW new, IsSeq(new), frames' = frames \o new,
         UNCHANGED <<bank, handled, placed>>,
         \A i \in DOMAIN new :
           /\ new[i].handled \in [Currencies -> Nat]
           /\ \A c \in Currencies : Name(c) \in DOMAIN new[i].told =>
                NotMore(new[i].told[Name(c)], new[i].handled[c], c)
  PROVE  \A i \in DOMAIN frames' :
           /\ frames'[i].handled \in [Currencies -> Nat]
           /\ \A c \in Currencies :
                FrameOf(c, i)' => NotMore(frames[i].told[Name(c)], frames[i].handled[c], c)'
<1>1. /\ IsSeq(frames) /\ Len(frames) \in Nat /\ DOMAIN frames = 1 .. Len(frames)
      /\ Len(new) \in Nat /\ DOMAIN new = 1 .. Len(new)
  BY SeqFacts DEF CInv, SInv, Typed
<1>2. /\ IsSeq(frames') /\ Len(frames') = Len(frames) + Len(new)
      /\ \A i \in 1 .. Len(frames) : frames'[i] = frames[i]
      /\ \A i \in 1 .. Len(new) : frames'[Len(frames) + i] = new[i]
  BY <1>1, ConcatFacts
<1>3. DOMAIN frames' = 1 .. Len(frames')
  BY <1>2, SeqFacts
<1>4. ASSUME NEW i \in DOMAIN frames'
      PROVE  \/ i \in DOMAIN frames /\ frames'[i] = frames[i]
             \/ \E k \in DOMAIN new : frames'[i] = new[k]
  <2>1. CASE i \in DOMAIN frames
    BY <1>1, <1>2, <2>1
  <2>2. CASE i \notin DOMAIN frames
    <3>1. i - Len(frames) \in DOMAIN new /\ Len(frames) + (i - Len(frames)) = i
      BY <1>1, <1>2, <1>3, <2>2
    <3>. QED  BY <1>1, <1>2, <3>1
  <2>. QED  BY <2>1, <2>2
<1>5. ASSUME NEW i \in DOMAIN frames'
      PROVE  /\ frames'[i].handled \in [Currencies -> Nat]
             /\ \A c \in Currencies : Name(c) \in DOMAIN frames'[i].told =>
                  NotMore(frames'[i].told[Name(c)], frames'[i].handled[c], c)
  <2>1. CASE i \in DOMAIN frames /\ frames'[i] = frames[i]
    BY <2>1 DEF CInv, NewsNotMore, FrameOf
  <2>2. CASE \E k \in DOMAIN new : frames'[i] = new[k]
    BY <2>2
  <2>. QED  BY <1>4, <2>1, <2>2
<1>. QED  BY <1>5 DEF FrameOf, NotMore

LEMMA OnWsMessageCovered ==
  ASSUME BalancesAssumption, CInv, OnWsMessage, SInv'
  PROVE  CInv'
<1>. DEFINE m == stream[1]
<1>1. /\ stream # <<>> /\ stream' = Tail(stream)
      /\ UNCHANGED <<exchange, bank, handled, account, balance, doing, placed, sent, refused,
           crossed>>
  BY DEF OnWsMessage, theStrategy
<1>2. /\ IsSeq(stream) /\ Len(stream) \in Nat /\ DOMAIN stream = 1 .. Len(stream)
      /\ IsSeq(stream') /\ Len(stream) >= 1 /\ Len(stream') = Len(stream) - 1
      /\ Head(stream) = m
      /\ \A i \in 1 .. Len(stream) - 1 : stream'[i] = stream[i + 1]
  BY <1>1, SeqFacts, TailFacts DEF CInv, SInv, Typed
<1>3. \A i \in DOMAIN stream' : i + 1 \in DOMAIN stream /\ stream'[i] = stream[i + 1]
  BY <1>2, SeqFacts
<1>4. /\ m.handled \in [Currencies -> Nat]
      /\ \A c \in Currencies : c \in DOMAIN m.told => NotMore(m.told[c], m.handled[c], c)
  BY <1>2 DEF CInv, NewsNotMore, NewsIn
<1>5. \A c \in Currencies : \A b, n : NotMore(b, n, c) => NotMore(b, n, c)'
  BY <1>1 DEF NotMore
<1>6. \A i \in DOMAIN frames' :
        /\ frames'[i].handled \in [Currencies -> Nat]
        /\ \A c \in Currencies :
             FrameOf(c, i)' => NotMore(frames[i].told[Name(c)], frames[i].handled[c], c)'
  <2>1. CASE exchange = "okex"
    <3>. DEFINE d == CHOOSE x \in DOMAIN m.told : TRUE
                f == Frame(Name(d), m.told[d], m)
    <3>1. \E x \in Currencies : DOMAIN m.told = {x}
      BY <1>2, <2>1 DEF CInv, SInv, StreamOK
    <3>2. DOMAIN m.told = {d} /\ d \in Currencies
      BY <3>1
    <3>3. frames' = Append(frames, f)
      BY <1>2, <2>1 DEF OnWsMessage, OKOnRtnBalance
    <3>4. f.told = [y \in {Name(d)} |-> m.told[d]] /\ f.handled = m.handled
      BY DEF Frame
    <3>. HIDE DEF f, d, m
    <3>5. ASSUME NEW c \in Currencies, Name(c) \in DOMAIN f.told
          PROVE  NotMore(f.told[Name(c)], f.handled[c], c)
      <4>1. c = d
        BY <3>4, <3>5, Names
      <4>. QED  BY <1>4, <3>2, <3>4, <4>1
    <3>6. frames' = frames \o <<f>> /\ IsSeq(<<f>>) /\ <<f>>[1] = f /\ DOMAIN <<f>> = {1}
      <4>1. PICK S : frames \in Seq(S)
        BY DEF CInv, SInv, Typed, IsSeq
      <4>2. frames \in Seq(S \cup {f}) /\ f \in S \cup {f}
        BY <4>1
      <4>3. Append(frames, f) = frames \o <<f>>
        BY <4>2
      <4>4. <<f>> \in Seq({f}) /\ <<f>>[1] = f /\ DOMAIN <<f>> = {1}
        OBVIOUS
      <4>. QED  BY <3>3, <4>3, <4>4 DEF IsSeq
    <3>7. f.handled \in [Currencies -> Nat]
      BY <1>4, <3>4
    <3>. QED  BY <1>1, <3>5, <3>6, <3>7, FramesNotMore
  <2>2. CASE exchange = "binance" /\ NotLater(m)
    <3>1. frames' = frames
      BY <1>2, <2>2 DEF OnWsMessage, BNOnRtnAccount
    <3>. QED  BY <1>5, <3>1 DEF CInv, NewsNotMore, FrameOf
  <2>3. CASE exchange = "binance" /\ ~NotLater(m)
    <3>1. PICK news \in InOrder(NotZero(m.told)) :
             frames' = frames \o [i \in DOMAIN news |->
                         Frame(Name(Listed[news[i]]), m.told[Listed[news[i]]], m)]
      <4>1. BNOnRtnAccount(m)
        BY <1>2, <2>3 DEF OnWsMessage
      <4>. QED  BY <2>3, <4>1 DEF BNOnRtnAccount
    <3>. DEFINE new == [i \in DOMAIN news |->
                          Frame(Name(Listed[news[i]]), m.told[Listed[news[i]]], m)]
    <3>2. /\ NotZero(m.told) \subseteq 1 .. Len(Listed) /\ Len(Listed) \in Nat
          /\ news \in [1 .. Cardinality(NotZero(m.told)) -> NotZero(m.told)]
      BY DEF NotZero, InOrder, BalancesAssumption
    <3>3. Cardinality(NotZero(m.told)) \in Nat
      <4>1. IsFiniteSet(1 .. Len(Listed))
        BY <3>2, FS_Interval
      <4>2. IsFiniteSet(NotZero(m.told))
        BY <3>2, <4>1, FS_Subset
      <4>. QED  BY <4>2, FS_CardinalityType
    <3>4. IsSeq(new) /\ frames' = frames \o new
      BY <3>1, <3>2, <3>3, FunctionIsSeq
    <3>5. \A i \in DOMAIN new :
            /\ Listed[news[i]] \in Currencies
            /\ new[i].told = [y \in {Name(Listed[news[i]])} |-> m.told[Listed[news[i]]]]
            /\ new[i].handled = m.handled
      BY <3>2 DEF Frame, Currencies
    <3>6. DOMAIN m.told = Currencies
      BY <1>2, <2>3 DEF CInv, SInv, StreamOK
    <3>. HIDE DEF new, m
    <3>7. ASSUME NEW i \in DOMAIN new, NEW c \in Currencies, Name(c) \in DOMAIN new[i].told
          PROVE  NotMore(new[i].told[Name(c)], new[i].handled[c], c)
      <4>. DEFINE d == Listed[news[i]]
      <4>1. new[i].told = [y \in {Name(d)} |-> m.told[d]]
        BY <3>5
      <4>. HIDE DEF d
      <4>2. d = c
        BY <3>7, <4>1, Names
      <4>3. new[i].told[Name(c)] = m.told[c] /\ new[i].handled = m.handled
        BY <3>5, <4>1, <4>2
      <4>. QED  BY <1>4, <3>6, <4>3
    <3>8. \A i \in DOMAIN new : new[i].handled \in [Currencies -> Nat]
      BY <1>4, <3>5
    <3>. QED  BY <1>1, <3>4, <3>7, <3>8, FramesNotMore
  <2>. QED  BY <2>1, <2>2, <2>3 DEF CInv, SInv, Typed
<1>7. NewsNotMore'
  <2>1. \A i \in DOMAIN stream' :
          /\ stream'[i].handled \in [Currencies -> Nat]
          /\ \A c \in Currencies : c \in DOMAIN stream'[i].told =>
               NotMore(stream'[i].told[c], stream'[i].handled[c], c)
    BY <1>3 DEF CInv, NewsNotMore, NewsIn
  <2>2. \A i \in DOMAIN stream' :
          /\ stream'[i].handled \in [Currencies -> Nat]
          /\ \A c \in Currencies :
               NewsIn(c, i)' => NotMore(stream[i].told[c], stream[i].handled[c], c)'
    BY <1>1, <2>1 DEF NewsIn, NotMore
  <2>3. account.is = "answered" =>
          /\ account.handled \in [Currencies -> Nat]
          /\ \A c \in Currencies : NotMore(account.bank[c], account.handled[c], c)'
    BY <1>1 DEF CInv, NewsNotMore, NotMore
  <2>. QED  BY <1>1, <1>6, <2>2, <2>3 DEF NewsNotMore
<1>. QED  BY <1>1, <1>7, SameCovered

LEMMA OnRspQryUserInfoCovered ==
  ASSUME BalancesAssumption, CInv, OnRspQryUserInfo, SInv'
  PROVE  CInv'
<1>. DEFINE told == [x \in {AsListed(c) : c \in InAnswer} |-> account.bank[x[1]]]
            f == [of |-> "account", told |-> told, handled |-> account.handled]
<1>1. /\ account.is = "answered" /\ account' = [is |-> "written"] /\ frames' = Append(frames, f)
      /\ UNCHANGED <<exchange, bank, handled, stream, balance, doing, placed, sent, refused,
           crossed>>
  BY DEF OnRspQryUserInfo, theExchange, theStrategy
<1>2. f.told = told /\ f.handled = account.handled
  OBVIOUS
<1>3. ASSUME NEW c \in Currencies, Name(c) \in DOMAIN told
      PROVE  told[Name(c)] = account.bank[c]
  <2>1. Name(c)[1] = c
    BY DEF Name
  <2>. QED  BY <1>3, <2>1
<1>. HIDE DEF told, f
<1>4. frames' = frames \o <<f>> /\ IsSeq(<<f>>) /\ <<f>>[1] = f /\ DOMAIN <<f>> = {1}
  <2>1. PICK S : frames \in Seq(S)
    BY DEF CInv, SInv, Typed, IsSeq
  <2>2. frames \in Seq(S \cup {f}) /\ f \in S \cup {f}
    BY <2>1
  <2>3. Append(frames, f) = frames \o <<f>>
    BY <2>2
  <2>4. <<f>> \in Seq({f}) /\ <<f>>[1] = f /\ DOMAIN <<f>> = {1}
    OBVIOUS
  <2>. QED  BY <1>1, <2>3, <2>4 DEF IsSeq
<1>5. /\ f.handled \in [Currencies -> Nat]
      /\ \A c \in Currencies : Name(c) \in DOMAIN f.told =>
           NotMore(f.told[Name(c)], f.handled[c], c)
  BY <1>1, <1>2, <1>3 DEF CInv, NewsNotMore
<1>6. \A i \in DOMAIN frames' :
        /\ frames'[i].handled \in [Currencies -> Nat]
        /\ \A c \in Currencies :
             FrameOf(c, i)' => NotMore(frames[i].told[Name(c)], frames[i].handled[c], c)'
  BY <1>1, <1>4, <1>5, FramesNotMore
<1>7. account'.is # "answered"
  BY <1>1
<1>8. NewsNotMore'
  BY <1>1, <1>6, <1>7 DEF CInv, NewsNotMore, NewsIn, NotMore
<1>. QED  BY <1>1, <1>8, SameCovered

LEMMA StoreFreeCovered ==
  ASSUME BalancesAssumption, CInv, StoreFree, SInv'
  PROVE  CInv'
<1>. DEFINE f == frames[1]
<1>1. /\ frames # <<>> /\ doing["data"] = Idle /\ frames' = Tail(frames)
      /\ UNCHANGED <<bank, handled, stream, account, placed, sent, refused>>
  BY DEF StoreFree, theExchange
<1>2. /\ IsSeq(frames) /\ Len(frames) \in Nat /\ DOMAIN frames = 1 .. Len(frames)
      /\ IsSeq(frames') /\ Len(frames) >= 1 /\ Len(frames') = Len(frames) - 1
      /\ Head(frames) = f /\ \A i \in 1 .. Len(frames) - 1 : frames'[i] = frames[i + 1]
  BY <1>1, SeqFacts, TailFacts DEF CInv, SInv, Typed
<1>3. \A i \in DOMAIN frames' : i + 1 \in DOMAIN frames /\ frames'[i] = frames[i + 1]
  BY <1>2, SeqFacts
<1>4. /\ doing' = [doing EXCEPT !["data"] = [pc |-> "told", f |-> f]]
      /\ balance' = [x \in DOMAIN balance \cup DOMAIN f.told |->
                       [KnownOr0(x) EXCEPT !.free = IF x \in DOMAIN f.told THEN f.told[x].free
                                                                          ELSE @]]
      /\ crossed' = crossed \cup {c \in Currencies : Name(c) \in DOMAIN f.told
                                                     /\ f.handled[c] < placed[c]}
  BY <1>2 DEF StoreFree
<1>5. /\ f.handled \in [Currencies -> Nat]
      /\ \A c \in Currencies : Name(c) \in DOMAIN f.told =>
           NotMore(f.told[Name(c)], f.handled[c], c)
  BY <1>2 DEF CInv, NewsNotMore, FrameOf
<1>. HIDE DEF f
<1>6. /\ doing = [t \in StrategyThreads |-> doing[t]] /\ "data" \in StrategyThreads
      /\ Typed /\ sent \subseteq Orders
      /\ handled \in [Currencies -> Nat] /\ placed \in [Currencies -> Nat] /\ IsCurrencies(bank)
      /\ \A c \in Currencies : Name(c) \in DOMAIN balance =>
           balance[Name(c)] = [free |-> balance[Name(c)].free,
                               freezed |-> balance[Name(c)].freezed]
  BY DEF CInv, SInv, Typed, StrategyThreads
<1>7. doing'["data"] = [pc |-> "told", f |-> f]
  BY <1>4, <1>6
<1>8. doing'["data"].pc = "told" /\ doing["data"].pc = "idle"
  BY <1>1, <1>7 DEF Idle
<1>9. DOMAIN balance' = DOMAIN balance \cup DOMAIN f.told
  BY <1>4
<1>10. ASSUME NEW c \in Currencies, Name(c) \in DOMAIN balance'
       PROVE  /\ Name(c) \in DOMAIN f.told => balance'[Name(c)].free = f.told[Name(c)].free
              /\ Name(c) \notin DOMAIN f.told => balance'[Name(c)].free = balance[Name(c)].free
  <2>1. balance'[Name(c)] = [KnownOr0(Name(c)) EXCEPT !.free =
                               IF Name(c) \in DOMAIN f.told THEN f.told[Name(c)].free ELSE @]
    BY <1>4, <1>9, <1>10
  <2>2. KnownOr0(Name(c)) =
          [free |-> KnownOr0(Name(c)).free, freezed |-> KnownOr0(Name(c)).freezed]
    BY <1>6 DEF KnownOr0, Nothing
  <2>3. Name(c) \notin DOMAIN f.told => KnownOr0(Name(c)) = balance[Name(c)]
    BY <1>9, <1>10 DEF KnownOr0
  <2>. QED  BY <2>1, <2>2, <2>3
<1>11. NewsNotMore'
  <2>1. \A i \in DOMAIN frames' :
          /\ frames'[i].handled \in [Currencies -> Nat]
          /\ \A c \in Currencies : Name(c) \in DOMAIN frames'[i].told =>
               NotMore(frames'[i].told[Name(c)], frames'[i].handled[c], c)
    BY <1>3 DEF CInv, NewsNotMore, FrameOf
  <2>2. \A i \in DOMAIN frames' :
          /\ frames'[i].handled \in [Currencies -> Nat]
          /\ \A c \in Currencies :
               FrameOf(c, i)' => NotMore(frames[i].told[Name(c)], frames[i].handled[c], c)'
    BY <1>1, <2>1 DEF FrameOf, NotMore
  <2>. QED  BY <1>1, <2>2 DEF CInv, NewsNotMore, NewsIn, NotMore
<1>12. Handled' /\ Covered'
  BY <1>1, <1>4 DEF CInv, Handled, SentOf, Covered
<1>13. CallOK'
  BY <1>8 DEF CallOK, Calling
<1>14. ASSUME NEW c \in Currencies PROVE IsCovered(c)'
  <2>1. /\ SetAside(c) = 0 /\ SetAside(c)' = 0 /\ SentOf(c)' = SentOf(c) /\ IsCovered(c)
        /\ bank' = bank
    BY <1>1, <1>6, <1>8, SetAsideFacts DEF SetAside, SentOf, CInv
  <2>2. Cost[SentOf(c)] \in Nat /\ Cardinality(SentOf(c)) \in Nat
        /\ (Cardinality(SentOf(c)) = 0 => SentOf(c) = {} /\ Cost[SentOf(c)] = 0)
    BY <1>6, SentFacts
  <2>3. CASE Name(c) \in DOMAIN f.told
    <3>1. /\ NotMore(f.told[Name(c)], f.handled[c], c) /\ f.handled[c] \in Nat
          /\ f.told[Name(c)].free \in Nat
      BY <1>5, <2>3 DEF NotMore, IsAmount
    <3>2. Name(c) \in DOMAIN balance' /\ balance'[Name(c)].free = f.told[Name(c)].free
      BY <1>9, <1>10, <2>3
    <3>3. ASSUME c \notin crossed'
          PROVE  f.told[Name(c)].free <= bank[c].free /\ Cost[SentOf(c)] = 0
      <4>1. f.handled[c] >= placed[c]
        BY <1>4, <1>6, <2>3, <3>1, <3>3
      <4>2. f.told[Name(c)].free <= bank[c].free /\ handled[c] >= placed[c]
        BY <1>6, <3>1, <4>1 DEF NotMore
      <4>3. Cardinality(SentOf(c)) = 0
        BY <1>6, <2>2, <4>2 DEF CInv, Handled
      <4>. QED  BY <2>2, <4>2, <4>3
    <3>. QED  BY <2>1, <2>2, <3>1, <3>2, <3>3 DEF IsCovered
  <2>4. CASE Name(c) \notin DOMAIN f.told
    <3>1. crossed \subseteq crossed'
      BY <1>4
    <3>2. Name(c) \in DOMAIN balance' <=> Name(c) \in DOMAIN balance
      BY <1>9, <2>4
    <3>3. Name(c) \in DOMAIN balance => balance'[Name(c)].free = balance[Name(c)].free
      BY <1>9, <1>10, <2>4
    <3>. QED  BY <2>1, <3>1, <3>2, <3>3 DEF IsCovered
  <2>. QED  BY <2>3, <2>4
<1>. QED  BY <1>11, <1>12, <1>13, <1>14 DEF CInv

(* Steps of the strategy that leave what is sent. *)
LEMMA BelievedCovered ==
  ASSUME CInv, SInv', CallOK',
         UNCHANGED <<bank, handled, stream, frames, placed, sent, refused, crossed>>,
         account' = account \/ account'.is # "answered",
         DOMAIN balance' = DOMAIN balance,
         \A c \in Currencies : Name(c) \in DOMAIN balance =>
           /\ balance'[Name(c)].free \in Nat
           /\ balance'[Name(c)].free + SetAside(c)' = balance[Name(c)].free + SetAside(c)
  PROVE  CInv'
<1>1. NewsNotMore'
  BY DEF CInv, NewsNotMore, NewsIn, FrameOf, NotMore
<1>2. Handled' /\ Covered'
  BY DEF CInv, Handled, SentOf, Covered
<1>3. \A c \in Currencies : IsCovered(c)'
  BY DEF CInv, IsCovered, SentOf
<1>. QED  BY <1>1, <1>2, <1>3 DEF CInv

LEMMA StoreFreezedCovered ==
  ASSUME BalancesAssumption, CInv, StoreFreezed, SInv'
  PROVE  CInv'
<1>. DEFINE f == doing["data"].f
<1>1. /\ doing["data"].pc = "told"
      /\ balance' = [x \in DOMAIN balance |-> [balance[x] EXCEPT !.freezed = FreezedOf(x, f)]]
      /\ doing' = [doing EXCEPT !["data"] = Idle]
      /\ account' = account \/ account' = [is |-> "read"]
      /\ UNCHANGED <<bank, handled, stream, frames, placed, sent, refused, crossed>>
  BY DEF StoreFreezed, theExchange, remembered
<1>. HIDE DEF f
<1>2. /\ doing = [t \in StrategyThreads |-> doing[t]] /\ "data" \in StrategyThreads
      /\ Typed /\ \A c \in Currencies : Name(c) \in DOMAIN balance =>
           balance[Name(c)] = [free |-> balance[Name(c)].free,
                               freezed |-> balance[Name(c)].freezed]
  BY DEF CInv, SInv, Typed, StrategyThreads
<1>3. doing'["data"] = Idle
  BY <1>1, <1>2
<1>4. doing'["data"].pc = "idle"
  BY <1>3 DEF Idle
<1>5. CallOK'
  BY <1>4 DEF CallOK, Calling
<1>6. ASSUME NEW c \in Currencies, Name(c) \in DOMAIN balance
      PROVE  /\ balance'[Name(c)].free \in Nat
             /\ balance'[Name(c)].free + SetAside(c)' = balance[Name(c)].free + SetAside(c)
  <2>1. balance'[Name(c)] = [free |-> balance[Name(c)].free, freezed |-> FreezedOf(Name(c), f)]
    BY <1>1, <1>2, <1>6
  <2>2. balance'[Name(c)].free = balance[Name(c)].free /\ balance[Name(c)].free \in Nat
    BY <1>6, <2>1 DEF CInv, IsCovered
  <2>3. SetAside(c) = 0 /\ SetAside(c)' = 0
    BY <1>1, <1>4 DEF SetAside
  <2>. QED  BY <2>2, <2>3
<1>7. DOMAIN balance' = DOMAIN balance /\ (account' = account \/ account'.is # "answered")
  BY <1>1
<1>. QED  BY <1>1, <1>5, <1>6, <1>7, BelievedCovered

(* Without the main thread, one thread reads news and places orders. *)
LEMMA OnlyData ==
  ASSUME BalancesAssumption, "main" \notin Callers, NEW t \in Callers
  PROVE  t = "data"
BY DEF BalancesAssumption

LEMMA CheckOrderCovered ==
  ASSUME BalancesAssumption, "main" \notin Callers, CInv, SInv',
         NEW t \in Callers, NEW o \in Orders, CheckOrder(t, o)
  PROVE  CInv'
<1>1. t = "data" /\ "data" \in StrategyThreads /\ Typed
  BY OnlyData DEF CInv, SInv, StrategyThreads
<1>2. PICK pc, v :
        /\ pc = "loadFree"
        /\ doing["data"].pc = "idle" /\ Enough(o) /\ o \notin sent
        /\ Name(o.pays) \in DOMAIN balance
        /\ doing' = [doing EXCEPT !["data"] = [pc |-> pc, order |-> o, value |-> v]]
        /\ UNCHANGED <<bank, handled, stream, account, frames, balance, placed, sent,
             refused, crossed>>
  BY <1>1 DEF CheckOrder, Stands, Goes, theExchange, theGateway, remembered
<1>3. doing'["data"] = [pc |-> pc, order |-> o, value |-> v]
  BY <1>1, <1>2 DEF Typed
<1>4. doing'["data"].pc = pc /\ doing'["data"].order = o
  BY <1>3
<1>5. o.pays \in Currencies /\ o.cost \in Nat /\ balance[Name(o.pays)].free \in Nat
  BY <1>2, OrderFacts DEF CInv, IsCovered
<1>6. o.cost <= balance[Name(o.pays)].free
  BY <1>2, <1>5 DEF Enough
<1>7. CallOK'
  BY <1>2, <1>4, <1>6 DEF CallOK
<1>8. ASSUME NEW c \in Currencies, Name(c) \in DOMAIN balance
      PROVE  /\ balance'[Name(c)].free \in Nat
             /\ balance'[Name(c)].free + SetAside(c)' = balance[Name(c)].free + SetAside(c)
  <2>1. balance[Name(c)].free \in Nat
    BY <1>8 DEF CInv, IsCovered
  <2>2. SetAside(c) = 0 /\ SetAside(c)' = 0
    BY <1>2, <1>4 DEF SetAside
  <2>. QED  BY <1>2, <2>1, <2>2
<1>. QED  BY <1>2, <1>7, <1>8, BelievedCovered

LEMMA LoadFreeCovered ==
  ASSUME BalancesAssumption, "main" \notin Callers, CInv, SInv', NEW t \in Callers, LoadFree(t)
  PROVE  CInv'
<1>0. t = "data" /\ "data" \in StrategyThreads /\ Typed
  BY OnlyData DEF CInv, SInv, StrategyThreads
<1>1. PICK pc, o, v :
        /\ pc = "storeFree" /\ o = doing["data"].order /\ v = balance[Name(o.pays)].free
        /\ doing["data"].pc = "loadFree"
        /\ doing' = [doing EXCEPT !["data"] = [pc |-> pc, order |-> o, value |-> v]]
        /\ UNCHANGED <<bank, handled, stream, account, frames, balance, placed, sent,
             refused, crossed>>
  BY <1>0 DEF LoadFree, Stands, Goes, Paid, theExchange, theGateway, remembered
<1>2. doing'["data"] = [pc |-> pc, order |-> o, value |-> v]
  BY <1>0, <1>1 DEF Typed
<1>3. doing'["data"].pc = pc /\ doing'["data"].order = o /\ doing'["data"].value = v
  BY <1>2
<1>4. o \notin sent /\ o.cost <= balance[Name(o.pays)].free
  BY <1>1 DEF CInv, CallOK, Calling
<1>5. CallOK'
  BY <1>1, <1>3, <1>4 DEF CallOK
<1>6. ASSUME NEW c \in Currencies, Name(c) \in DOMAIN balance
      PROVE  /\ balance'[Name(c)].free \in Nat
             /\ balance'[Name(c)].free + SetAside(c)' = balance[Name(c)].free + SetAside(c)
  <2>1. balance[Name(c)].free \in Nat
    BY <1>6 DEF CInv, IsCovered
  <2>2. SetAside(c) = 0 /\ SetAside(c)' = 0
    BY <1>1, <1>3 DEF SetAside
  <2>. QED  BY <1>1, <2>1, <2>2
<1>. QED  BY <1>1, <1>5, <1>6, BelievedCovered

LEMMA TakeFreeCovered ==
  ASSUME BalancesAssumption, "main" \notin Callers, CInv, SInv', NEW t \in Callers, TakeFree(t)
  PROVE  CInv'
<1>0. t = "data" /\ "data" \in StrategyThreads /\ Typed
  BY OnlyData DEF CInv, SInv, StrategyThreads
<1>1. PICK pc, o, v :
        /\ pc = "loadFreezed" /\ o = doing["data"].order
        /\ doing["data"].pc = "storeFree" /\ Stands(t, "storeFree")
        /\ balance' = [balance EXCEPT ![Name(o.pays)].free = doing["data"].value - o.cost]
        /\ doing' = [doing EXCEPT !["data"] = [pc |-> pc, order |-> o, value |-> v]]
        /\ UNCHANGED <<bank, handled, stream, account, frames, placed, sent, refused, crossed>>
  BY <1>0 DEF TakeFree, Stands, Goes, Paid, theExchange, theGateway, remembered
<1>2. doing'["data"] = [pc |-> pc, order |-> o, value |-> v]
  BY <1>0, <1>1 DEF Typed
<1>3. doing'["data"].pc = pc /\ doing'["data"].order = o
  BY <1>2
<1>4. /\ o \notin sent /\ doing["data"].value = balance[Name(o.pays)].free
      /\ o.cost <= doing["data"].value
  BY <1>1 DEF CInv, CallOK, Calling
<1>5. CallOK'
  BY <1>1, <1>3, <1>4 DEF CallOK
<1>6. o.pays \in Currencies /\ o.cost \in Nat /\ Name(o.pays) \in DOMAIN balance
  BY <1>0, <1>1, DoingFacts DEF Calling
<1>7. balance = [x \in DOMAIN balance |-> balance[x]]
      /\ \A c \in Currencies : Name(c) \in DOMAIN balance =>
           balance[Name(c)] = [free |-> balance[Name(c)].free,
                               freezed |-> balance[Name(c)].freezed]
  BY <1>0 DEF Typed
<1>8. /\ DOMAIN balance' = DOMAIN balance
      /\ \A x \in DOMAIN balance : x # Name(o.pays) => balance'[x] = balance[x]
      /\ balance'[Name(o.pays)].free = doing["data"].value - o.cost
  BY <1>1, <1>6, <1>7
<1>9. ASSUME NEW c \in Currencies, Name(c) \in DOMAIN balance
      PROVE  /\ balance'[Name(c)].free \in Nat
             /\ balance'[Name(c)].free + SetAside(c)' = balance[Name(c)].free + SetAside(c)
  <2>1. balance[Name(c)].free \in Nat /\ SetAside(c) = 0
    BY <1>1, <1>9 DEF CInv, IsCovered, SetAside
  <2>2. CASE c = o.pays
    <3>1. SetAside(c)' = o.cost
      BY <1>1, <1>3, <2>2 DEF SetAside
    <3>2. balance'[Name(c)].free = balance[Name(c)].free - o.cost
      BY <1>4, <1>8, <2>2
    <3>. QED  BY <1>4, <1>6, <2>1, <2>2, <3>1, <3>2
  <2>3. CASE c # o.pays
    <3>1. SetAside(c)' = 0
      BY <1>3, <2>3 DEF SetAside
    <3>2. balance'[Name(c)] = balance[Name(c)]
      BY <1>8, <1>9, <2>3, Names
    <3>. QED  BY <2>1, <3>1, <3>2
  <2>. QED  BY <2>2, <2>3
<1>. QED  BY <1>1, <1>5, <1>8, <1>9, BelievedCovered

LEMMA LoadFreezedCovered ==
  ASSUME BalancesAssumption, "main" \notin Callers, CInv, SInv', NEW t \in Callers,
    LoadFreezed(t)
  PROVE  CInv'
<1>0. t = "data" /\ "data" \in StrategyThreads /\ Typed
  BY OnlyData DEF CInv, SInv, StrategyThreads
<1>1. PICK pc, o, v :
        /\ pc = "storeFreezed" /\ o = doing["data"].order
        /\ doing["data"].pc = "loadFreezed"
        /\ doing' = [doing EXCEPT !["data"] = [pc |-> pc, order |-> o, value |-> v]]
        /\ UNCHANGED <<bank, handled, stream, account, frames, balance, placed, sent,
             refused, crossed>>
  BY <1>0 DEF LoadFreezed, Stands, Goes, Paid, theExchange, theGateway, remembered
<1>2. doing'["data"] = [pc |-> pc, order |-> o, value |-> v]
  BY <1>0, <1>1 DEF Typed
<1>3. doing'["data"].pc = pc /\ doing'["data"].order = o
  BY <1>2
<1>4. o \notin sent
  BY <1>1 DEF CInv, CallOK, Calling
<1>5. CallOK'
  BY <1>1, <1>3, <1>4 DEF CallOK
<1>6. ASSUME NEW c \in Currencies, Name(c) \in DOMAIN balance
      PROVE  /\ balance'[Name(c)].free \in Nat
             /\ balance'[Name(c)].free + SetAside(c)' = balance[Name(c)].free + SetAside(c)
  <2>1. balance[Name(c)].free \in Nat
    BY <1>6 DEF CInv, IsCovered
  <2>2. SetAside(c)' = SetAside(c)
    BY <1>1, <1>3 DEF SetAside
  <2>. QED  BY <1>1, <2>1, <2>2
<1>. QED  BY <1>1, <1>5, <1>6, BelievedCovered

LEMMA PlaceCovered ==
  ASSUME BalancesAssumption, "main" \notin Callers, CInv, SInv', NEW t \in Callers, Place(t)
  PROVE  CInv'
<1>0. t = "data" /\ "data" \in StrategyThreads /\ Typed
  BY OnlyData DEF CInv, SInv, StrategyThreads
<1>1. PICK o :
        /\ o = doing["data"].order
        /\ doing["data"].pc = "storeFreezed" /\ Stands(t, "storeFreezed")
        /\ balance' = [balance EXCEPT ![Name(o.pays)].freezed = doing["data"].value + o.cost]
        /\ doing' = [doing EXCEPT !["data"] = Idle]
        /\ placed' = [placed EXCEPT ![o.pays] = @ + 1] /\ sent' = sent \cup {o}
        /\ UNCHANGED <<bank, handled, stream, account, frames, refused, crossed>>
  BY <1>0 DEF Place, Stands, Paid, theExchange, theGateway, remembered
<1>2. doing'["data"].pc = "idle"
  BY <1>0, <1>1 DEF Typed, Idle
<1>3. o \notin sent
  BY <1>1 DEF CInv, CallOK, Calling
<1>4. CallOK' /\ Covered'
  BY <1>1, <1>2 DEF CInv, CallOK, Covered, Calling
<1>5. o \in Orders /\ o.pays \in Currencies /\ o.cost \in Nat /\ Name(o.pays) \in DOMAIN balance
  BY <1>0, <1>1, DoingFacts DEF Calling
<1>6. /\ balance = [x \in DOMAIN balance |-> balance[x]]
      /\ \A c \in Currencies : Name(c) \in DOMAIN balance =>
           balance[Name(c)] = [free |-> balance[Name(c)].free,
                               freezed |-> balance[Name(c)].freezed]
      /\ sent \subseteq Orders /\ sent' \subseteq Orders
      /\ handled \in [Currencies -> Nat] /\ placed \in [Currencies -> Nat]
      /\ placed' \in [Currencies -> Nat] /\ IsCurrencies(bank)
  BY <1>0 DEF Typed, CInv, SInv
<1>7. /\ DOMAIN balance' = DOMAIN balance
      /\ \A c \in Currencies : Name(c) \in DOMAIN balance =>
           balance'[Name(c)].free = balance[Name(c)].free
  <2>1. DOMAIN balance' = DOMAIN balance
    BY <1>1, <1>6
  <2>2. ASSUME NEW c \in Currencies, Name(c) \in DOMAIN balance
        PROVE  balance'[Name(c)].free = balance[Name(c)].free
    <3>1. CASE c = o.pays
      <4>1. balance'[Name(c)] =
              [balance[Name(c)] EXCEPT !.freezed = doing["data"].value + o.cost]
        BY <1>1, <1>6, <2>2, <3>1
      <4>. QED  BY <1>6, <2>2, <4>1
    <3>2. CASE c # o.pays
      BY <1>1, <1>6, <2>2, <3>2, Names
    <3>. QED  BY <3>1, <3>2
  <2>. QED  BY <2>1, <2>2
<1>8. SentOf(o.pays)' = SentOf(o.pays) \cup {o} /\ \A c : c # o.pays => SentOf(c)' = SentOf(c)
  <2>1. sent' = sent \cup {o}
    BY <1>1
  <2>2. ASSUME NEW c PROVE SentOf(c)' = {d \in sent \cup {o} : d.pays = c}
    BY <2>1 DEF SentOf
  <2>3. {d \in sent \cup {o} : d.pays = o.pays} = SentOf(o.pays) \cup {o}
    BY DEF SentOf
  <2>4. \A c : c # o.pays => {d \in sent \cup {o} : d.pays = c} = SentOf(c)
    BY DEF SentOf
  <2>5. SentOf(o.pays)' = {d \in sent' : d.pays = o.pays}
    BY <2>1 DEF SentOf
  <2>. QED  BY <2>1, <2>2, <2>3, <2>4, <2>5
<1>9. /\ SentOf(o.pays) \in SUBSET Orders /\ IsFiniteSet(SentOf(o.pays))
      /\ o \notin SentOf(o.pays)
      /\ Cardinality(SentOf(o.pays)) \in Nat /\ Cost[SentOf(o.pays)] \in Nat
  BY <1>3, <1>6, SentFacts DEF SentOf
<1>10. Cardinality(SentOf(o.pays) \cup {o}) = Cardinality(SentOf(o.pays)) + 1
  BY <1>9, FS_AddElement
<1>11. Cost[SentOf(o.pays) \cup {o}] = Cost[SentOf(o.pays)] + o.cost
  BY <1>5, <1>9, CostFacts
<1>12. Handled'
  <2>1. ASSUME NEW c \in Currencies PROVE handled'[c] + Cardinality(SentOf(c)') = placed'[c]
    <3>1. handled[c] + Cardinality(SentOf(c)) = placed[c] /\ handled' = handled
      BY <1>1 DEF CInv, Handled
    <3>2. CASE c = o.pays
      <4>1. placed'[c] = placed[c] + 1 /\ handled[c] \in Nat
        BY <1>1, <1>6, <3>2
      <4>2. Cardinality(SentOf(c)') = Cardinality(SentOf(c)) + 1
        BY <1>8, <1>10, <3>2
      <4>. QED  BY <1>9, <3>1, <3>2, <4>1, <4>2
    <3>3. CASE c # o.pays
      BY <1>1, <1>6, <1>8, <3>1, <3>3
    <3>. QED  BY <3>2, <3>3
  <2>. QED  BY <2>1 DEF Handled
<1>13. NewsNotMore'
  <2>1. \A c \in Currencies : placed[c] \in Nat /\ placed'[c] \in Nat /\ placed[c] <= placed'[c]
    BY <1>1, <1>5, <1>6
  <2>2. \A c \in Currencies : \A b : \A n \in Nat : NotMore(b, n, c) => NotMore(b, n, c)'
    BY <1>1, <2>1 DEF NotMore
  <2>. QED  BY <1>1, <2>2 DEF CInv, NewsNotMore, NewsIn, FrameOf
<1>14. ASSUME NEW c \in Currencies PROVE IsCovered(c)'
  <2>1. IsCovered(c) /\ SetAside(c)' = 0 /\ bank[c].free \in Nat
    BY <1>2, <1>6 DEF CInv, SetAside, IsCurrencies, IsAmount
  <2>2. CASE c = o.pays
    <3>1. SetAside(c) = o.cost
      BY <1>1, <2>2 DEF SetAside
    <3>2. Cost[SentOf(c)'] = Cost[SentOf(c)] + o.cost /\ Cost[SentOf(c)] \in Nat
      BY <1>8, <1>9, <1>11, <2>2
    <3>3. /\ Name(c) \in DOMAIN balance /\ Name(c) \in DOMAIN balance'
          /\ balance'[Name(c)].free = balance[Name(c)].free
          /\ crossed' = crossed /\ bank' = bank
      BY <1>1, <1>5, <1>7, <2>2
    <3>4. /\ balance[Name(c)].free \in Nat
          /\ c \notin crossed =>
               balance[Name(c)].free + o.cost + Cost[SentOf(c)] <= bank[c].free
      BY <2>1, <3>1, <3>3 DEF IsCovered
    <3>5. c \notin crossed =>
            balance[Name(c)].free + 0 + (Cost[SentOf(c)] + o.cost) <= bank[c].free
      BY <1>5, <2>1, <3>2, <3>4
    <3>. QED  BY <2>1, <3>2, <3>3, <3>4, <3>5 DEF IsCovered
  <2>3. CASE c # o.pays
    <3>1. SetAside(c) = 0 /\ SentOf(c)' = SentOf(c)
      BY <1>1, <1>8, <2>3 DEF SetAside
    <3>. QED  BY <1>1, <1>7, <2>1, <3>1 DEF IsCovered
  <2>. QED  BY <2>2, <2>3
<1>. QED  BY <1>4, <1>12, <1>13, <1>14 DEF CInv

-----------------------------------------------------------------------------
LEMMA CInvInit ==
  ASSUME BalancesAssumption, FundsInit
  PROVE  CInv
<1>1. SInv
  BY InitStep
<1>2. /\ sent = {} /\ handled = [c \in Currencies |-> 0] /\ placed = [c \in Currencies |-> 0]
      /\ stream = <<>> /\ frames = <<>> /\ balance = NotKnown /\ refused = {}
      /\ doing = [t \in {"main", "data"} |-> Idle] /\ account = [is |-> "asked"]
  BY Zenon DEF FundsInit
<1>3. DOMAIN <<>> = {} /\ DOMAIN NotKnown = {}
  BY DEF NotKnown
<1>4. \A c : SentOf(c) = {}
  BY <1>2 DEF SentOf
<1>5. Handled
  <2>1. Cardinality({}) = 0
    BY FS_EmptySet
  <2>2. ASSUME NEW c \in Currencies PROVE handled[c] + Cardinality(SentOf(c)) = placed[c]
    <3>1. handled[c] = 0 /\ placed[c] = 0
      BY <1>2
    <3>. QED  BY <1>4, <2>1, <3>1
  <2>. QED  BY <2>2 DEF Handled
<1>6. NewsNotMore
  BY <1>2, <1>3 DEF NewsNotMore
<1>7. CallOK /\ Covered
  BY <1>2 DEF CallOK, Covered, Idle, Calling
<1>8. \A c \in Currencies : IsCovered(c)
  BY <1>2, <1>3, <1>4 DEF IsCovered
<1>. QED  BY <1>1, <1>5, <1>6, <1>7, <1>8 DEF CInv

LEMMA CInvStep ==
  ASSUME BalancesAssumption, "main" \notin Callers, CInv, [FundsNext]_funds
  PROVE  CInv'
<1>0. SInv'
  BY SInvStep DEF CInv
<1>1. ASSUME NEW o \in Orders \cup OldOrders, Accept(o) \/ Refuse(o) \/ Fill(o) \/ Cancel(o)
      PROVE  CInv'
  BY <1>0, <1>1, AcceptCovered, RefuseCovered, FillCovered, CancelCovered
<1>2. CASE AnswerQuery \/ OnWsMessage \/ OnRspQryUserInfo \/ StoreFree \/ StoreFreezed
  BY <1>0, <1>2, AnswerCovered, OnWsMessageCovered, OnRspQryUserInfoCovered, StoreFreeCovered,
     StoreFreezedCovered
<1>3. ASSUME NEW t \in Callers, InsertOrder(t) PROVE CInv'
  BY <1>0, <1>3, CheckOrderCovered, LoadFreeCovered, TakeFreeCovered, LoadFreezedCovered,
     PlaceCovered DEF InsertOrder
<1>4. CASE UNCHANGED funds
  <2>1. UNCHANGED <<bank, handled, stream, account, frames, balance, doing, placed, sent,
                    refused, crossed>>
    BY <1>4 DEF funds, theExchange, theGateway, theStrategy, remembered
  <2>2. NewsNotMore'
    BY <2>1 DEF CInv, NewsNotMore, NewsIn, FrameOf, NotMore
  <2>. QED  BY <1>0, <2>1, <2>2, SameCovered
<1>. QED  BY <1>1, <1>2, <1>3, <1>4 DEF FundsNext

(* When the data thread places all orders: an order that has passed        *)
(* CheckOrder is covered when it gets to the exchange, unless news of the  *)
(* currency were read that had been sent before an order arrived.          *)
THEOREM OrdersAreCovered ==
  ASSUME BalancesAssumption, "main" \notin Callers PROVE FundsSpec => []Covered
<1>1. FundsInit => CInv
  BY CInvInit
<1>2. CInv /\ [FundsNext]_funds => CInv'
  BY CInvStep
<1>3. CInv => Covered
  BY DEF CInv
<1>. QED  BY <1>1, <1>2, <1>3, PTL DEF FundsSpec
=============================================================================
