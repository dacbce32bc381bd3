------------------------ MODULE MarketGatewayProofs ------------------------
(***************************************************************************)
(* Proofs about MarketGateway, for every set of strategies, every set of   *)
(* channels and every fault: the count of a channel, with the frames the   *)
(* gateway has not read yet, is the number of its subscribers, and no      *)
(* count of OKEX's map falls below zero; and about the books of either     *)
(* exchange, for any prices, volumes and numbers of changes: those that    *)
(* are handed on are true.                                                 *)
(***************************************************************************)
EXTENDS MarketGateway, Books, FiniteSetTheorems, SequenceTheorems, WellFoundedInduction,
        TLAPS

-----------------------------------------------------------------------------
(* The inductive invariant.                                                *)

Messages == [msg : {"sub", "unsub"}, ch : Channels]
Sub(c) == [msg |-> "sub", ch |-> c]
Unsub(c) == [msg |-> "unsub", ch |-> c]

(* How often m is among the first k of a sequence. *)
Spots(s, m, k) == {i \in 1 .. k : s[i] = m}
Often(s, m, k) == Cardinality(Spots(s, m, k))

(* What the first k frames that are not read yet make of a channel's count *)
Net(s, c, k) == Often(s, Sub(c), k) - Often(s, Unsub(c), k)
Unreads(c) == frames[Gateway(c)]

Typed ==
  /\ subs \in [Strategies -> SUBSET Channels]
  /\ frames \in [{"okex", "binance"} -> Seq(Messages)]
  /\ DOMAIN num \subseteq Channels /\ \A c \in DOMAIN num : num[c] \in Int
  /\ \A c \in Channels : IsFiniteSet(Subscribers(c))

(* A subscription is counted before it is withdrawn, and all that are      *)
(* counted or to be read have a subscriber.                                *)
NeverShort ==
  \A c \in Channels : Counted(c) =>
    \A k \in 0 .. Len(Unreads(c)) : Count(c) + Net(Unreads(c), c, k) >= 0
Balance ==
  \A c \in Channels : Counted(c) =>
    LET n == Count(c) + Net(Unreads(c), c, Len(Unreads(c))) IN
    /\ n >= Cardinality(Subscribers(c))
    /\ c \notin forgotten => n = Cardinality(Subscribers(c))

(* In OKEX's map an order book is counted at least once, and no ticker or  *)
(* kline less than not at all: the zeros of those are kept.                *)
NoCountBelow ==
  \A c \in Okex \cap DOMAIN num : num[c] >= IF c \in Depths THEN 1 ELSE 0

IInv == Typed /\ NeverShort /\ Balance /\ NoCountBelow

-----------------------------------------------------------------------------
(* Counting in a sequence.                                                 *)

LEMMA OftenType ==
  ASSUME NEW s, NEW m, NEW k \in Nat
  PROVE  IsFiniteSet(Spots(s, m, k)) /\ Often(s, m, k) \in Nat
<1>1. IsFiniteSet(1 .. k)
  BY FS_Interval
<1>2. IsFiniteSet(Spots(s, m, k))
  BY <1>1, FS_Subset DEF Spots
<1> QED BY <1>2, FS_CardinalityType DEF Often

LEMMA OftenNone == ASSUME NEW s, NEW m PROVE Often(s, m, 0) = 0
<1>1. Spots(s, m, 0) = {}
  BY DEF Spots
<1> QED BY <1>1, FS_EmptySet DEF Often

LEMMA OftenNext ==
  ASSUME NEW s, NEW m, NEW k \in Nat
  PROVE  Often(s, m, k + 1) = Often(s, m, k) + IF s[k + 1] = m THEN 1 ELSE 0
<1>1. k + 1 \notin Spots(s, m, k)
  BY DEF Spots
<1>2. CASE s[k + 1] = m
  <2>1. Spots(s, m, k + 1) = Spots(s, m, k) \cup {k + 1}
    BY <1>2 DEF Spots
  <2> QED BY <1>1, <1>2, <2>1, OftenType, FS_AddElement DEF Often
<1>3. CASE s[k + 1] # m
  <2>1. Spots(s, m, k + 1) = Spots(s, m, k)
    BY <1>3 DEF Spots
  <2> QED BY <1>3, <2>1, OftenType DEF Often
<1> QED BY <1>2, <1>3

LEMMA OftenAppend ==
  ASSUME NEW S, NEW s \in Seq(S), NEW x \in S, NEW m
  PROVE  /\ \A k \in 0 .. Len(s) : Often(Append(s, x), m, k) = Often(s, m, k)
         /\ Often(Append(s, x), m, Len(s) + 1)
              = Often(s, m, Len(s)) + IF x = m THEN 1 ELSE 0
         /\ Len(Append(s, x)) = Len(s) + 1
<1>1. /\ Len(s) \in Nat /\ Len(Append(s, x)) = Len(s) + 1
      /\ \A i \in 1 .. Len(s) : Append(s, x)[i] = s[i]
      /\ Append(s, x)[Len(s) + 1] = x
  BY AppendProperties
<1>2. ASSUME NEW k \in 0 .. Len(s) PROVE Often(Append(s, x), m, k) = Often(s, m, k)
  <2>1. Spots(Append(s, x), m, k) = Spots(s, m, k)
    BY <1>1 DEF Spots
  <2> QED BY <2>1 DEF Often
<1>3. Often(Append(s, x), m, Len(s) + 1)
        = Often(Append(s, x), m, Len(s)) + IF x = m THEN 1 ELSE 0
  <2> DEFINE a == Append(s, x)
             n == Len(s)
  <2>1. n \in Nat /\ a[n + 1] = x
    BY <1>1
  <2> HIDE DEF a, n
  <2>2. Often(a, m, n + 1) = Often(a, m, n) + IF a[n + 1] = m THEN 1 ELSE 0
    BY <2>1, OftenNext
  <2> QED BY <2>1, <2>2 DEF a, n
<1>4. Often(Append(s, x), m, Len(s)) = Often(s, m, Len(s))
  BY <1>1, <1>2
<1> QED BY <1>1, <1>2, <1>3, <1>4

LEMMA OftenTail ==
  ASSUME NEW S, NEW s \in Seq(S), s # <<>>, NEW m, NEW k \in 0 .. Len(s) - 1
  PROVE  /\ Often(s, m, k + 1) = Often(Tail(s), m, k) + IF Head(s) = m THEN 1 ELSE 0
         /\ Len(Tail(s)) = Len(s) - 1 /\ Len(s) \in Nat
<1> DEFINE A == Spots(Tail(s), m, k)
           B == {i \in 2 .. k + 1 : s[i] = m}
           f == [i \in A |-> i + 1]
<1>1. /\ Len(s) \in Nat /\ Len(Tail(s)) = Len(s) - 1 /\ Head(s) = s[1]
      /\ \A i \in 1 .. Len(s) - 1 : Tail(s)[i] = s[i + 1]
  BY HeadTailProperties, LenProperties
<1>2. f \in Bijection(A, B)
  <2>1. \A i \in A : i \in 1 .. k /\ i + 1 \in B
    BY <1>1 DEF Spots
  <2>2. \A j \in B : j - 1 \in A /\ j - 1 + 1 = j
    BY <1>1 DEF Spots
  <2>3. \A i, j \in A : i + 1 = j + 1 => i = j
    BY <2>1
  <2> HIDE DEF A, B
  <2>4. f \in Injection(A, B)
    BY <2>1, <2>3 DEF Injection, IsInjective
  <2>5. f \in Surjection(A, B)
    <3>1. \A j \in B : \E i \in A : f[i] = j
      BY <2>2
    <3> QED BY <2>1, <3>1 DEF Surjection
  <2> QED BY <2>4, <2>5 DEF Bijection
<1>3. IsFiniteSet(A) /\ Cardinality(A) \in Nat
  BY OftenType DEF Often
<1>4. IsFiniteSet(B) /\ Cardinality(B) = Cardinality(A)
  BY <1>2, <1>3, FS_Bijection DEF ExistsBijection
<1>5. CASE Head(s) = m
  <2>1. Spots(s, m, k + 1) = B \cup {1} /\ 1 \notin B
    BY <1>1, <1>5 DEF Spots
  <2>2. Cardinality(Spots(s, m, k + 1)) = Cardinality(B) + 1
    BY <1>4, <2>1, FS_AddElement
  <2> QED BY <1>1, <1>4, <1>5, <2>2 DEF Often
<1>6. CASE Head(s) # m
  <2>1. Spots(s, m, k + 1) = B
    BY <1>1, <1>6 DEF Spots
  <2>2. Often(s, m, k + 1) = Often(Tail(s), m, k) /\ Often(Tail(s), m, k) \in Nat
    BY <1>3, <1>4, <2>1 DEF Often
  <2> HIDE DEF A, B
  <2> QED BY <1>1, <1>6, <2>2
<1> QED BY <1>5, <1>6

-----------------------------------------------------------------------------
(* What the steps do to the numbers.                                       *)

LEMMA GatewayType == \A c \in Channels : Gateway(c) \in {"okex", "binance"}
BY DEF Gateway

LEMMA NetType ==
  ASSUME NEW s, NEW c, NEW k \in Nat
  PROVE  Net(s, c, k) \in Int
BY OftenType DEF Net

LEMMA NetNone == ASSUME NEW s, NEW c PROVE Net(s, c, 0) = 0
BY OftenNone DEF Net

LEMMA CountType == ASSUME Typed, NEW c \in Channels PROVE Count(c) \in Int
BY DEF Typed, Count

(* A frame that is appended is the last that counts, for its channel. *)
Weight(c, msg, d) == IF d # c THEN 0 ELSE IF msg = "sub" THEN 1 ELSE -1

LEMMA NetAppend ==
  ASSUME Typed, NEW c \in Channels, NEW msg \in {"sub", "unsub"}, Frame(c, msg),
         NEW d \in Channels
  PROVE  /\ \A k \in 0 .. Len(Unreads(d)) : Net(Unreads(d)', d, k) = Net(Unreads(d), d, k)
         /\ Net(Unreads(d)', d, Len(Unreads(d)'))
              = Net(Unreads(d), d, Len(Unreads(d))) + Weight(c, msg, d)
         /\ Len(Unreads(d)') \in {Len(Unreads(d)), Len(Unreads(d)) + 1}
         /\ frames' \in [{"okex", "binance"} -> Seq(Messages)]
<1> DEFINE m == [msg |-> msg, ch |-> c]
           s == Unreads(d)
<1>1. m \in Messages
  BY DEF Messages
<1>2. /\ frames \in [{"okex", "binance"} -> Seq(Messages)]
      /\ frames' = [frames EXCEPT ![Gateway(c)] = Append(frames[Gateway(c)], m)]
  BY DEF Typed, Frame
<1>3. Append(frames[Gateway(c)], m) \in Seq(Messages)
  BY <1>1, <1>2, GatewayType, AppendProperties
<1>4. frames' \in [{"okex", "binance"} -> Seq(Messages)]
  BY <1>2, <1>3
<1>5. s \in Seq(Messages) /\ Len(s) \in Nat
  BY <1>2, GatewayType, LenProperties DEF Unreads
<1>6. (m = Sub(d) <=> c = d /\ msg = "sub") /\ (m = Unsub(d) <=> c = d /\ msg = "unsub")
  BY DEF Sub, Unsub
<1>7. CASE Gateway(d) = Gateway(c)
  <2>1. Unreads(d)' = Append(s, m)
    BY <1>2, <1>7, GatewayType DEF Unreads, Gateway
  <2> HIDE DEF m, s
  <2>2. \A k \in 0 .. Len(s) : Net(Append(s, m), d, k) = Net(s, d, k)
    <3> SUFFICES ASSUME NEW k \in 0 .. Len(s) PROVE Net(Append(s, m), d, k) = Net(s, d, k)
      OBVIOUS
    <3>1. \A x : Often(Append(s, m), x, k) = Often(s, x, k)
      BY <1>1, <1>5, OftenAppend
    <3> QED BY <3>1 DEF Net
  <2>3. /\ Often(Append(s, m), Sub(d), Len(s) + 1)
             = Often(s, Sub(d), Len(s)) + IF m = Sub(d) THEN 1 ELSE 0
        /\ Often(Append(s, m), Unsub(d), Len(s) + 1)
             = Often(s, Unsub(d), Len(s)) + IF m = Unsub(d) THEN 1 ELSE 0
        /\ Len(Append(s, m)) = Len(s) + 1
    BY <1>1, <1>5, OftenAppend
  <2>4. Often(s, Sub(d), Len(s)) \in Nat /\ Often(s, Unsub(d), Len(s)) \in Nat
    BY <1>5, OftenType
  <2>5. Net(Append(s, m), d, Len(s) + 1) = Net(s, d, Len(s)) + Weight(c, msg, d)
    BY <1>6, <2>3, <2>4 DEF Net, Weight
  <2> QED BY <1>4, <1>5, <2>1, <2>2, <2>3, <2>5 DEF s
<1>8. CASE Gateway(d) # Gateway(c)
  <2>1. Unreads(d)' = s /\ d # c
    BY <1>2, <1>8, GatewayType DEF Unreads, Gateway
  <2>2. Net(s, d, Len(s)) \in Int
    BY <1>5, NetType
  <2> QED BY <1>4, <1>5, <2>1, <2>2 DEF Weight
<1> QED BY <1>7, <1>8

(* The first frame is read: it does not count any more. *)
LEMMA NetRead ==
  ASSUME Typed, NEW c \in Channels, NEW msg \in {"sub", "unsub"}, Reads(c, msg),
         NEW d \in Channels
  PROVE  /\ \/ /\ Len(Unreads(d)) \in Nat /\ Len(Unreads(d)) > 0
               /\ Len(Unreads(d)') = Len(Unreads(d)) - 1
               /\ \A k \in 0 .. Len(Unreads(d)) - 1 :
                    Net(Unreads(d), d, k + 1) = Net(Unreads(d)', d, k) + Weight(c, msg, d)
            \/ d # c /\ Unreads(d)' = Unreads(d)
         /\ frames' \in [{"okex", "binance"} -> Seq(Messages)]
<1> DEFINE m == [msg |-> msg, ch |-> c]
           s == Unreads(d)
<1>1. /\ frames \in [{"okex", "binance"} -> Seq(Messages)]
      /\ frames[Gateway(c)] # <<>> /\ Head(frames[Gateway(c)]) = m
      /\ frames' = [frames EXCEPT ![Gateway(c)] = Tail(frames[Gateway(c)])]
  BY DEF Typed, Reads
<1>2. Tail(frames[Gateway(c)]) \in Seq(Messages)
  BY <1>1, GatewayType, HeadTailProperties
<1>3. frames' \in [{"okex", "binance"} -> Seq(Messages)]
  BY <1>1, <1>2
<1>4. s \in Seq(Messages) /\ Len(s) \in Nat
  BY <1>1, GatewayType, LenProperties DEF Unreads
<1>5. (m = Sub(d) <=> c = d /\ msg = "sub") /\ (m = Unsub(d) <=> c = d /\ msg = "unsub")
  BY DEF Sub, Unsub
<1>6. CASE Gateway(d) = Gateway(c)
  <2>1. Unreads(d)' = Tail(s) /\ s # <<>> /\ Head(s) = m
    BY <1>1, <1>6, GatewayType DEF Unreads, Gateway
  <2> HIDE DEF m, s
  <2>2. Len(Tail(s)) = Len(s) - 1 /\ Len(s) > 0
    BY <1>4, <2>1, HeadTailProperties, EmptySeq, LenProperties
  <2>3. ASSUME NEW k \in 0 .. Len(s) - 1
        PROVE  Net(s, d, k + 1) = Net(Tail(s), d, k) + Weight(c, msg, d)
    <3>1. /\ Often(s, Sub(d), k + 1) = Often(Tail(s), Sub(d), k) + IF m = Sub(d) THEN 1 ELSE 0
          /\ Often(s, Unsub(d), k + 1) = Often(Tail(s), Unsub(d), k) +
                IF m = Unsub(d) THEN 1 ELSE 0
      BY <1>4, <2>1, OftenTail
    <3>2. Often(Tail(s), Sub(d), k) \in Nat /\ Often(Tail(s), Unsub(d), k) \in Nat
      BY OftenType
    <3> QED BY <1>5, <3>1, <3>2 DEF Net, Weight
  <2> QED BY <1>3, <1>4, <2>1, <2>2, <2>3 DEF s
<1>7. CASE Gateway(d) # Gateway(c)
  <2>1. Unreads(d)' = s /\ d # c
    BY <1>1, <1>7, GatewayType DEF Unreads, Gateway
  <2> QED BY <1>3, <2>1
<1> QED BY <1>6, <1>7

-----------------------------------------------------------------------------
(* Kinds of steps.                                                         *)

(* A step that neither subscribes nor reads a frame. *)
LEMMA Apart ==
  ASSUME IInv, UNCHANGED <<subs, forgotten, frames, num>>,
         \A d \in Channels : Counted(d)' => Counted(d)
  PROVE  IInv'
<1>1. \A d \in Channels : /\ Count(d)' = Count(d) /\ Unreads(d)' = Unreads(d)
                          /\ Subscribers(d)' = Subscribers(d)
  BY DEF Count, Unreads, Subscribers
<1>2. Typed' /\ NoCountBelow'
  BY <1>1 DEF IInv, Typed, NoCountBelow
<1>3. NeverShort' /\ Balance'
  BY <1>1 DEF IInv, NeverShort, Balance
<1> QED BY <1>2, <1>3 DEF IInv

(* A step of the gateway: a frame is read, and if the channel is counted   *)
(* after it, it is in the count.                                           *)
LEMMA ReadStep ==
  ASSUME IInv, NEW c \in Channels, NEW msg \in {"sub", "unsub"}, Reads(c, msg),
         UNCHANGED <<subs, forgotten>>,
         DOMAIN num' \subseteq Channels, \A d \in DOMAIN num' : num'[d] \in Int,
         \A d \in Channels : Counted(d)' => Counted(d),
         \A d \in Channels : Counted(d)' => Count(d)' = Count(d) + Weight(c, msg, d),
         NoCountBelow'
  PROVE  IInv'
<1>1. \A d \in Channels : Subscribers(d)' = Subscribers(d)
  BY DEF Subscribers
<1>2. frames' \in [{"okex", "binance"} -> Seq(Messages)]
  BY NetRead DEF IInv
<1>3. Typed'
  BY <1>1, <1>2 DEF IInv, Typed
<1>4. ASSUME NEW d \in Channels, Counted(d)'
      PROVE  /\ \A k \in 0 .. Len(Unreads(d)') : Count(d)' + Net(Unreads(d)', d, k) >= 0
             /\ Count(d)' + Net(Unreads(d)', d, Len(Unreads(d)'))
                  = Count(d) + Net(Unreads(d), d, Len(Unreads(d)))
  <2> DEFINE L == Len(Unreads(d))
             U == Unreads(d)'
             w == Weight(c, msg, d)
  <2>1. /\ Counted(d) /\ Count(d)' = Count(d) + w /\ Count(d) \in Int /\ w \in Int
        /\ \A k \in 0 .. L : Count(d) + Net(Unreads(d), d, k) >= 0
    BY <1>4, CountType DEF IInv, NeverShort, Weight
  <2>2. CASE /\ L \in Nat /\ L > 0 /\ Len(U) = L - 1
             /\ \A k \in 0 .. L - 1 : Net(Unreads(d), d, k + 1) = Net(U, d, k) + w
    <3>1. ASSUME NEW k \in 0 .. L - 1
          PROVE  /\ Count(d)' + Net(U, d, k) = Count(d) + Net(Unreads(d), d, k + 1)
                 /\ k + 1 \in 0 .. L
      <4>1. Net(U, d, k) \in Int
        BY NetType
      <4>2. Net(Unreads(d), d, k + 1) = Net(U, d, k) + w /\ k + 1 \in 0 .. L
        BY <2>2
      <4> HIDE DEF U, L, w
      <4> QED BY <2>1, <4>1, <4>2
    <3>2. \A k \in 0 .. L - 1 : Count(d)' + Net(U, d, k) >= 0
      <4> HIDE DEF U, L, w
      <4> QED BY <2>1, <3>1
    <3>3. Count(d)' + Net(U, d, L - 1) = Count(d) + Net(Unreads(d), d, L - 1 + 1) /\
            L - 1 + 1 = L
      BY <2>2, <3>1
    <3> QED BY <2>2, <3>2, <3>3
  <2>3. CASE d # c /\ U = Unreads(d)
    <3>1. w = 0
      BY <2>3 DEF Weight
    <3>2. Count(d)' = Count(d)
      BY <2>1, <3>1
    <3> QED BY <2>1, <2>3, <3>2
  <2> QED BY <2>2, <2>3, NetRead DEF IInv
<1>5. NeverShort'
  BY <1>4 DEF NeverShort
<1>6. Balance'
  BY <1>1, <1>4 DEF IInv, Balance
<1> QED BY <1>3, <1>5, <1>6 DEF IInv

(* A strategy's step that appends a frame: the subscribers change by as    *)
(* much, or the channel is forgotten.                                      *)
LEMMA FrameStep ==
  ASSUME IInv, NEW c \in Channels, NEW msg \in {"sub", "unsub"}, Frame(c, msg),
         UNCHANGED <<num, spoilt, IsWsConnected>>,
         subs' \in [Strategies -> SUBSET Channels],
         \A d \in Channels : IsFiniteSet(Subscribers(d)'),
         forgotten \subseteq forgotten',
         \A d \in Channels :
           LET n == Cardinality(Subscribers(d)) + Weight(c, msg, d) IN
           /\ n >= Cardinality(Subscribers(d)')
           /\ d \notin forgotten' => n = Cardinality(Subscribers(d)')
  PROVE  IInv'
<1>1. \A d \in Channels : (Counted(d)' <=> Counted(d)) /\ Count(d)' = Count(d)
  BY DEF Counted, Count
<1>2. Typed' /\ NoCountBelow'
  BY NetAppend DEF IInv, Typed, NoCountBelow
<1>3. ASSUME NEW d \in Channels, Counted(d)'
      PROVE  LET n == Count(d)' + Net(Unreads(d)', d, Len(Unreads(d)')) IN
             /\ n >= Cardinality(Subscribers(d)')
             /\ d \notin forgotten' => n = Cardinality(Subscribers(d)')
             /\ \A k \in 0 .. Len(Unreads(d)') : Count(d)' + Net(Unreads(d)', d, k) >= 0
  <2> DEFINE s == Unreads(d)
             S == Unreads(d)'
             N == Cardinality(Subscribers(d))
             M == Cardinality(Subscribers(d)')
             w == Weight(c, msg, d)
             x == Net(s, d, Len(s))
             y == Net(S, d, Len(S))
  <2>1. /\ Count(d)' = Count(d) /\ Count(d) \in Int /\ w \in Int /\ N \in Nat /\ M \in Nat
        /\ Count(d) + x >= N /\ (d \notin forgotten => Count(d) + x = N)
        /\ \A k \in 0 .. Len(s) : Count(d) + Net(s, d, k) >= 0
    BY <1>1, <1>3, CountType, FS_CardinalityType DEF IInv, NeverShort, Balance, Typed, Weight
  <2>2. /\ \A k \in 0 .. Len(s) : Net(S, d, k) = Net(s, d, k)
        /\ y = x + w
        /\ Len(S) \in {Len(s), Len(s) + 1} /\ Len(s) \in Nat
    BY NetAppend, GatewayType, LenProperties DEF IInv, Typed, Unreads
  <2>3. x \in Int
    BY <2>2, NetType
  <2>4. N + w >= M /\ (d \notin forgotten' => N + w = M) /\
          (d \notin forgotten' => d \notin forgotten)
    OBVIOUS
  <2> HIDE DEF s, S, N, M, w, x
  <2>5. /\ Count(d)' + y >= M
        /\ d \notin forgotten' => Count(d)' + y = M
    <3> HIDE DEF y
    <3> QED BY <2>1, <2>2, <2>3, <2>4
  <2>6. \A k \in 0 .. Len(S) : Count(d)' + Net(S, d, k) >= 0
    <3> SUFFICES ASSUME NEW k \in 0 .. Len(S) PROVE Count(d)' + Net(S, d, k) >= 0
      OBVIOUS
    <3>1. CASE k = Len(S)
      BY <2>1, <2>5, <3>1, <2>2, <2>3
    <3>2. CASE k # Len(S)
      BY <2>1, <2>2, <3>2
    <3> QED BY <3>1, <3>2
  <2> QED BY <2>5, <2>6 DEF s, S, M
<1>4. NeverShort' /\ Balance'
  BY <1>3 DEF NeverShort, Balance
<1> QED BY <1>2, <1>4 DEF IInv

-----------------------------------------------------------------------------
(* The actions.                                                            *)

LEMMA SubscribeStep ==
  ASSUME IInv, NEW st \in Strategies, NEW c \in Channels, Subscribe(st, c)
  PROVE  IInv'
<1>1. /\ subs' = [subs EXCEPT ![st] = subs[st] \cup {c}]
      /\ forgotten' = IF c \in subs[st] THEN forgotten \cup {c} ELSE forgotten
      /\ Frame(c, "sub") /\ UNCHANGED <<num, spoilt, IsWsConnected>>
      /\ subs \in [Strategies -> SUBSET Channels]
      /\ \A d \in Channels : IsFiniteSet(Subscribers(d))
  BY DEF Subscribe, okex, exchanges, IInv, Typed
<1>2. \A d \in Channels : d # c => Subscribers(d)' = Subscribers(d)
  BY <1>1 DEF Subscribers
<1>3. Subscribers(c)' = Subscribers(c) \cup {st} /\ (st \in Subscribers(c) <=> c \in subs[st])
  BY <1>1 DEF Subscribers
<1>4. /\ IsFiniteSet(Subscribers(c)')
      /\ Cardinality(Subscribers(c)') = IF c \in subs[st] THEN Cardinality(Subscribers(c))
                                        ELSE Cardinality(Subscribers(c)) + 1
      /\ Cardinality(Subscribers(c)) \in Nat
  BY <1>1, <1>3, FS_AddElement, FS_CardinalityType
<1>5. ASSUME NEW d \in Channels
      PROVE  LET n == Cardinality(Subscribers(d)) + Weight(c, "sub", d) IN
             /\ n >= Cardinality(Subscribers(d)')
             /\ d \notin forgotten' => n = Cardinality(Subscribers(d)')
  <2>1. CASE d = c
    BY <1>1, <1>4, <2>1 DEF Weight
  <2>2. CASE d # c
    <3>1. Cardinality(Subscribers(d)) \in Nat
      BY <1>1, FS_CardinalityType
    <3> QED BY <1>2, <2>2, <3>1 DEF Weight
  <2> QED BY <2>1, <2>2
<1>6. /\ subs' \in [Strategies -> SUBSET Channels]
      /\ \A d \in Channels : IsFiniteSet(Subscribers(d)')
      /\ forgotten \subseteq forgotten'
  BY <1>1, <1>2, <1>4
<1> QED BY <1>1, <1>5, <1>6, FrameStep

LEMMA UnsubscribeStep ==
  ASSUME IInv, NEW st \in Strategies, NEW c \in Channels, Unsubscribe(st, c)
  PROVE  IInv'
<1>1. /\ c \in subs[st] /\ subs' = [subs EXCEPT ![st] = subs[st] \ {c}]
      /\ Frame(c, "unsub") /\ UNCHANGED <<num, spoilt, IsWsConnected, forgotten>>
      /\ subs \in [Strategies -> SUBSET Channels]
      /\ \A d \in Channels : IsFiniteSet(Subscribers(d))
  BY DEF Unsubscribe, okex, exchanges, IInv, Typed
<1>2. \A d \in Channels : d # c => Subscribers(d)' = Subscribers(d)
  BY <1>1 DEF Subscribers
<1>3. Subscribers(c)' = Subscribers(c) \ {st} /\ st \in Subscribers(c)
  BY <1>1 DEF Subscribers
<1>4. /\ IsFiniteSet(Subscribers(c)')
      /\ Cardinality(Subscribers(c)') = Cardinality(Subscribers(c)) - 1
      /\ Cardinality(Subscribers(c)) \in Nat
  BY <1>1, <1>3, FS_RemoveElement, FS_CardinalityType
<1>5. ASSUME NEW d \in Channels
      PROVE  LET n == Cardinality(Subscribers(d)) + Weight(c, "unsub", d) IN
             /\ n >= Cardinality(Subscribers(d)')
             /\ d \notin forgotten' => n = Cardinality(Subscribers(d)')
  <2>1. CASE d = c
    BY <1>4, <2>1 DEF Weight
  <2>2. CASE d # c
    <3>1. Cardinality(Subscribers(d)) \in Nat
      BY <1>1, FS_CardinalityType
    <3> QED BY <1>2, <2>2, <3>1 DEF Weight
  <2> QED BY <2>1, <2>2
<1>6. /\ subs' \in [Strategies -> SUBSET Channels]
      /\ \A d \in Channels : IsFiniteSet(Subscribers(d)')
      /\ forgotten \subseteq forgotten'
  BY <1>1, <1>2, <1>4
<1> QED BY <1>1, <1>5, <1>6, FrameStep

LEMMA KillStep ==
  ASSUME IInv, NEW st \in Strategies, Kill(st)
  PROVE  IInv'
<1>1. /\ subs' = [subs EXCEPT ![st] = {}] /\ forgotten' = forgotten \cup subs[st]
      /\ UNCHANGED <<frames, num, spoilt, IsWsConnected>>
      /\ subs \in [Strategies -> SUBSET Channels]
      /\ \A d \in Channels : IsFiniteSet(Subscribers(d))
  BY DEF Kill, counts, okex, exchanges, IInv, Typed
<1>2. ASSUME NEW d \in Channels
      PROVE  /\ (Counted(d)' <=> Counted(d)) /\ Count(d)' = Count(d)
             /\ Unreads(d)' = Unreads(d)
             /\ IsFiniteSet(Subscribers(d)')
             /\ Cardinality(Subscribers(d)') <= Cardinality(Subscribers(d))
             /\ d \notin forgotten' => d \notin forgotten /\ Subscribers(d)' = Subscribers(d)
  <2>1. Subscribers(d)' \subseteq Subscribers(d)
    BY <1>1 DEF Subscribers
  <2>2. d \notin subs[st] => Subscribers(d)' = Subscribers(d)
    BY <1>1 DEF Subscribers
  <2>3. /\ IsFiniteSet(Subscribers(d)')
        /\ Cardinality(Subscribers(d)') <= Cardinality(Subscribers(d))
    BY <1>1, <2>1, FS_Subset
  <2> QED BY <1>1, <2>2, <2>3 DEF Counted, Count, Unreads
<1>3. Typed' /\ NoCountBelow'
  BY <1>1, <1>2 DEF IInv, Typed, NoCountBelow
<1>4. NeverShort'
  BY <1>2 DEF IInv, NeverShort
<1>5. Balance'
  <2> SUFFICES ASSUME NEW d \in Channels, Counted(d)'
               PROVE  LET n == Count(d) + Net(Unreads(d), d, Len(Unreads(d))) IN
                      /\ n >= Cardinality(Subscribers(d)')
                      /\ d \notin forgotten' => n = Cardinality(Subscribers(d)')
    BY <1>2 DEF Balance
  <2> DEFINE n == Count(d) + Net(Unreads(d), d, Len(Unreads(d)))
             N == Cardinality(Subscribers(d))
             M == Cardinality(Subscribers(d)')
  <2>1. n >= N /\ (d \notin forgotten => n = N)
    BY <1>2 DEF IInv, Balance
  <2>2. Len(Unreads(d)) \in Nat
    BY GatewayType, LenProperties DEF IInv, Typed, Unreads
  <2>3. n \in Int /\ N \in Nat /\ M \in Nat /\ M <= N
    BY <1>1, <1>2, <2>2, CountType, NetType, FS_CardinalityType DEF IInv
  <2>4. d \notin forgotten' => d \notin forgotten /\ M = N
    BY <1>2
  <2> HIDE DEF n, N, M
  <2>5. n >= M /\ (d \notin forgotten' => n = M)
    BY <2>1, <2>3, <2>4
  <2> QED BY <2>5 DEF n, M
<1> QED BY <1>3, <1>4, <1>5 DEF IInv

-----------------------------------------------------------------------------
(* How a count changes.                                                    *)

LEMMA SetCountSets ==
  ASSUME Typed, NEW c \in Channels, NEW n \in Int, SetCount(c, n)
  PROVE  /\ DOMAIN num' = DOMAIN num \cup {c} /\ DOMAIN num' \subseteq Channels
         /\ \A d \in DOMAIN num' : num'[d] \in Int
         /\ num'[c] = n /\ \A d \in DOMAIN num : d # c => num'[d] = num[d]
         /\ Count(c)' = n /\ \A d \in Channels : d # c => Count(d)' = Count(d)
BY DEF Typed, SetCount, Count

LEMMA EraseCountSets ==
  ASSUME Typed, NEW c \in Channels, EraseCount(c)
  PROVE  /\ DOMAIN num' = DOMAIN num \ {c} /\ DOMAIN num' \subseteq Channels
         /\ \A d \in DOMAIN num' : num'[d] \in Int
         /\ \A d \in DOMAIN num' : num'[d] = num[d]
         /\ Count(c)' = 0 /\ \A d \in Channels : d # c => Count(d)' = Count(d)
BY DEF Typed, EraseCount, Restrict, Count

(* What is withdrawn has been counted. *)
LEMMA WithdrawnWasCounted ==
  ASSUME IInv, NEW c \in Channels, Counted(c), Reads(c, "unsub")
  PROVE  Count(c) \in Nat \ {0}
<1>1. /\ Len(Unreads(c)) \in Nat /\ Len(Unreads(c)) > 0
      /\ Net(Unreads(c), c, 0 + 1) = Net(Unreads(c)', c, 0) + Weight(c, "unsub", c)
  BY NetRead DEF IInv
<1>2. Net(Unreads(c), c, 1) = -1
  BY <1>1, NetNone DEF Weight
<1>3. Count(c) + Net(Unreads(c), c, 1) >= 0
  BY <1>1 DEF IInv, NeverShort
<1> QED BY <1>2, <1>3, CountType DEF IInv

(* The kinds of channels have nothing in common. *)
LEMMA ChannelsApart ==
  ASSUME NEW c \in Channels
  PROVE  (c \in Okex <=> c \notin Streams)
BY MarketAssumption DEF Channels, Okex

-----------------------------------------------------------------------------
(* The gateways.                                                           *)

LEMMA DropStep ==
  ASSUME IInv, NEW c \in Channels, NEW msg \in {"sub", "unsub"}, Drop(c, msg)
  PROVE  IInv'
<1>1. /\ Reads(c, msg) /\ c \in Okex /\ ~IsWsConnected
      /\ UNCHANGED <<subs, forgotten, num, spoilt, IsWsConnected>>
  BY DEF Drop, strategies, okex, exchanges
<1>2. \A d \in Channels : /\ (Counted(d)' <=> Counted(d)) /\ Count(d)' = Count(d)
                          /\ (Counted(d) => d # c)
  BY <1>1, ChannelsApart DEF Counted, Count
<1>3. \A d \in Channels : Counted(d)' => Count(d)' = Count(d) + Weight(c, msg, d)
  BY <1>2, CountType DEF Weight, IInv
<1>4. NoCountBelow'
  BY <1>1 DEF IInv, NoCountBelow
<1>5. DOMAIN num' \subseteq Channels /\ \A d \in DOMAIN num' : num'[d] \in Int
  BY <1>1 DEF IInv, Typed
<1> QED BY <1>1, <1>2, <1>3, <1>4, <1>5, ReadStep

LEMMA SubscribeCounted ==
  ASSUME IInv, NEW c \in Channels, Reads(c, "sub"),
         SetCount(c, Count(c) + 1),
         UNCHANGED <<subs, forgotten, spoilt, IsWsConnected>>
  PROVE  IInv'
<1>1. Typed /\ Count(c) \in Int
  BY CountType DEF IInv
<1>2. Count(c) + 1 \in Int
  BY <1>1
<1>3. /\ DOMAIN num' = DOMAIN num \cup {c} /\ DOMAIN num' \subseteq Channels
      /\ \A d \in DOMAIN num' : num'[d] \in Int
      /\ num'[c] = Count(c) + 1 /\ \A d \in DOMAIN num : d # c => num'[d] = num[d]
      /\ Count(c)' = Count(c) + 1 /\ \A d \in Channels : d # c => Count(d)' = Count(d)
  BY <1>1, <1>2, SetCountSets
<1>4. \A d \in Channels : Counted(d)' <=> Counted(d)
  BY DEF Counted
<1>5. \A d \in Channels : Counted(d)' => Count(d)' = Count(d) + Weight(c, "sub", d)
  BY <1>1, <1>3, CountType DEF Weight
<1>6. NoCountBelow'
  <2> SUFFICES ASSUME NEW d \in Okex, d \in DOMAIN num'
               PROVE  num'[d] >= IF d \in Depths THEN 1 ELSE 0
    BY DEF NoCountBelow
  <2>1. CASE d = c
    BY <1>1, <1>3, <2>1 DEF IInv, NoCountBelow, Count
  <2>2. CASE d # c
    BY <1>3, <2>2 DEF IInv, NoCountBelow
  <2> QED BY <2>1, <2>2
<1> QED BY <1>3, <1>4, <1>5, <1>6, ReadStep

LEMMA WithdrawStep ==
  ASSUME IInv, NEW c \in Channels, Withdraw(c)
  PROVE  IInv'
<1> DEFINE left == Count(c) - 1
<1>1. /\ Reads(c, "unsub") /\ c \in Okex /\ IsWsConnected
      /\ UNCHANGED <<subs, forgotten, spoilt, IsWsConnected>>
      /\ IF LastGone(left) /\ ~Keeps(c) THEN EraseCount(c) ELSE SetCount(c, left)
  BY DEF Withdraw, strategies
<1>2. \A d \in Channels : Counted(d)' => Counted(d)
  BY <1>1 DEF Counted
<1>3. Count(c) \in Nat \ {0} /\ left \in Nat
  <2>1. Counted(c)
    BY <1>1, ChannelsApart DEF Counted
  <2>2. Count(c) \in Nat \ {0}
    BY <1>1, <2>1, WithdrawnWasCounted
  <2> QED BY <2>2
<1>4. /\ DOMAIN num' \subseteq Channels /\ \A d \in DOMAIN num' : num'[d] \in Int
      /\ Count(c)' = left /\ \A d \in Channels : d # c => Count(d)' = Count(d)
      /\ \A d \in DOMAIN num' : d # c => d \in DOMAIN num /\ num'[d] = num[d]
      /\ c \in DOMAIN num' => num'[c] = left /\ (c \in Depths => left > 0)
  <2>1. CASE LastGone(left) /\ ~Keeps(c)
    <3>1. EraseCount(c) /\ left = 0 /\ Typed
      BY <1>1, <1>3, <2>1 DEF LastGone, IInv
    <3> QED BY <3>1, EraseCountSets
  <2>2. CASE ~ (LastGone(left) /\ ~Keeps(c))
    <3>1. SetCount(c, left) /\ left \in Int /\ Typed /\ (c \in Depths => left > 0)
      BY <1>1, <1>3, <2>2 DEF LastGone, Keeps, IInv
    <3> HIDE DEF left
    <3> QED BY <3>1, SetCountSets
  <2> QED BY <2>1, <2>2
<1>5. \A d \in Channels : Counted(d)' => Count(d)' = Count(d) + Weight(c, "unsub", d)
  BY <1>3, <1>4, CountType DEF Weight, IInv
<1>6. NoCountBelow'
  <2> SUFFICES ASSUME NEW d \in Okex, d \in DOMAIN num'
               PROVE  num'[d] >= IF d \in Depths THEN 1 ELSE 0
    BY DEF NoCountBelow
  <2>1. CASE d = c
    BY <1>3, <1>4, <2>1
  <2>2. CASE d # c
    BY <1>4, <2>2 DEF IInv, NoCountBelow
  <2> QED BY <2>1, <2>2
<1> QED BY <1>1, <1>2, <1>4, <1>5, <1>6, ReadStep

LEMMA ConnectStep ==
  ASSUME IInv, NEW c \in Channels, Connect(c)
  PROVE  IInv'
<1>1. /\ c \in Streams /\ Reads(c, "sub") /\ c \notin DOMAIN num /\ Count(c) = 0
      /\ UNCHANGED <<subs, forgotten, IsWsConnected>>
  BY DEF Connect, strategies, okex, Count
<1>2. CASE SetCount(c, 1) /\ UNCHANGED spoilt
  BY <1>1, <1>2, SubscribeCounted
<1>3. CASE SetCount(c, 0) /\ spoilt' = spoilt \cup {c}
  <2>1. /\ DOMAIN num' = DOMAIN num \cup {c} /\ DOMAIN num' \subseteq Channels
        /\ \A d \in DOMAIN num' : num'[d] \in Int
        /\ \A d \in DOMAIN num : d # c => num'[d] = num[d]
        /\ \A d \in Channels : d # c => Count(d)' = Count(d)
    BY <1>3, SetCountSets DEF IInv
  <2>2. \A d \in Channels : (Counted(d)' => Counted(d)) /\ (Counted(d)' => d # c)
    BY <1>1, <1>3 DEF Counted
  <2>3. \A d \in Channels : Counted(d)' => Count(d)' = Count(d) + Weight(c, "sub", d)
    BY <2>1, <2>2, CountType DEF Weight, IInv
  <2>4. NoCountBelow'
    BY <1>1, <2>1, ChannelsApart DEF IInv, NoCountBelow
  <2> QED BY <1>1, <2>1, <2>2, <2>3, <2>4, ReadStep
<1> QED BY <1>2, <1>3 DEF Connect

LEMMA DisconnectStep ==
  ASSUME IInv, NEW c \in Channels, Disconnect(c)
  PROVE  IInv'
<1> DEFINE left == Count(c) - 1
<1>1. /\ c \in Streams /\ Reads(c, "unsub")
      /\ UNCHANGED <<subs, forgotten, IsWsConnected, spoilt>>
      /\ \/ c \notin DOMAIN num /\ UNCHANGED num
         \/ LastGone(left) /\ EraseCount(c)
         \/ SetCount(c, left)
  BY DEF Disconnect, strategies, okex
<1>2. /\ Typed /\ Count(c) \in Int /\ left \in Int
      /\ \A d \in Channels : Counted(d)' <=> Counted(d)
  BY <1>1, CountType DEF Counted, IInv
<1>3. Counted(c) => Count(c) \in Nat \ {0} /\ c \in DOMAIN num
  BY <1>1, WithdrawnWasCounted DEF Count
<1>4. /\ DOMAIN num' \subseteq Channels /\ \A d \in DOMAIN num' : num'[d] \in Int
      /\ Counted(c) => Count(c)' = left
      /\ \A d \in Channels : d # c => Count(d)' = Count(d)
      /\ \A d \in DOMAIN num' : d # c => d \in DOMAIN num /\ num'[d] = num[d]
  <2>1. CASE c \notin DOMAIN num /\ UNCHANGED num
    BY <1>2, <1>3, <2>1 DEF Typed, Count
  <2>2. CASE LastGone(left) /\ EraseCount(c)
    <3>1. Counted(c) => left = 0
      BY <1>2, <1>3, <2>2 DEF LastGone
    <3> QED BY <1>2, <2>2, <3>1, EraseCountSets
  <2>3. CASE SetCount(c, left)
    <3> HIDE DEF left
    <3> QED BY <1>2, <2>3, SetCountSets
  <2> QED BY <1>1, <2>1, <2>2, <2>3
<1>5. \A d \in Channels : Counted(d)' => Count(d)' = Count(d) + Weight(c, "unsub", d)
  BY <1>2, <1>4, CountType DEF Weight
<1>6. NoCountBelow'
  BY <1>1, <1>4, ChannelsApart DEF IInv, NoCountBelow
<1> QED BY <1>1, <1>2, <1>4, <1>5, <1>6, ReadStep

-----------------------------------------------------------------------------
(* The theorems.                                                           *)

LEMMA InitHolds == ASSUME Init PROVE IInv
<1>1. /\ \A d \in Channels : Subscribers(d) = {} /\ Count(d) = 0
      /\ \A d \in Channels : Unreads(d) = <<>> /\ Len(Unreads(d)) = 0
  BY GatewayType DEF Init, Subscribers, Count, Unreads
<1>2. Typed
  <2>1. frames \in [{"okex", "binance"} -> Seq(Messages)]
    BY DEF Init
  <2>2. \A d \in Channels : IsFiniteSet(Subscribers(d))
    BY <1>1, FS_EmptySet
  <2>3. DOMAIN num = {} /\ subs \in [Strategies -> SUBSET Channels]
    BY DEF Init
  <2> QED BY <2>1, <2>2, <2>3 DEF Typed
<1>3. \A d \in Channels : Net(Unreads(d), d, 0) = 0
  BY NetNone
<1>4. NeverShort
  <2> SUFFICES ASSUME NEW d \in Channels, NEW k \in 0 .. Len(Unreads(d))
               PROVE  Count(d) + Net(Unreads(d), d, k) >= 0
    BY DEF NeverShort
  <2>1. k = 0
    BY <1>1
  <2> QED BY <1>1, <1>3, <2>1
<1>5. Balance
  <2> SUFFICES ASSUME NEW d \in Channels
               PROVE  Count(d) + Net(Unreads(d), d, Len(Unreads(d))) =
                 Cardinality(Subscribers(d))
                      /\ Cardinality(Subscribers(d)) = 0
    BY DEF Balance
  <2>1. Cardinality(Subscribers(d)) = 0
    BY <1>1, FS_EmptySet
  <2>2. Net(Unreads(d), d, Len(Unreads(d))) = 0
    BY <1>1, <1>3
  <2> QED BY <1>1, <2>1, <2>2
<1>6. NoCountBelow
  BY DEF Init, NoCountBelow
<1> QED BY <1>2, <1>4, <1>5, <1>6 DEF IInv

LEMMA ListeningStep ==
  ASSUME IInv, NEW c \in Channels,
         \/ Drop(c, "sub") \/ Drop(c, "unsub")
         \/ SubscribeFirst(c) \/ SubscribeAgain(c) \/ Withdraw(c)
         \/ Connect(c) \/ Disconnect(c)
  PROVE  IInv'
<1>1. CASE Drop(c, "sub") \/ Drop(c, "unsub")
  BY <1>1, DropStep
<1>2. CASE SubscribeFirst(c)
  <2>1. /\ Reads(c, "sub") /\ SetCount(c, 1) /\ Count(c) = 0
        /\ UNCHANGED <<subs, forgotten, spoilt, IsWsConnected>>
    BY <1>2 DEF SubscribeFirst, Count, strategies, exchanges
  <2> QED BY <2>1, SubscribeCounted
<1>3. CASE SubscribeAgain(c)
  <2>1. /\ Reads(c, "sub") /\ SetCount(c, num[c] + 1) /\ Count(c) = num[c]
        /\ UNCHANGED <<subs, forgotten, spoilt, IsWsConnected>>
    BY <1>3 DEF SubscribeAgain, Count, strategies, okex, exchanges
  <2> QED BY <2>1, SubscribeCounted
<1>4. CASE Withdraw(c) \/ Connect(c) \/ Disconnect(c)
  BY <1>4, WithdrawStep, ConnectStep, DisconnectStep
<1> QED BY <1>1, <1>2, <1>3, <1>4

LEMMA StepHolds == ASSUME IInv, [Next]_vars PROVE IInv'
<1> USE DEF strategies, counts, okex, exchanges
<1>1. ASSUME NEW st \in Strategies, Leave(st) PROVE IInv'
  BY <1>1, Apart DEF Leave, Counted
<1>2. ASSUME NEW st \in Strategies, Kill(st) PROVE IInv'
  BY <1>2, KillStep
<1>3. ASSUME NEW st \in Strategies, NEW c \in Channels, Subscribe(st, c) \/ Unsubscribe(st, c)
      PROVE  IInv'
  BY <1>3, SubscribeStep, UnsubscribeStep
<1>4. CASE Listening("okex") \/ Listening("binance")
  BY <1>4, ListeningStep DEF Listening
<1>5. CASE Sending
  <2>1. UNCHANGED <<subs, forgotten, frames, num, IsWsConnected>>
    BY <1>5 DEF Sending, Send, Refuse, SendFails
  <2>2. \A d \in Streams : d \notin spoilt' => d \notin spoilt
    BY <1>5, MarketAssumption DEF Sending, Send, Refuse, SendFails
  <2>3. \A d \in Channels : Counted(d)' => Counted(d)
    BY <2>1, <2>2 DEF Counted
  <2> QED BY <2>1, <2>3, Apart
<1>6. CASE Ping
  BY <1>6, Apart DEF Ping, Counted
<1>7. CASE Pong
  BY <1>7, Apart DEF Pong, Counted
<1>8. CASE OnWsClose
  BY <1>8, Apart DEF OnWsClose, Counted
<1>9. ASSUME NEW c \in Okex, Enter(c) PROVE IInv'
  BY <1>9, Apart DEF Enter, Counted
<1>10. ASSUME NEW c \in Streams, Lose(c) PROVE IInv'
  BY <1>10, Apart DEF Lose, Counted
<1>11. CASE UNCHANGED vars
  BY <1>11, Apart DEF vars, Counted
<1> QED BY <1>1, <1>2, <1>3, <1>4, <1>5, <1>6, <1>7, <1>8, <1>9, <1>10, <1>11 DEF Next

LEMMA Invariant == Spec => []IInv
<1>1. Init => IInv
  BY InitHolds
<1>2. IInv /\ [Next]_vars => IInv'
  BY StepHolds
<1> QED BY <1>1, <1>2, PTL DEF Spec

(* A channel's count, with what the gateway has still to read, is the      *)
(* number of strategies subscribed to it, whichever of them subscribe,     *)
(* withdraw or are killed in whatever order, while the requests are        *)
(* counted at all (ReqSub..., ReqUnSub..., UnSubAll).                      *)
THEOREM CountsAreRight == Spec => []CountsAreSubscribers
<1>1. ASSUME IInv PROVE CountsAreSubscribers
  <2> SUFFICES ASSUME NEW c \in Channels, Counted(c)
               PROVE  LET n == Count(c) + Unread(c, "sub") - Unread(c, "unsub") IN
                      /\ n >= Cardinality(Subscribers(c))
                      /\ c \notin forgotten => n = Cardinality(Subscribers(c))
    BY DEF CountsAreSubscribers
  <2> DEFINE s == Unreads(c)
  <2>1. s \in Seq(Messages) /\ Len(s) \in Nat /\ DOMAIN s = 1 .. Len(s)
    BY <1>1, GatewayType, LenProperties DEF IInv, Typed, Unreads
  <2>2. Unread(c, "sub") = Often(s, Sub(c), Len(s))
    BY <2>1 DEF Unread, Often, Spots, Sub, Unreads
  <2>3. Unread(c, "unsub") = Often(s, Unsub(c), Len(s))
    BY <2>1 DEF Unread, Often, Spots, Unsub, Unreads
  <2>4. Often(s, Sub(c), Len(s)) \in Nat /\ Often(s, Unsub(c), Len(s)) \in Nat
    BY <2>1, OftenType
  <2>5. Count(c) \in Int
    BY <1>1, CountType DEF IInv
  <2> HIDE DEF s
  <2>6. Count(c) + Unread(c, "sub") - Unread(c, "unsub") = Count(c) + Net(s, c, Len(s))
    BY <2>2, <2>3, <2>4, <2>5 DEF Net
  <2> QED BY <1>1, <2>6 DEF IInv, Balance, s
<1> QED BY <1>1, Invariant, PTL

(* An order book of OKEX has a count only if somebody is counted, and no   *)
(* count of a ticker or kline falls below zero, so that a subscription     *)
(* never hides behind withdrawals of others (ReqUnSub...).                 *)
THEOREM NoneCountedBelow == Spec => []NoCountBelow
<1>1. IInv => NoCountBelow
  BY DEF IInv
<1> QED BY <1>1, Invariant, PTL

-----------------------------------------------------------------------------
(* Books of Binance: the inductive invariant.                              *)

(* A book has the volumes of the exchange after its first n changes, and   *)
(* a level it has not is worse than MaxDepth of its own.                   *)
IsBook(b, n) ==
  /\ DOMAIN b \subseteq D!Levels /\ \A p \in DOMAIN b : b[p] = D!VolumeAt(p, n)
  /\ \A p \in D!There(n) \ DOMAIN b : Cardinality(D!Better(DOMAIN b, p)) >= MaxDepth

DepthMessages(n) == [first : Nat \ {0}, final : 0 .. n]
NumbersOK ==
  /\ changes \in Seq([level : D!Levels, volume : Volumes]) /\ emitted \in 0 .. Len(changes)
  /\ stream \in Seq(DepthMessages(Len(changes)))
  /\ last \in D!None .. Len(changes)
  /\ subscribed \in Nat
  /\ snap = [t \in D!Threads |-> snap[t]]
  /\ \A t \in D!Threads : snap[t] = [pc |-> snap[t].pc, id |-> snap[t].id]

(* Before the subscription nothing happens; the maps are empty while a     *)
(* thread takes a snapshot, and the other one takes none.                  *)
SnapOK ==
  /\ subscribed = 0 => last = D!None /\ \A t \in D!Threads : snap[t] = D!Idle
  /\ \A t \in D!Threads : snap[t] # D!Idle =>
       /\ last = D!None
       /\ \A u \in D!Threads : u # t => snap[u] = D!Idle
       /\ snap[t].pc = "answered" => snap[t].id \in 0 .. Len(changes)

BookOK == IF last = D!None THEN book = D!NotThere ELSE IsBook(book, last)

PublishedOK == published.id \in 0 .. Len(changes) /\ IsBook(published.book, published.id)

BInv == NumbersOK /\ SnapOK /\ BookOK /\ PublishedOK

-----------------------------------------------------------------------------
(* Lemmas.                                                                 *)

(* DepthBook counts as this module does. *)
LEMMA SameCount ==
  /\ \A S : D!Cardinality(S) = Cardinality(S)
  /\ \A S : D!IsFiniteSet(S) <=> IsFiniteSet(S)
<1>1. \A S : D!Cardinality(S) = Cardinality(S)
  BY Zenon DEF D!Cardinality, Cardinality
<1>2. \A S : D!IsFiniteSet(S) <=> IsFiniteSet(S)
  BY Zenon DEF D!IsFiniteSet, IsFiniteSet
<1>. QED  BY <1>1, <1>2

(* With more levels no fewer are better than one... *)
LEMMA MoreLevels ==
  ASSUME NEW T, IsFiniteSet(T), NEW S \in SUBSET T, NEW p
  PROVE  /\ Cardinality(D!Better(S, p)) \in Nat /\ Cardinality(D!Better(T, p)) \in Nat
         /\ Cardinality(D!Better(S, p)) <= Cardinality(D!Better(T, p))
<1>1. D!Better(S, p) \subseteq D!Better(T, p) /\ D!Better(T, p) \subseteq T
  BY DEF D!Better
<1>2. IsFiniteSet(D!Better(T, p))
  BY <1>1, FS_Subset
<1>3. IsFiniteSet(D!Better(S, p))
  BY <1>1, <1>2, FS_Subset
<1>4. Cardinality(D!Better(S, p)) <= Cardinality(D!Better(T, p))
  BY <1>1, <1>2, FS_Subset
<1>. QED  BY <1>2, <1>3, <1>4, FS_CardinalityType

(* ...and a level that is worse than MaxDepth others is worse than MaxDepth *)
(* of the best: take the best level among those better than it that are    *)
(* not among the best; those better than that one are.                     *)
LEMMA BestEnough ==
  ASSUME NEW S \in SUBSET Int, IsFiniteSet(S), NEW p \in Int, MaxDepth \in Nat,
         Cardinality(D!Better(S, p)) >= MaxDepth
  PROVE  Cardinality(D!Better(D!Best(S), p)) >= MaxDepth
<1>. DEFINE rank(q) == Cardinality(D!Better(S, q))
            rest == D!Better(S, p) \ D!Best(S)
<1>1. D!Best(S) \subseteq S /\ D!Better(S, p) \subseteq S
  BY DEF D!Best, D!Better
<1>2. \A q : rank(q) \in Nat
  BY MoreLevels
<1>3. IsFiniteSet(D!Best(S)) /\ IsFiniteSet(D!Better(D!Best(S), p))
  <2>1. IsFiniteSet(D!Best(S))
    BY <1>1, FS_Subset
  <2>2. D!Better(D!Best(S), p) \subseteq D!Best(S)
    BY DEF D!Better
  <2>. QED  BY <2>1, <2>2, FS_Subset
<1>4. CASE rest = {}
  <2>1. D!Better(S, p) = D!Better(D!Best(S), p)
    BY <1>1, <1>4 DEF D!Better
  <2>. QED  BY <2>1
<1>5. CASE rest # {}
  <2>. DEFINE ranks == {rank(q) : q \in rest}
  <2>1. ranks \subseteq Nat /\ ranks # {}
    BY <1>2, <1>5
  <2>2. PICK x \in ranks : \A y \in ranks : <<y, x>> \notin OpToRel(<, Nat)
    BY <2>1, NatLessThanWellFounded, WFMin
  <2>3. \A y \in ranks : ~(y < x)
    BY <2>1, <2>2 DEF OpToRel
  <2>4. PICK q \in rest : x = rank(q)
    BY <2>2
  <2>5. q \in S /\ q < p /\ (q > 0 <=> p > 0) /\ rank(q) >= MaxDepth
    <3>1. q \in S /\ q < p /\ (q > 0 <=> p > 0)
      BY DEF D!Better
    <3>2. q \notin {r \in S : D!Cardinality(D!Better(S, r)) < MaxDepth}
      BY DEF D!Best
    <3>3. ~(D!Cardinality(D!Better(S, q)) < MaxDepth)
      BY <3>1, <3>2
    <3>4. ~(rank(q) < MaxDepth)
      BY <3>3, SameCount
    <3>. HIDE DEF rank
    <3>. QED  BY <1>2, <3>1, <3>4
  <2>6. ASSUME NEW r \in D!Better(S, q) PROVE r \in D!Better(D!Best(S), p)
    <3>1. r \in S /\ r < q /\ (r > 0 <=> q > 0)
      BY <2>6 DEF D!Better
    <3>2. r < p /\ (r > 0 <=> p > 0)
      BY <2>5, <3>1
    <3>3. r \in D!Better(S, p)
      BY <3>1, <3>2 DEF D!Better
    <3>4. rank(r) < rank(q)
      <4>1. D!Better(S, r) \subseteq D!Better(S, q) \ {r}
        <5>1. ASSUME NEW z \in D!Better(S, r) PROVE z \in D!Better(S, q) \ {r}
          <6>1. z \in S /\ z < r /\ (z > 0 <=> r > 0)
            BY <5>1 DEF D!Better
          <6>2. z < q /\ z # r /\ (z > 0 <=> q > 0)
            BY <3>1, <6>1
          <6>. QED  BY <6>1, <6>2 DEF D!Better
        <5>. QED  BY <5>1
      <4>2. D!Better(S, q) \subseteq S
        BY DEF D!Better
      <4>3. IsFiniteSet(D!Better(S, q))
        BY <4>2, FS_Subset
      <4>4. /\ IsFiniteSet(D!Better(S, q) \ {r})
            /\ Cardinality(D!Better(S, q) \ {r}) = rank(q) - 1
        BY <2>6, <4>3, FS_RemoveElement
      <4>5. rank(r) <= Cardinality(D!Better(S, q) \ {r})
        BY <4>1, <4>4, FS_Subset
      <4>. HIDE DEF rank
      <4>. QED  BY <1>2, <4>4, <4>5
    <3>5. r \notin rest
      BY <2>3, <2>4, <3>4
    <3>6. r \in D!Best(S)
      BY <3>3, <3>5
    <3>. QED  BY <3>2, <3>6 DEF D!Better
  <2>7. rank(q) <= Cardinality(D!Better(D!Best(S), p))
    BY <1>3, <2>6, FS_Subset
  <2>8. Cardinality(D!Better(D!Best(S), p)) \in Nat
    BY <1>3, FS_CardinalityType
  <2>. HIDE DEF rank
  <2>. QED  BY <1>2, <2>5, <2>7, <2>8
<1>. QED  BY <1>4, <1>5

LEMMA LevelsInt ==
  ASSUME D!DepthAssumption
  PROVE  /\ D!Levels \subseteq Int /\ IsFiniteSet(D!Levels) /\ MaxDepth \in Nat
         /\ \A S \in SUBSET D!Levels : IsFiniteSet(S)
<1>1. D!Levels \subseteq Int
  BY DEF D!DepthAssumption, D!Levels
<1>2. IsFiniteSet(D!Levels) /\ MaxDepth \in Nat
  BY SameCount DEF D!DepthAssumption
<1>3. \A S \in SUBSET D!Levels : IsFiniteSet(S)
  BY <1>2, FS_Subset
<1>. QED  BY <1>1, <1>2, <1>3

(* The best levels of a book that is true are true as well. *)
LEMMA BestIsBook ==
  ASSUME D!DepthAssumption, NEW b, NEW n, IsBook(b, n)
  PROVE  IsBook([p \in D!Best(DOMAIN b) |-> b[p]], n)
<1>. DEFINE B == D!Best(DOMAIN b)
            c == [p \in B |-> b[p]]
<1>1. DOMAIN b \subseteq D!Levels /\ \A p \in DOMAIN b : b[p] = D!VolumeAt(p, n)
  BY DEF IsBook
<1>2. B \subseteq DOMAIN b
  BY DEF D!Best
<1>3. DOMAIN c = B /\ DOMAIN c \subseteq D!Levels /\ \A p \in B : c[p] = D!VolumeAt(p, n)
  BY <1>1, <1>2
<1>4. ASSUME NEW p \in D!There(n) \ B PROVE Cardinality(D!Better(B, p)) >= MaxDepth
  <2>1. /\ p \in Int /\ DOMAIN b \in SUBSET Int /\ IsFiniteSet(DOMAIN b) /\ MaxDepth \in Nat
        /\ Cardinality(D!Better(DOMAIN b, p)) \in Nat
    <3>1. p \in D!Levels
      BY DEF D!There
    <3>2. IsFiniteSet(DOMAIN b)
      BY <1>1, LevelsInt
    <3>. QED  BY <1>1, <3>1, <3>2, LevelsInt, MoreLevels
  <2>2. Cardinality(D!Better(DOMAIN b, p)) >= MaxDepth
    <3>1. CASE p \in DOMAIN b
      <4>1. p \notin {q \in DOMAIN b : D!Cardinality(D!Better(DOMAIN b, q)) < MaxDepth}
        BY <1>4 DEF D!Best
      <4>2. ~(D!Cardinality(D!Better(DOMAIN b, p)) < MaxDepth)
        BY <3>1, <4>1
      <4>3. ~(Cardinality(D!Better(DOMAIN b, p)) < MaxDepth)
        BY <4>2, SameCount
      <4>. QED  BY <2>1, <4>3
    <3>2. CASE p \notin DOMAIN b
      BY <1>4, <3>2 DEF IsBook
    <3>. QED  BY <3>1, <3>2
  <2>. QED  BY <2>1, <2>2, BestEnough
<1>. HIDE DEF B, c
<1>5. IsBook(c, n)
  BY <1>3, <1>4 DEF IsBook
<1>. QED  BY <1>5 DEF B, c

(* A set of numbers up to n has a largest one. *)
LEMMA Largest ==
  ASSUME NEW n \in Nat, NEW S, S \subseteq 1 .. n, S # {}
  PROVE  D!Max(S) \in S /\ \A i \in S : i <= D!Max(S)
<1>. DEFINE T == {n - i : i \in S}
<1>1. T \subseteq Nat /\ T # {}
  <2>1. \A i \in S : i \in 1 .. n
    OBVIOUS
  <2>2. \A i \in S : n - i \in Nat
    BY <2>1
  <2>3. T # {}
    OBVIOUS
  <2>. QED  BY <2>2, <2>3
<1>2. PICK x \in T : \A y \in T : <<y, x>> \notin OpToRel(<, Nat)
  BY <1>1, NatLessThanWellFounded, WFMin
<1>3. \A y \in T : ~(y < x)
  BY <1>1, <1>2 DEF OpToRel
<1>4. PICK i \in S : x = n - i
  OBVIOUS
<1>5. \A j \in S : i >= j
  <2>1. ASSUME NEW j \in S PROVE i >= j
    <3>1. n - j \in T
      OBVIOUS
    <3>2. ~(n - j < n - i)
      BY <1>3, <1>4, <3>1
    <3>. QED  BY <3>2
  <2>. QED  BY <2>1
<1>6. D!Max(S) \in S /\ \A j \in S : D!Max(S) >= j
  BY <1>5 DEF D!Max
<1>. QED  BY <1>6

(* The volume at a price is what the last change of it says. *)
LEMMA Volume ==
  ASSUME NEW p, NEW n \in Nat
  PROVE  \/ D!ChangesOf(p, n) = {} /\ D!VolumeAt(p, n) = 0
         \/ \E k \in D!ChangesOf(p, n) : /\ k = D!Max(D!ChangesOf(p, n))
                                         /\ D!VolumeAt(p, n) = changes[k].volume
<1>1. D!ChangesOf(p, n) \subseteq 1 .. n
  BY DEF D!ChangesOf
<1>2. CASE D!ChangesOf(p, n) # {}
  <2>1. D!Max(D!ChangesOf(p, n)) \in D!ChangesOf(p, n)
    BY <1>1, <1>2, Largest
  <2>. QED  BY <1>2, <2>1 DEF D!VolumeAt
<1>. QED  BY <1>2 DEF D!VolumeAt

(* Further changes leave the book of a moment as it was... *)
LEMMA VolumeStays ==
  ASSUME NEW p, NEW n \in Nat, \A i \in 1 .. n : changes'[i] = changes[i]
  PROVE  D!VolumeAt(p, n)' = D!VolumeAt(p, n)
<1>1. D!ChangesOf(p, n)' = D!ChangesOf(p, n)
  BY DEF D!ChangesOf
<1>2. D!ChangesOf(p, n) \subseteq 1 .. n
  BY DEF D!ChangesOf
<1>3. CASE D!ChangesOf(p, n) = {}
  BY <1>1, <1>3 DEF D!VolumeAt
<1>4. CASE D!ChangesOf(p, n) # {}
  <2>1. D!Max(D!ChangesOf(p, n)) \in 1 .. n
    BY <1>2, <1>4, Largest
  <2>. QED  BY <1>1, <1>4, <2>1 DEF D!VolumeAt
<1>. QED  BY <1>3, <1>4

LEMMA IsBookStays ==
  ASSUME NEW b, NEW n \in Nat, \A i \in 1 .. n : changes'[i] = changes[i], IsBook(b, n)
  PROVE  IsBook(b, n)'
<1>1. \A p \in D!Levels : D!VolumeAt(p, n)' = D!VolumeAt(p, n)
  BY VolumeStays
<1>2. D!There(n)' = D!There(n)
  BY <1>1 DEF D!There
<1>. QED  BY <1>1, <1>2 DEF IsBook

(* ...and at a price that does not change the volume is the same. *)
LEMMA Unchanged ==
  ASSUME NEW p, NEW n \in Nat, NEW k \in Nat, n <= k,
         \A i \in n + 1 .. k : changes[i].level # p
  PROVE  D!VolumeAt(p, k) = D!VolumeAt(p, n)
<1>1. \A i \in 1 .. k : i \in 1 .. n \/ i \in n + 1 .. k
  OBVIOUS
<1>2. \A i \in 1 .. n : i \in 1 .. k
  OBVIOUS
<1>3. D!ChangesOf(p, k) = D!ChangesOf(p, n)
  BY <1>1, <1>2 DEF D!ChangesOf
<1>. QED  BY <1>3 DEF D!VolumeAt

-----------------------------------------------------------------------------
(* What each action does.                                                  *)

LEMMA DepthChangeStep ==
  ASSUME BInv, NEW p \in D!Levels, NEW v \in Volumes, D!Change(p, v)
  PROVE  BInv'
<1>. DEFINE r == [level |-> p, volume |-> v]
<1>1. /\ changes \in Seq([level : D!Levels, volume : Volumes]) /\ changes' = Append(changes, r)
      /\ UNCHANGED <<emitted, stream, connected, subscribed, last, book, snap, failed,
           published>>
  BY DEF BInv, NumbersOK, D!Change, D!gateway
<1>2. r \in [level : D!Levels, volume : Volumes]
  OBVIOUS
<1>. HIDE DEF r
<1>3. /\ changes' \in Seq([level : D!Levels, volume : Volumes])
      /\ Len(changes') = Len(changes) + 1 /\ Len(changes) \in Nat
      /\ \A i \in 1 .. Len(changes) : changes'[i] = changes[i]
  BY <1>1, <1>2
<1>4. \A n \in Int : n <= Len(changes) => n <= Len(changes')
  BY <1>3
<1>5. NumbersOK'
  <2>1. stream' \in Seq(DepthMessages(Len(changes')))
    <3>1. DepthMessages(Len(changes))
            \subseteq DepthMessages(Len(changes'))
      BY <1>3 DEF DepthMessages
    <3>2. stream \in Seq(DepthMessages(Len(changes))) /\ stream' = stream
      BY <1>1 DEF BInv, NumbersOK
    <3>. QED  BY <3>1, <3>2, SeqMonotonic
  <2>2. emitted' \in 0 .. Len(changes') /\ last' \in D!None .. Len(changes')
    BY <1>1, <1>3 DEF BInv, NumbersOK, D!None
  <2>. QED  BY <1>1, <1>3, <2>1, <2>2 DEF BInv, NumbersOK
<1>6. SnapOK'
  <2>1. \A t \in D!Threads : snap[t].id \in 0 .. Len(changes) =>
          snap[t].id \in 0 .. Len(changes')
    BY <1>3
  <2>. QED  BY <1>1, <2>1 DEF BInv, SnapOK
<1>7. BookOK'
  <2>1. CASE last = D!None
    BY <1>1, <2>1 DEF BInv, BookOK
  <2>2. CASE last # D!None
    <3>1. last \in 0 .. Len(changes) /\ IsBook(book, last)
      BY <2>2, <1>3 DEF BInv, NumbersOK, BookOK, D!None
    <3>2. \A i \in 1 .. last : changes'[i] = changes[i]
      BY <1>3, <3>1
    <3>3. \A q \in D!Levels : D!VolumeAt(q, last)' = D!VolumeAt(q, last)
      BY <1>1, <3>1, <3>2, VolumeStays
    <3>4. D!There(last)' = D!There(last)
      BY <1>1, <3>3 DEF D!There
    <3>. QED  BY <1>1, <2>2, <3>1, <3>3, <3>4 DEF BookOK, IsBook
  <2>. QED  BY <2>1, <2>2
<1>8. PublishedOK'
  <2>1. published.id \in 0 .. Len(changes) /\ IsBook(published.book, published.id)
    BY DEF BInv, PublishedOK
  <2>2. \A i \in 1 .. published.id : changes'[i] = changes[i]
    BY <1>3, <2>1
  <2>3. /\ \A q \in D!Levels : D!VolumeAt(q, published.id)' = D!VolumeAt(q, published.id)
        /\ D!There(published.id)' = D!There(published.id)
    <3>1. \A q \in D!Levels : D!VolumeAt(q, published.id)' = D!VolumeAt(q, published.id)
      BY <1>1, <2>1, <2>2, VolumeStays
    <3>. QED  BY <1>1, <3>1 DEF D!There
  <2>4. published'.id \in 0 .. Len(changes')
    BY <1>1, <1>3, <2>1
  <2>. QED  BY <1>1, <2>1, <2>3, <2>4 DEF PublishedOK, IsBook
<1>. QED  BY <1>5, <1>6, <1>7, <1>8 DEF BInv

(* What leaves the changes, the book and what was handed on as they are. *)
LEMMA SameBooks ==
  ASSUME UNCHANGED changes
  PROVE  /\ UNCHANGED <<last, book>> /\ BookOK => BookOK'
         /\ UNCHANGED published /\ PublishedOK => PublishedOK'
         /\ last' = D!None /\ book' = D!NotThere => BookOK'
<1>1. \A p, n : D!VolumeAt(p, n)' = D!VolumeAt(p, n)
  BY DEF D!VolumeAt, D!ChangesOf
<1>2. UNCHANGED <<last, book>> /\ BookOK => BookOK'
  BY DEF BookOK, IsBook, D!There, D!VolumeAt, D!ChangesOf
<1>3. UNCHANGED published /\ PublishedOK => PublishedOK'
  BY DEF PublishedOK, IsBook, D!There, D!VolumeAt, D!ChangesOf
<1>. QED  BY <1>2, <1>3 DEF BookOK

LEMMA EmitStep ==
  ASSUME BInv, D!Emit
  PROVE  BInv'
<1>1. UNCHANGED <<changes, connected, subscribed, last, book, snap, failed, published>>
  BY DEF D!Emit, D!gateway
<1>2. NumbersOK'
  <2>1. Len(changes) \in Nat /\ emitted \in Nat /\ emitted + 1 \in Nat \ {0}
    BY DEF BInv, NumbersOK
  <2>. DEFINE f == [first |-> emitted + 1, final |-> Len(changes)]
  <2>2. f \in DepthMessages(Len(changes))
    BY <2>1 DEF DepthMessages
  <2>3. stream' = stream \/ stream' = Append(stream, f)
    BY DEF D!Emit
  <2>4. stream \in Seq(DepthMessages(Len(changes)))
    BY DEF BInv, NumbersOK
  <2>. HIDE DEF f
  <2>5. stream' \in Seq(DepthMessages(Len(changes)))
    BY <2>2, <2>3, <2>4
  <2>6. emitted' \in 0 .. Len(changes)
    BY <2>1 DEF D!Emit
  <2>. QED  BY <1>1, <2>5, <2>6 DEF BInv, NumbersOK
<1>3. SnapOK'
  BY <1>1 DEF BInv, SnapOK
<1>. QED  BY <1>1, <1>2, <1>3, SameBooks DEF BInv

LEMMA PassStep ==
  ASSUME BInv, D!Pass \/ D!ReqUnSubDepth
  PROVE  BInv'
<1>1. UNCHANGED <<changes, emitted, subscribed, last, book, snap, published>>
  BY DEF D!Pass, D!ReqUnSubDepth, D!gateway
<1>2. stream' = <<>> \/ (stream # <<>> /\ stream' = Tail(stream))
  BY DEF D!Pass, D!ReqUnSubDepth, D!Read
<1>3. NumbersOK'
  <2>1. stream \in Seq(DepthMessages(Len(changes)))
    BY DEF BInv, NumbersOK
  <2>2. CASE stream' = <<>>
    BY <1>1, <2>1, <2>2 DEF BInv, NumbersOK
  <2>3. CASE stream # <<>> /\ stream' = Tail(stream)
    <3>1. stream' \in Seq(DepthMessages(Len(changes)))
      BY <2>1, <2>3
    <3>. QED  BY <1>1, <3>1 DEF BInv, NumbersOK
  <2>. QED  BY <1>2, <2>2, <2>3
<1>4. SnapOK'
  BY <1>1 DEF BInv, SnapOK
<1>. QED  BY <1>1, <1>3, <1>4, SameBooks DEF BInv

LEMMA ReqSubDepthStep ==
  ASSUME BInv, MaxDepthSubs <= 1, MaxDepthSubs \in Nat, D!ReqSubDepth \/ D!FirstSnapShot
  PROVE  BInv'
<1>1. UNCHANGED <<changes, emitted, stream, published>>
  BY DEF D!ReqSubDepth, D!FirstSnapShot, D!exchange
<1>2. "reader" \in D!Threads /\
        \A t \in D!Threads : snap[t] = [pc |-> snap[t].pc, id |-> snap[t].id]
  BY DEF D!Threads, BInv, NumbersOK
<1>3. CASE D!ReqSubDepth
  <2>1. subscribed = 0 /\ subscribed' = 1
    BY <1>3 DEF D!ReqSubDepth, BInv, NumbersOK
  <2>2. last = D!None /\ \A t \in D!Threads : snap[t] = D!Idle
    BY <2>1 DEF BInv, SnapOK
  <2>3. UNCHANGED <<last, book>> /\ snap' = [snap EXCEPT !["reader"].pc = "connected"]
    BY <1>3 DEF D!ReqSubDepth
  <2>4. /\ snap'["reader"] = [pc |-> "connected", id |-> 0]
        /\ \A t \in D!Threads : t # "reader" => snap'[t] = snap[t]
    BY <1>2, <2>2, <2>3 DEF BInv, NumbersOK, D!Idle
  <2>5. snap' = [t \in D!Threads |-> snap'[t]]
    BY <2>3 DEF BInv, NumbersOK
  <2>6. \A t \in D!Threads : snap'[t] = [pc |-> snap'[t].pc, id |-> snap'[t].id]
    BY <1>2, <2>4
  <2>7. NumbersOK'
    BY <1>1, <2>1, <2>3, <2>5, <2>6 DEF BInv, NumbersOK
  <2>8. SnapOK'
    BY <1>2, <2>1, <2>2, <2>3, <2>4 DEF SnapOK, D!Idle
  <2>. QED  BY <1>1, <2>3, <2>7, <2>8, SameBooks DEF BInv
<1>4. CASE D!FirstSnapShot
  <2>1. /\ last' = D!None /\ book' = D!NotThere /\ UNCHANGED subscribed
        /\ snap["reader"].pc = "connected"
        /\ snap' = [snap EXCEPT !["reader"] = [pc |-> "asked", id |-> 0]]
    BY <1>4 DEF D!FirstSnapShot, D!GetDepthSnapShot, D!Erase
  <2>2. /\ snap'["reader"] = [pc |-> "asked", id |-> 0]
        /\ \A t \in D!Threads : t # "reader" => snap'[t] = snap[t]
        /\ snap' = [t \in D!Threads |-> snap'[t]]
    BY <1>2, <2>1 DEF BInv, NumbersOK
  <2>3. snap["reader"] # D!Idle
    BY <2>1 DEF D!Idle
  <2>4. subscribed # 0 /\ \A t \in D!Threads : t # "reader" => snap[t] = D!Idle
    BY <1>2, <2>3 DEF BInv, SnapOK
  <2>5. last' \in D!None .. Len(changes')
    <3>1. Len(changes) \in Nat
      BY DEF BInv, NumbersOK
    <3>. QED  BY <1>1, <2>1, <3>1 DEF D!None
  <2>6. \A t \in D!Threads : snap'[t] = [pc |-> snap'[t].pc, id |-> snap'[t].id]
    BY <1>2, <2>2
  <2>7. NumbersOK'
    BY <1>1, <2>1, <2>2, <2>5, <2>6 DEF BInv, NumbersOK
  <2>8. SnapOK'
    BY <1>2, <2>1, <2>2, <2>4 DEF SnapOK, D!Idle
  <2>. QED  BY <1>1, <2>1, <2>7, <2>8, SameBooks DEF BInv
<1>. QED  BY <1>3, <1>4

LEMMA AnswerStep ==
  ASSUME BInv, NEW t \in D!Threads, D!Answer(t) \/ D!Fail(t)
  PROVE  BInv'
<1>1. UNCHANGED <<changes, emitted, stream, subscribed, last, book, published>>
  BY DEF D!Answer, D!Fail, D!exchange
<1>2. \/ snap' = [snap EXCEPT ![t] = [pc |-> "answered", id |-> Len(changes)]]
      \/ snap' = [snap EXCEPT ![t] = D!Idle]
  BY DEF D!Answer, D!Fail
<1>3. /\ snap'[t] = [pc |-> "answered", id |-> Len(changes)] \/ snap'[t] = D!Idle
      /\ \A u \in D!Threads : u # t => snap'[u] = snap[u]
      /\ snap' = [u \in D!Threads |-> snap'[u]]
  BY <1>2 DEF BInv, NumbersOK
<1>4. snap[t] # D!Idle
  BY DEF D!Answer, D!Fail, D!Idle
<1>5. subscribed # 0 /\ last = D!None /\ \A u \in D!Threads : u # t => snap[u] = D!Idle
  BY <1>4 DEF BInv, SnapOK
<1>6. \A u \in D!Threads : snap'[u] = [pc |-> snap'[u].pc, id |-> snap'[u].id]
  BY <1>3, <1>5 DEF D!Idle
<1>7. NumbersOK'
  BY <1>1, <1>3, <1>6 DEF BInv, NumbersOK
<1>8. SnapOK'
  <2>1. Len(changes) \in 0 .. Len(changes)
    BY DEF BInv, NumbersOK
  <2>. QED  BY <1>1, <1>3, <1>5, <2>1 DEF SnapOK, D!Idle
<1>. QED  BY <1>1, <1>7, <1>8, SameBooks DEF BInv

LEMMA FillStep ==
  ASSUME BInv, D!DepthAssumption, NEW t \in D!Threads, D!Fill(t)
  PROVE  BInv'
<1>1. UNCHANGED <<changes, emitted, stream, subscribed, published>>
  BY DEF D!Fill, D!exchange
<1>. DEFINE n == snap[t].id
           there == D!There(n)
<1>2. snap[t] # D!Idle /\ snap[t].pc = "answered"
  BY DEF D!Fill, D!Idle
<1>3. /\ subscribed # 0 /\ last = D!None /\ book = D!NotThere /\ n \in 0 .. Len(changes)
      /\ \A u \in D!Threads : u # t => snap[u] = D!Idle
  BY <1>2 DEF BInv, SnapOK, BookOK
<1>4. /\ snap'[t] = D!Idle /\ \A u \in D!Threads : u # t => snap'[u] = snap[u]
      /\ snap' = [u \in D!Threads |-> snap'[u]]
  BY DEF D!Fill, BInv, NumbersOK
<1>5. \A u \in D!Threads : snap'[u] = D!Idle
  BY <1>3, <1>4
<1>6. last' = n /\ book' = [p \in D!Best(there) |-> D!VolumeAt(p, n)]
  BY <1>3 DEF D!Fill, D!NotThere
<1>. HIDE DEF n
<1>7. IsBook(book', n)
  <2>. DEFINE all == [p \in there |-> D!VolumeAt(p, n)]
  <2>1. IsBook(all, n)
    BY DEF IsBook, D!There
  <2>2. IsBook([p \in D!Best(there) |-> all[p]], n)
    BY <2>1, BestIsBook
  <2>3. D!Best(there) \subseteq there
    BY DEF D!Best
  <2>4. [p \in D!Best(there) |-> all[p]] = book'
    BY <1>6, <2>3
  <2>. QED  BY <2>2, <2>4
<1>8. Len(changes) \in Nat /\ last' \in D!None .. Len(changes) /\ last' # D!None
  BY <1>3, <1>6 DEF BInv, NumbersOK, D!None
<1>9. NumbersOK'
  BY <1>1, <1>4, <1>5, <1>8 DEF BInv, NumbersOK, D!Idle
<1>10. SnapOK'
  BY <1>1, <1>3, <1>5 DEF SnapOK
<1>11. BookOK'
  BY <1>1, <1>6, <1>7, <1>8 DEF BookOK, IsBook, D!There, D!VolumeAt, D!ChangesOf
<1>. QED  BY <1>1, <1>9, <1>10, <1>11, SameBooks DEF BInv

LEMMA SnapShotAgainStep ==
  ASSUME BInv, D!SnapShotAgain
  PROVE  BInv'
<1>1. /\ UNCHANGED <<changes, emitted, subscribed, published>> /\ last # D!None
      /\ last' = D!None /\ book' = D!NotThere /\ stream # <<>> /\ stream' = Tail(stream)
      /\ snap' = [snap EXCEPT !["websocket"] = [pc |-> "asked", id |-> 0]]
  BY DEF D!SnapShotAgain, D!GetDepthSnapShot, D!Erase, D!Read
<1>2. subscribed # 0 /\ \A t \in D!Threads : snap[t] = D!Idle
  BY <1>1 DEF BInv, SnapOK
<1>3. /\ snap'["websocket"] = [pc |-> "asked", id |-> 0]
      /\ snap' = [t \in D!Threads |-> snap'[t]]
      /\ \A t \in D!Threads : t # "websocket" => snap'[t] = D!Idle
  BY <1>1, <1>2 DEF BInv, NumbersOK, D!Threads
<1>4. \A t \in D!Threads : snap'[t] = [pc |-> snap'[t].pc, id |-> snap'[t].id]
  BY <1>3 DEF D!Idle
<1>5. Len(changes) \in Nat /\ last' \in D!None .. Len(changes)
  BY <1>1 DEF BInv, NumbersOK, D!None
<1>6. stream' \in Seq(DepthMessages(Len(changes)))
  BY <1>1 DEF BInv, NumbersOK
<1>7. NumbersOK'
  BY <1>1, <1>3, <1>4, <1>5, <1>6 DEF BInv, NumbersOK
<1>8. SnapOK'
  BY <1>1, <1>2, <1>3 DEF SnapOK, D!Idle, D!Threads
<1>. QED  BY <1>1, <1>7, <1>8, SameBooks DEF BInv

LEMMA ApplyStep ==
  ASSUME BInv, D!DepthAssumption, D!Apply
  PROVE  BInv'
<1>1. /\ UNCHANGED <<changes, emitted, subscribed, snap>> /\ last # D!None
      /\ stream # <<>> /\ stream' = Tail(stream) /\ last' = D!m.final
      /\ ~(D!m.final <= last) /\ ~(D!m.first > last + 1)
      /\ published' = [id |-> D!m.final, book |-> [p \in D!Best(DOMAIN book') |-> book'[p]]]
  BY DEF D!Apply, D!Read, D!Old, D!Missing
<1>. DEFINE changed == {changes[i].level : i \in D!m.first .. D!m.final}
<1>2. book' = [p \in DOMAIN book \cup changed |->
                 IF p \in changed THEN D!VolumeAt(p, D!m.final) ELSE book[p]]
  BY DEF D!Apply
<1>3. /\ stream \in Seq(DepthMessages(Len(changes)))
      /\ Len(changes) \in Nat /\ last \in 0 .. Len(changes) /\ IsBook(book, last)
  BY <1>1 DEF BInv, NumbersOK, BookOK, D!None
<1>4. D!m \in DepthMessages(Len(changes))
  <2>1. D!m = stream[1] /\ 1 \in 1 .. Len(stream)
    BY <1>1, <1>3 DEF D!m
  <2>. QED  BY <1>3, <2>1, ElementOfSeq
<1>5. D!m.first \in Nat \ {0} /\ D!m.final \in 0 .. Len(changes)
  BY <1>4 DEF DepthMessages
<1>6. ASSUME NEW p \in D!Levels, p \notin changed PROVE D!VolumeAt(p, D!m.final) =
        D!VolumeAt(p, last)
  <2>1. \A i \in last + 1 .. D!m.final : i \in D!m.first .. D!m.final
    BY <1>1, <1>3, <1>5
  <2>2. \A i \in last + 1 .. D!m.final : changes[i].level # p
    BY <1>6, <2>1
  <2>3. last \in Nat /\ D!m.final \in Nat /\ last <= D!m.final
    BY <1>1, <1>3, <1>5
  <2>. QED  BY <2>2, <2>3, Unchanged
<1>7. IsBook(book', D!m.final)
  <2>1. DOMAIN book \subseteq D!Levels /\ \A p \in DOMAIN book : book[p] = D!VolumeAt(p, last)
    BY <1>3 DEF IsBook
  <2>2. changed \subseteq D!Levels
    <3>1. \A i \in D!m.first .. D!m.final : i \in 1 .. Len(changes)
      BY <1>3, <1>5
    <3>2. changes \in Seq([level : D!Levels, volume : Volumes])
      BY DEF BInv, NumbersOK
    <3>3. \A i \in 1 .. Len(changes) : changes[i] \in [level : D!Levels, volume : Volumes]
      BY <3>2, ElementOfSeq
    <3>. QED  BY <3>1, <3>3
  <2>3. DOMAIN book' = DOMAIN book \cup changed /\ DOMAIN book' \subseteq D!Levels
    BY <1>2, <2>1, <2>2
  <2>4. \A p \in DOMAIN book' : book'[p] = D!VolumeAt(p, D!m.final)
    BY <1>2, <1>6, <2>1, <2>3
  <2>5. ASSUME NEW p \in D!There(D!m.final) \ DOMAIN book'
        PROVE  Cardinality(D!Better(DOMAIN book', p)) >= MaxDepth
    <3>1. p \in D!Levels /\ p \notin changed /\ p \notin DOMAIN book
      BY <2>3, <2>5 DEF D!There
    <3>2. p \in D!There(last)
      BY <1>6, <2>5, <3>1 DEF D!There
    <3>3. Cardinality(D!Better(DOMAIN book, p)) >= MaxDepth
      BY <1>3, <3>1, <3>2 DEF IsBook
    <3>4. /\ Cardinality(D!Better(DOMAIN book, p)) <= Cardinality(D!Better(DOMAIN book', p))
          /\ Cardinality(D!Better(DOMAIN book, p)) \in Nat
          /\ Cardinality(D!Better(DOMAIN book', p)) \in Nat
      <4>1. IsFiniteSet(DOMAIN book') /\ DOMAIN book \in SUBSET (DOMAIN book')
        BY <2>3, LevelsInt
      <4>. QED  BY <4>1, MoreLevels
    <3>. QED  BY <3>3, <3>4, LevelsInt
  <2>. QED  BY <2>3, <2>4, <2>5 DEF IsBook
<1>. HIDE DEF changed
<1>8. \A k : D!m.final = k => IsBook(book', k)
  BY <1>7
<1>9. PICK k \in 0 .. Len(changes) : k = D!m.final
  BY <1>5
<1>10. /\ last' = k /\ last' # D!None /\ IsBook(book', k)
       /\ published' = [id |-> k, book |-> [p \in D!Best(DOMAIN book') |-> book'[p]]]
  BY <1>1, <1>3, <1>8, <1>9 DEF D!None
<1>11. IsBook(book, last)' /\ IsBook(published.book, published.id)'
  <2>1. \A p : D!VolumeAt(p, last)' = D!VolumeAt(p, k)
    BY <1>1, <1>10 DEF D!VolumeAt, D!ChangesOf
  <2>2. \A p : D!VolumeAt(p, published.id)' = D!VolumeAt(p, k)
    BY <1>1, <1>10 DEF D!VolumeAt, D!ChangesOf
  <2>3. D!There(last)' = D!There(k) /\ D!There(published.id)' = D!There(k)
    BY <2>1, <2>2 DEF D!There
  <2>4. IsBook(published'.book, k)
    <3>1. published'.book = [p \in D!Best(DOMAIN book') |-> book'[p]]
      BY <1>10
    <3>. QED  BY <1>10, <3>1, BestIsBook
  <2>5. IsBook(book, last)'
    BY <1>10, <2>1, <2>3 DEF IsBook
  <2>6. IsBook(published.book, published.id)'
    BY <2>2, <2>3, <2>4 DEF IsBook
  <2>. QED  BY <2>5, <2>6
<1>12. stream' \in Seq(DepthMessages(Len(changes)))
  BY <1>1, <1>3
<1>13. last' \in D!None .. Len(changes)
  BY <1>3, <1>9, <1>10 DEF D!None
<1>14. NumbersOK'
  BY <1>1, <1>12, <1>13 DEF BInv, NumbersOK
<1>15. SnapOK'
  BY <1>1 DEF BInv, SnapOK
<1>16. BookOK' /\ PublishedOK'
  BY <1>1, <1>9, <1>10, <1>11 DEF BookOK, PublishedOK
<1>. QED  BY <1>14, <1>15, <1>16 DEF BInv

-----------------------------------------------------------------------------
(* The theorem.                                                            *)

LEMMA BInvInit == D!Init => BInv
<1>. SUFFICES ASSUME D!Init PROVE BInv
  OBVIOUS
<1>1. NumbersOK
  BY DEF D!Init, NumbersOK, D!Idle, D!None
<1>2. SnapOK /\ BookOK
  BY DEF D!Init, SnapOK, BookOK
<1>3. \A p : D!ChangesOf(p, 0) = {}
  BY DEF D!ChangesOf
<1>4. PublishedOK
  BY <1>3 DEF D!Init, PublishedOK, IsBook, D!There, D!VolumeAt, D!NotThere
<1>. QED  BY <1>1, <1>2, <1>4 DEF BInv

LEMMA BInvNext ==
  ASSUME MaxDepthSubs <= 1, D!DepthAssumption
  PROVE  BInv /\ [D!Next]_D!vars => BInv'
<1>. SUFFICES ASSUME BInv, [D!Next]_D!vars PROVE BInv'
  OBVIOUS
<1>1. CASE UNCHANGED D!vars
  <2>1. UNCHANGED <<changes, emitted, stream, subscribed, last, book, snap, published>>
    BY <1>1 DEF D!vars, D!exchange, D!gateway
  <2>2. NumbersOK' /\ SnapOK'
    BY <2>1 DEF BInv, NumbersOK, SnapOK
  <2>. QED  BY <2>1, <2>2, SameBooks DEF BInv
<1>2. MaxDepthSubs \in Nat
  BY DEF D!DepthAssumption
<1>3. D!OnWsDepth => BInv'
  BY PassStep, SnapShotAgainStep, ApplyStep DEF D!OnWsDepth
<1>4. \A t \in D!Threads : D!SnapShotStep(t) => BInv'
  BY AnswerStep, FillStep DEF D!SnapShotStep
<1>. QED  BY <1>1, <1>2, <1>3, <1>4, DepthChangeStep, EmitStep, ReqSubDepthStep, PassStep
             DEF D!Next

(* The levels handed on have the exchange's volumes at their number, and   *)
(* what is not handed on is worse than MaxDepth of them, for any prices,   *)
(* any volumes, any number of levels and of changes and snapshots, failing *)
(* or not, in a gateway that is subscribed to a symbol once (OnWsDepth,    *)
(* GetDepthSnapShot).                                                      *)
THEOREM BooksAreTrue ==
  ASSUME MaxDepthSubs <= 1
  PROVE  D!Spec => []PublishedIsTrue
<1>1. BInv => PublishedIsTrue
  <2>. SUFFICES ASSUME IsBook(published.book, published.id) PROVE PublishedIsTrue
    BY DEF BInv, PublishedOK
  <2>1. /\ \A p \in DOMAIN published.book : published.book[p] = D!VolumeAt(p, published.id)
        /\ \A p \in D!There(published.id) \ DOMAIN published.book :
             D!Cardinality(D!Better(DOMAIN published.book, p)) >= MaxDepth
    BY SameCount DEF IsBook
  <2>. QED  BY <2>1 DEF PublishedIsTrue, D!PublishedIsTrue
<1>2. BInv /\ [D!Next]_(D!vars) => BInv'
  BY BInvNext, DepthHolds
<1>. QED  BY <1>1, <1>2, BInvInit, PTL DEF D!Spec

-----------------------------------------------------------------------------
(* Books of OKEX: the inductive invariant.                                 *)

OkexBooks == [O!Sides -> [Prices -> OVolumes]]
Msg == [symbol : OSymbols, levels : SUBSET O!Level, first : BOOLEAN, time : Int,
        book : OkexBooks]

(* Levels applied to a book of the gateway, as Applied does it with those  *)
(* of the message. *)
AppliedTo(levels, b) ==
  [side \in O!Sides |->
    LET new == {l \in levels : l.side = side}
        gone == {l.price : l \in {k \in new : k.volume = 0}}
        set == {l.price : l \in new} \ gone IN
    [p \in (DOMAIN b[side] \cup set) \ gone |->
       IF p \in set THEN (CHOOSE l \in new : l.price = p).volume ELSE b[side][p]]]

(* A message takes the gateway's book b to the exchange's. *)
Takes(w, b) == AppliedTo(w.levels, b) = O!There(w.book)

Batches == {<<w>> : w \in Msg}
W(i) == owire[i][1]
Of(s) == {i \in DOMAIN owire : W(i).symbol = s}

(* Messages come one by one, and none is old: an int is less than any time. *)
OkexTyped ==
  /\ obook \in [OSymbols -> OkexBooks] /\ osends \in [OSymbols -> BOOLEAN]
  /\ otime \in Int /\ otime >= Epoch
  /\ owire \in Seq(Batches)
  /\ \A i \in DOMAIN owire : W(i).time >= Epoch
  /\ olast \in Int /\ olast < HalfInt
  /\ odepth = [s \in OSymbols |-> odepth[s]] /\ opublished = [s \in OSymbols |-> opublished[s]]
  /\ owhole \subseteq OSymbols

(* The messages of a symbol that are under way take the gateway's book to  *)
(* the exchange's, each from the book of the one before. *)
FirstOK == \A i \in DOMAIN owire : W(i).first => Takes(W(i), O!NoBook)
ChainOK(s) ==
  \A i, j \in Of(s) :
    i < j /\ ~W(j).first /\ (\A k \in Of(s) : k <= i \/ k >= j) =>
      Takes(W(j), O!There(W(i).book))
HeadOK(s) ==
  s \in owhole =>
    \A j \in Of(s) : ~W(j).first /\ (\A k \in Of(s) : k >= j) => Takes(W(j), odepth[s])
EndOK(s) ==
  osends[s] => /\ \A i \in Of(s) : (\A k \in Of(s) : k <= i) => W(i).book = obook[s]
               /\ s \in owhole /\ Of(s) = {} => odepth[s] = O!There(obook[s])

OInv ==
  /\ OkexTyped /\ FirstOK /\ O!PublishedIsTrue
  /\ \A s \in OSymbols : ChainOK(s) /\ HeadOK(s) /\ EndOK(s)

-----------------------------------------------------------------------------
(* Lemmas about books.                                                     *)

(* One side of a book with levels applied. *)
New(levels, side) == {l \in levels : l.side = side}
Gone(levels, side) == {l.price : l \in {k \in New(levels, side) : k.volume = 0}}
Put(levels, side) == {l.price : l \in New(levels, side)} \ Gone(levels, side)
SideOf(levels, side, f) ==
  [p \in (DOMAIN f \cup Put(levels, side)) \ Gone(levels, side) |->
     IF p \in Put(levels, side) THEN (CHOOSE l \in New(levels, side) : l.price = p).volume
                                ELSE f[p]]
Left(f) == [p \in {q \in Prices : f[q] # 0} |-> f[p]]

LEMMA BySides ==
  /\ \A levels, b : AppliedTo(levels, b) = [side \in O!Sides |-> SideOf(levels, side, b[side])]
  /\ \A b : O!There(b) = [side \in O!Sides |-> Left(b[side])]
  /\ \A b : O!Applied(b) = AppliedTo(O!m.levels, b)
<1>1. \A levels, b : AppliedTo(levels, b) = [side \in O!Sides |-> SideOf(levels, side, b[side])]
  BY DEF AppliedTo, SideOf, New, Gone, Put
<1>2. \A b : O!There(b) = [side \in O!Sides |-> Left(b[side])]
  BY DEF O!There, Left
<1>3. \A b : O!Applied(b) = AppliedTo(O!m.levels, b)
  BY DEF O!Applied, AppliedTo
<1>. QED  BY <1>1, <1>2, <1>3

(* The whole book, applied to an empty one, is the exchange's. *)
LEMMA WholeBook ==
  ASSUME NEW b \in OkexBooks
  PROVE  AppliedTo(O!All(b), O!NoBook) = O!There(b)
<1>1. ASSUME NEW side \in O!Sides
      PROVE  SideOf(O!All(b), side, O!NoBook[side]) = Left(b[side])
  <2>. DEFINE new == New(O!All(b), side)
  <2>0. b[side] \in [Prices -> OVolumes]
    BY DEF OkexBooks
  <2>1. \A l \in new : /\ l.side = side /\ l.price \in Prices
                       /\ l.volume = b[side][l.price] /\ l.volume # 0
    BY DEF New, O!All, O!Level
  <2>2. ASSUME NEW p \in Prices, b[side][p] # 0 PROVE \E l \in new : l.price = p
    <3>1. [side |-> side, price |-> p, volume |-> b[side][p]] \in O!Level
      BY <2>0 DEF O!Level
    <3>2. [side |-> side, price |-> p, volume |-> b[side][p]] \in O!All(b)
      BY <2>2, <3>1 DEF O!All
    <3>. QED  BY <3>2 DEF New
  <2>3. Gone(O!All(b), side) = {}
    BY <2>1 DEF Gone
  <2>4. Put(O!All(b), side) = {q \in Prices : b[side][q] # 0}
    BY <2>1, <2>2, <2>3 DEF Put
  <2>5. ASSUME NEW p \in Put(O!All(b), side)
        PROVE  (CHOOSE l \in new : l.price = p).volume = b[side][p]
    <3>1. \E l \in new : l.price = p
      BY <2>2, <2>4, <2>5
    <3>2. (CHOOSE l \in new : l.price = p) \in new /\ (CHOOSE l \in new : l.price = p).price = p
      BY <3>1
    <3>. QED  BY <2>1, <3>2
  <2>6. DOMAIN O!NoBook[side] = {}
    BY DEF O!NoBook
  <2>7. (DOMAIN O!NoBook[side] \cup Put(O!All(b), side)) \ Gone(O!All(b), side) =
          {q \in Prices : b[side][q] # 0}
    BY <2>3, <2>4, <2>6
  <2>. QED  BY <2>4, <2>5, <2>7 DEF SideOf, Left
<1>2. AppliedTo(O!All(b), O!NoBook) =
        [side \in O!Sides |-> SideOf(O!All(b), side, O!NoBook[side])]
  BY BySides
<1>3. O!There(b) = [side \in O!Sides |-> Left(b[side])]
  BY BySides
<1>. QED  BY <1>1, <1>2, <1>3

(* A change takes the book before it to the book after it. *)
LEMMA OneLevel ==
  ASSUME NEW b \in OkexBooks, NEW l \in O!Level, NEW c \in OkexBooks,
         c = [b EXCEPT ![l.side][l.price] = l.volume]
  PROVE  AppliedTo({l}, O!There(b)) = O!There(c)
<1>0. l.side \in O!Sides /\ l.price \in Prices
  BY DEF O!Level
<1>1. ASSUME NEW side \in O!Sides
      PROVE  SideOf({l}, side, Left(b[side])) = Left(c[side])
  <2>0. b[side] \in [Prices -> OVolumes] /\ c[side] \in [Prices -> OVolumes]
    BY DEF OkexBooks
  <2>1. CASE side # l.side
    <3>1. New({l}, side) = {}
      BY <2>1 DEF New
    <3>2. Gone({l}, side) = {}
      BY <3>1 DEF Gone
    <3>3. Put({l}, side) = {}
      BY <3>1 DEF Put
    <3>4. c[side] = b[side]
      BY <1>0, <2>1 DEF OkexBooks
    <3>5. (DOMAIN Left(b[side]) \cup Put({l}, side)) \ Gone({l}, side) =
            {q \in Prices : b[side][q] # 0}
      BY <3>2, <3>3 DEF Left
    <3>6. \A p \in {q \in Prices : b[side][q] # 0} : Left(b[side])[p] = b[side][p]
      BY DEF Left
    <3>. QED  BY <3>3, <3>4, <3>5, <3>6 DEF SideOf, Left
  <2>2. CASE side = l.side
    <3>1. New({l}, side) = {l}
      BY <2>2 DEF New
    <3>2. c[side][l.price] = l.volume /\ \A p \in Prices : p # l.price =>
            c[side][p] = b[side][p]
      BY <1>0, <2>0, <2>2 DEF OkexBooks
    <3>3. \A p \in {q \in Prices : b[side][q] # 0} : Left(b[side])[p] = b[side][p]
      BY DEF Left
    <3>4. DOMAIN Left(b[side]) = {q \in Prices : b[side][q] # 0}
      BY DEF Left
    <3>5. CASE l.volume = 0
      <4>1. Gone({l}, side) = {l.price}
        BY <3>1, <3>5 DEF Gone
      <4>2. Put({l}, side) = {}
        BY <3>1, <4>1 DEF Put
      <4>3. {q \in Prices : b[side][q] # 0} \ {l.price} = {q \in Prices : c[side][q] # 0}
        BY <1>0, <3>2, <3>5
      <4>4. (DOMAIN Left(b[side]) \cup Put({l}, side)) \ Gone({l}, side) =
              {q \in Prices : c[side][q] # 0}
        BY <3>4, <4>1, <4>2, <4>3
      <4>5. \A p \in {q \in Prices : c[side][q] # 0} : Left(b[side])[p] = c[side][p]
        BY <3>2, <3>3, <3>5
      <4>. QED  BY <4>2, <4>4, <4>5 DEF SideOf, Left
    <3>6. CASE l.volume # 0
      <4>1. Gone({l}, side) = {}
        BY <3>1, <3>6 DEF Gone
      <4>2. Put({l}, side) = {l.price}
        BY <3>1, <4>1 DEF Put
      <4>3. {q \in Prices : b[side][q] # 0} \cup {l.price} = {q \in Prices : c[side][q] # 0}
        BY <1>0, <3>2, <3>6
      <4>4. (DOMAIN Left(b[side]) \cup Put({l}, side)) \ Gone({l}, side) =
              {q \in Prices : c[side][q] # 0}
        BY <3>4, <4>1, <4>2, <4>3
      <4>5. (CHOOSE k \in New({l}, side) : k.price = l.price) = l
        BY <3>1
      <4>6. \A p \in {q \in Prices : c[side][q] # 0} :
              (IF p \in Put({l}, side) THEN (CHOOSE k \in New({l}, side) : k.price = p).volume
               ELSE Left(b[side])[p]) = c[side][p]
        BY <3>2, <3>3, <4>2, <4>5
      <4>7. SideOf({l}, side, Left(b[side])) =
              [p \in {q \in Prices : c[side][q] # 0} |->
                 IF p \in Put({l}, side) THEN (CHOOSE k \in New({l}, side) : k.price = p).volume
                 ELSE Left(b[side])[p]]
        BY <4>4 DEF SideOf
      <4>8. Left(c[side]) = [p \in {q \in Prices : c[side][q] # 0} |-> c[side][p]]
        BY DEF Left
      <4>. QED  BY <4>6, <4>7, <4>8
    <3>. QED  BY <3>5, <3>6
  <2>. QED  BY <2>1, <2>2
<1>2. AppliedTo({l}, O!There(b)) = [side \in O!Sides |-> SideOf({l}, side, O!There(b)[side])]
  BY BySides
<1>3. O!There(b) = [side \in O!Sides |-> Left(b[side])] /\
        O!There(c) = [side \in O!Sides |-> Left(c[side])]
  BY BySides
<1>4. \A side \in O!Sides : O!There(b)[side] = Left(b[side])
  BY <1>3
<1>. QED  BY <1>1, <1>2, <1>3, <1>4

(* An int is less than any time. *)
LEMMA Ints ==
  ASSUME O!OkexBookAssumption, NEW t \in Int
  PROVE  O!ToInt(t) \in Int /\ O!ToInt(t) < HalfInt
<1>1. HalfInt \in Nat \ {0}
  BY DEF O!OkexBookAssumption
<1>. DEFINE k == 2 * HalfInt
            a == t + HalfInt
<1>2. k \in Nat \ {0} /\ a \in Int
  BY <1>1
<1>3. a % k \in 0 .. k - 1
  <2>. HIDE DEF a, k
  <2>. QED  BY <1>2
<1>4. a % k < k /\ a % k \in Int
  BY <1>2, <1>3
<1>. QED  BY <1>1, <1>4 DEF O!ToInt

-----------------------------------------------------------------------------
(* Lemmas about the messages under way.                                    *)

LEMMA WireFacts ==
  ASSUME OkexTyped
  PROVE  /\ Len(owire) \in Nat /\ DOMAIN owire = 1 .. Len(owire)
         /\ \A i \in DOMAIN owire : W(i) \in Msg /\ owire[i] = <<W(i)>>
         /\ \A s : Of(s) \subseteq 1 .. Len(owire)
<1>1. owire \in Seq(Batches)
  BY DEF OkexTyped
<1>2. Len(owire) \in Nat /\ DOMAIN owire = 1 .. Len(owire)
  BY <1>1
<1>3. ASSUME NEW i \in DOMAIN owire PROVE W(i) \in Msg /\ owire[i] = <<W(i)>>
  <2>1. owire[i] \in Batches
    BY <1>1, <1>2, <1>3, ElementOfSeq
  <2>2. PICK w \in Msg : owire[i] = <<w>>
    BY <2>1 DEF Batches
  <2>3. <<w>>[1] = w
    OBVIOUS
  <2>. QED  BY <2>2, <2>3 DEF W
<1>. QED  BY <1>2, <1>3 DEF Of

(* One more is sent... *)
LEMMA OkexSent ==
  ASSUME OkexTyped, MaxBatch = 1, NEW s \in OSymbols, NEW w \in Msg, w.symbol = s, O!Send(w)
  PROVE  /\ owire' \in Seq(Batches) /\ DOMAIN owire' = 1 .. Len(owire) + 1
         /\ \A i \in DOMAIN owire : W(i)' = W(i)
         /\ owire'[Len(owire) + 1][1] = w
         /\ Of(s)' = Of(s) \cup {Len(owire) + 1}
         /\ \A t : t # s => Of(t)' = Of(t)
<1>1. owire \in Seq(Batches) /\ <<w>> \in Batches
  BY DEF OkexTyped, Batches
<1>2. owire' = Append(owire, <<w>>)
  <2>1. ASSUME owire # <<>>, Len(owire[Len(owire)]) < 1 PROVE FALSE
    <3>1. Len(owire) \in DOMAIN owire
      BY <1>1, <2>1
    <3>2. owire[Len(owire)] = <<W(Len(owire))>>
      BY <3>1, WireFacts
    <3>3. Len(<<W(Len(owire))>>) = 1
      OBVIOUS
    <3>. QED  BY <2>1, <3>2, <3>3
  <2>. QED  BY <2>1 DEF O!Send
<1>3. /\ owire' \in Seq(Batches) /\ Len(owire') = Len(owire) + 1
      /\ Len(owire) \in Nat
      /\ DOMAIN owire = 1 .. Len(owire) /\ DOMAIN owire' = 1 .. Len(owire')
      /\ owire'[Len(owire) + 1] = <<w>>
      /\ \A i \in 1 .. Len(owire) : owire'[i] = owire[i]
  BY <1>1, <1>2
<1>4. \A i \in DOMAIN owire : W(i)' = W(i)
  BY <1>3 DEF W
<1>5. owire'[Len(owire) + 1][1] = w
  <2>1. <<w>>[1] = w
    OBVIOUS
  <2>. QED  BY <1>3, <2>1
<1>6. DOMAIN owire' = DOMAIN owire \cup {Len(owire) + 1}
  BY <1>3
<1>7. \A t : Of(t)' = {i \in DOMAIN owire' : owire'[i][1].symbol = t}
  BY DEF Of, W
<1>8. \A i \in DOMAIN owire : owire'[i][1] = W(i)
  BY <1>4 DEF W
<1>9. Of(s)' = Of(s) \cup {Len(owire) + 1}
  BY <1>5, <1>6, <1>7, <1>8 DEF Of, W
<1>10. \A t : t # s => Of(t)' = Of(t)
  BY <1>5, <1>6, <1>7, <1>8 DEF Of
<1>. QED  BY <1>3, <1>4, <1>5, <1>9, <1>10

(* ...and the symbols' books stay as they are told. *)
LEMMA SendStep ==
  ASSUME OInv, MaxBatch = 1, NEW s \in OSymbols, NEW w \in Msg, w.symbol = s, O!Send(w),
         w.time >= Epoch, w.book = obook'[s], obook' \in [OSymbols -> OkexBooks],
         \A t \in OSymbols : t # s => obook'[t] = obook[t] /\ osends'[t] = osends[t],
         osends' \in [OSymbols -> BOOLEAN], otime' \in Int, otime' >= Epoch,
         w.first => Takes(w, O!NoBook),
         ~w.first => osends[s] /\ Takes(w, O!There(obook[s])),
         UNCHANGED <<olast, odepth, opublished, owhole>>
  PROVE  OInv'
<1>1. PICK n \in Nat : n = Len(owire) + 1
  BY WireFacts DEF OInv
<1>2. /\ owire' \in Seq(Batches) /\ DOMAIN owire = 1 .. n - 1 /\ DOMAIN owire' = 1 .. n
      /\ \A i \in DOMAIN owire : W(i)' = W(i)
      /\ W(n)' = w
      /\ Of(s)' = Of(s) \cup {n}
      /\ \A t : t # s => Of(t)' = Of(t)
      /\ \A t : Of(t) \subseteq 1 .. n - 1
  <2>1. owire'[n][1] = w
    BY <1>1, OkexSent DEF OInv
  <2>2. W(n)' = w
    BY <2>1 DEF W
  <2>. QED  BY <1>1, <2>2, OkexSent, WireFacts DEF OInv
<1>3. \A i \in DOMAIN owire' : i \in DOMAIN owire \/ i = n
  BY <1>2
<1>4. \A w1, b : Takes(w1, b)' <=> Takes(w1, b)
  BY DEF Takes
<1>5. OkexTyped'
  <2>1. \A i \in DOMAIN owire' : W(i)'.time >= Epoch
    BY <1>2, <1>3 DEF OInv, OkexTyped
  <2>. QED  BY <1>2, <2>1 DEF OInv, OkexTyped
<1>6. FirstOK'
  <2>1. \A i \in DOMAIN owire' : W(i)'.first => Takes(W(i)', O!NoBook)
    BY <1>2, <1>3 DEF OInv, FirstOK
  <2>. QED  BY <2>1 DEF FirstOK, Takes
<1>7. O!PublishedIsTrue'
  BY DEF OInv, O!PublishedIsTrue
<1>8. ASSUME NEW t \in OSymbols, t # s PROVE ChainOK(t)' /\ HeadOK(t)' /\ EndOK(t)'
  <2>1. ChainOK(t) /\ HeadOK(t) /\ EndOK(t) /\ Of(t)' = Of(t) /\ obook'[t] = obook[t] /\
          osends'[t] = osends[t]
    BY <1>2, <1>8 DEF OInv
  <2>2. \A i \in Of(t) : W(i)' = W(i)
    BY <1>2 
  <2>3. ChainOK(t)'
    BY <2>1, <2>2 DEF ChainOK, Takes
  <2>4. HeadOK(t)'
    BY <2>1, <2>2 DEF HeadOK, Takes
  <2>5. EndOK(t)'
    BY <2>1, <2>2 DEF EndOK
  <2>. QED  BY <2>3, <2>4, <2>5
<1>9. ChainOK(s) /\ HeadOK(s) /\ EndOK(s) /\ \A i \in Of(s) : W(i)' = W(i) /\ i \in Nat /\ i < n
  BY <1>2 DEF OInv
<1>10. ChainOK(s)'
  <2>1. ASSUME NEW i \in Of(s)', NEW j \in Of(s)', i < j, ~W(j)'.first,
               \A k \in Of(s)' : k <= i \/ k >= j
        PROVE  Takes(W(j)', O!There(W(i)'.book))
    <3>1. i \in Of(s) /\ W(i)' = W(i)
      <4>1. j <= n
        BY <1>2, <1>9
      <4>. QED  BY <1>2, <1>9, <2>1, <4>1
    <3>2. CASE j \in Of(s)
      <4>1. \A k \in Of(s) : k <= i \/ k >= j
        BY <1>2, <2>1
      <4>. QED  BY <1>9, <2>1, <3>1, <3>2, <4>1 DEF ChainOK
    <3>3. CASE j = n
      <4>1. \A k \in Of(s) : k <= i
        BY <1>2, <1>9, <2>1, <3>3
      <4>2. osends[s] /\ W(j)' = w
        BY <1>2, <2>1, <3>3
      <4>3. W(i).book = obook[s]
        BY <1>9, <3>1, <4>1, <4>2 DEF EndOK
      <4>. QED  BY <1>2, <2>1, <3>1, <3>3, <4>3
    <3>. QED  BY <1>2, <3>2, <3>3
  <2>. QED  BY <2>1 DEF ChainOK, Takes
<1>11. HeadOK(s)'
  <2>1. ASSUME s \in owhole, NEW j \in Of(s)', ~W(j)'.first, \A k \in Of(s)' : k >= j
        PROVE  Takes(W(j)', odepth[s])
    <3>1. CASE j \in Of(s)
      <4>1. \A k \in Of(s) : k >= j
        BY <1>2, <2>1
      <4>. QED  BY <1>9, <2>1, <3>1, <4>1 DEF HeadOK
    <3>2. CASE j = n
      <4>1. Of(s) = {}
        BY <1>2, <1>9, <2>1, <3>2
      <4>2. odepth[s] = O!There(obook[s])
        BY <1>2, <1>9, <2>1, <3>2, <4>1 DEF EndOK
      <4>. QED  BY <1>2, <2>1, <3>2, <4>2
    <3>. QED  BY <1>2, <3>1, <3>2
  <2>. QED  BY <2>1 DEF HeadOK, Takes
<1>12. EndOK(s)'
  <2>1. n \in Of(s)'
    BY <1>2
  <2>2. ASSUME NEW i \in Of(s)', \A k \in Of(s)' : k <= i PROVE W(i)'.book = obook'[s]
    <3>1. i = n
      BY <1>2, <1>9, <2>1, <2>2
    <3>. QED  BY <1>2, <3>1
  <2>. QED  BY <2>1, <2>2 DEF EndOK
<1>. QED  BY <1>5, <1>6, <1>7, <1>8, <1>10, <1>11, <1>12 DEF OInv

(* A step that sends nothing and hands on nothing. *)
LEMMA QuietStep ==
  ASSUME OInv, UNCHANGED <<owire, olast, odepth, opublished, owhole>>,
         obook' \in [OSymbols -> OkexBooks], osends' \in [OSymbols -> BOOLEAN], otime' \in Int,
           otime' >= Epoch,
         \A t \in OSymbols : osends'[t] => osends[t] /\ obook'[t] = obook[t]
  PROVE  OInv'
<1>1. (\A i : W(i)' = W(i)) /\ \A s : Of(s)' = Of(s)
  BY DEF W, Of
<1>2. OkexTyped' /\ FirstOK' /\ O!PublishedIsTrue'
  BY <1>1 DEF OInv, OkexTyped, FirstOK, O!PublishedIsTrue, Takes
<1>3. ASSUME NEW s \in OSymbols PROVE ChainOK(s)' /\ HeadOK(s)' /\ EndOK(s)'
  <2>1. ChainOK(s) /\ HeadOK(s) /\ EndOK(s)
    BY DEF OInv
  <2>2. ChainOK(s)'
    BY <1>1, <2>1 DEF ChainOK, Takes
  <2>3. HeadOK(s)'
    BY <1>1, <2>1 DEF HeadOK, Takes
  <2>4. EndOK(s)'
    BY <1>1, <2>1 DEF EndOK
  <2>. QED  BY <2>2, <2>3, <2>4
<1>. QED  BY <1>2, <1>3 DEF OInv

-----------------------------------------------------------------------------
(* What each action does.                                                  *)

LEMMA OkexChangeStep ==
  ASSUME O!OkexBookAssumption, OInv, MaxBatch = 1, NEW s \in OSymbols, NEW l \in O!Level,
    O!Change(s, l)
  PROVE  OInv'
<1>. DEFINE c == [obook[s] EXCEPT ![l.side][l.price] = l.volume]
<1>0. /\ obook \in [OSymbols -> OkexBooks] /\ obook[s] \in OkexBooks /\ otime \in Int
      /\ otime >= Epoch
      /\ osends \in [OSymbols -> BOOLEAN] /\ Epoch \in Nat
  BY DEF OInv, OkexTyped, O!OkexBookAssumption
<1>1. l.side \in O!Sides /\ l.price \in Prices /\ l.volume \in OVolumes
  BY DEF O!Level
<1>2. c \in OkexBooks
  BY <1>0, <1>1 DEF OkexBooks
<1>3. obook' = [obook EXCEPT ![s] = c]
  BY DEF O!Change
<1>4. /\ otime' \in Int /\ otime' >= Epoch
      /\ UNCHANGED <<osends, olast, odepth, opublished, owhole>>
  BY <1>0 DEF O!Change, O!gateway
<1>. HIDE DEF c
<1>5. obook' \in [OSymbols -> OkexBooks] /\ obook'[s] = c /\ \A t \in OSymbols : t # s =>
        obook'[t] = obook[t]
  BY <1>0, <1>2, <1>3
<1>6. CASE ~osends[s]
  <2>1. UNCHANGED owire
    BY <1>6 DEF O!Change
  <2>. QED  BY <1>0, <1>4, <1>5, <1>6, <2>1, QuietStep
<1>7. CASE osends[s]
  <2>. DEFINE w == [symbol |-> s, levels |-> {l}, first |-> FALSE, time |-> otime', book |-> c]
  <2>1. O!Send(w)
    <3>1. O!Send([symbol |-> s, levels |-> {l}, first |-> FALSE, time |-> otime',
            book |-> obook'[s]])
      BY <1>7 DEF O!Change, O!Message
    <3>. QED  BY <1>5, <3>1
  <2>2. {l} \in SUBSET O!Level
    OBVIOUS
  <2>3. w \in Msg
    BY <1>2, <1>4, <2>2 DEF Msg
  <2>4. w.symbol = s /\ w.book = c /\ w.levels = {l} /\ ~w.first /\ w.time = otime'
    OBVIOUS
  <2>. HIDE DEF w
  <2>5. AppliedTo({l}, O!There(obook[s])) = O!There(c)
    BY <1>0, <1>2, OneLevel DEF c
  <2>6. Takes(w, O!There(obook[s]))
    BY <2>4, <2>5 DEF Takes
  <2>. QED  BY <1>0, <1>4, <1>5, <1>7, <2>1, <2>3, <2>4, <2>6, SendStep
<1>. QED  BY <1>6, <1>7

LEMMA AddChannelStep ==
  ASSUME O!OkexBookAssumption, OInv, MaxBatch = 1, NEW s \in OSymbols, O!AddChannel(s)
  PROVE  OInv'
<1>1. /\ obook \in [OSymbols -> OkexBooks] /\ obook[s] \in OkexBooks /\ otime \in Int
      /\ otime >= Epoch
      /\ osends \in [OSymbols -> BOOLEAN]
  BY DEF OInv, OkexTyped
<1>2. UNCHANGED <<obook, otime, olast, odepth, opublished, owhole>> /\
        osends' = [osends EXCEPT ![s] = TRUE]
  BY DEF O!AddChannel
<1>3. osends' \in [OSymbols -> BOOLEAN] /\ \A t \in OSymbols : t # s => osends'[t] = osends[t]
  BY <1>1, <1>2
<1>. DEFINE w == [symbol |-> s, levels |-> O!All(obook[s]), first |-> TRUE, time |-> otime,
       book |-> obook[s]]
<1>4. O!Send(w)
  BY <1>2 DEF O!AddChannel, O!Message
<1>5. O!All(obook[s]) \in SUBSET O!Level
  BY DEF O!All
<1>6. w \in Msg
  BY <1>1, <1>5 DEF Msg
<1>7. w.symbol = s /\ w.book = obook[s] /\ w.levels = O!All(obook[s]) /\ w.first /\
        w.time = otime
  OBVIOUS
<1>. HIDE DEF w
<1>8. Takes(w, O!NoBook)
  BY <1>1, <1>7, WholeBook DEF Takes
<1>. QED  BY <1>1, <1>2, <1>3, <1>4, <1>6, <1>7, <1>8, SendStep

(* The first message is read. *)
LEMMA Taken ==
  ASSUME OkexTyped, owire # <<>>, owire' = Tail(owire)
  PROVE  /\ owire' \in Seq(Batches) /\ 1 \in DOMAIN owire /\ O!Batch = <<W(1)>> /\
              W(1) \in Msg
         /\ \A i \in DOMAIN owire' : i \in Nat \ {0} /\ i + 1 \in DOMAIN owire /\
              W(i)' = W(i + 1)
         /\ \A t : \A i : i \in Of(t)' <=> i \in Nat \ {0} /\ i + 1 \in Of(t)
         /\ \A t : Of(t) \subseteq Nat \ {0}
<1>1. /\ owire \in Seq(Batches) /\ \A t : Of(t) \subseteq Nat \ {0}
      /\ \A i \in DOMAIN owire : W(i) \in Msg /\ owire[i] = <<W(i)>>
  BY WireFacts DEF OkexTyped
<1>2. /\ owire' \in Seq(Batches) /\ Len(owire') = Len(owire) - 1
      /\ Len(owire) \in Nat /\ Len(owire) >= 1
      /\ DOMAIN owire = 1 .. Len(owire) /\ DOMAIN owire' = 1 .. Len(owire')
      /\ O!Batch = owire[1]
      /\ \A i \in 1 .. Len(owire) - 1 : owire'[i] = owire[i + 1]
  BY <1>1 DEF O!Batch
<1>3. \A i : i \in DOMAIN owire' <=> i \in Nat \ {0} /\ i + 1 \in DOMAIN owire
  <2>1. ASSUME NEW i \in DOMAIN owire' PROVE i \in Nat \ {0} /\ i + 1 \in DOMAIN owire
    BY <1>2
  <2>2. ASSUME NEW i \in Nat \ {0}, i + 1 \in DOMAIN owire PROVE i \in DOMAIN owire'
    BY <1>2, <2>2
  <2>. QED  BY <2>1, <2>2
<1>4. \A i \in DOMAIN owire' : owire'[i] = owire[i + 1]
  BY <1>2
<1>5. \A i \in DOMAIN owire' : W(i)' = W(i + 1)
  BY <1>4 DEF W
<1>6. \A t : \A i : i \in Of(t)' <=> i \in DOMAIN owire' /\ owire'[i][1].symbol = t
  BY DEF Of, W
<1>7. \A t : \A i : i \in Of(t)' <=> i \in Nat \ {0} /\ i + 1 \in Of(t)
  <2>1. ASSUME NEW t, NEW i, i \in Of(t)' PROVE i \in Nat \ {0} /\ i + 1 \in Of(t)
    BY <1>3, <1>4, <1>6, <2>1 DEF Of, W
  <2>2. ASSUME NEW t, NEW i \in Nat \ {0}, i + 1 \in Of(t) PROVE i \in Of(t)'
    <3>1. i + 1 \in DOMAIN owire /\ owire[i + 1][1].symbol = t
      BY <2>2 DEF Of, W
    <3>. QED  BY <1>3, <1>4, <1>6, <3>1
  <2>. QED  BY <2>1, <2>2
<1>8. 1 \in DOMAIN owire
  BY <1>2
<1>. QED  BY <1>1, <1>2, <1>3, <1>5, <1>7, <1>8

LEMMA TakenStep ==
  ASSUME OInv, owire # <<>>, owire' = Tail(owire), NEW s \in OSymbols, s = W(1).symbol,
         UNCHANGED <<obook, otime, osends>>, olast' \in Int, olast' < HalfInt,
         odepth' = [t \in OSymbols |-> odepth'[t]], opublished' =
           [t \in OSymbols |-> opublished'[t]],
         owhole' \subseteq OSymbols,
         \A t \in OSymbols : t # s => /\ odepth'[t] = odepth[t] /\
                                           opublished'[t] = opublished[t]
                                      /\ t \in owhole' => t \in owhole,
         s \in owhole' => /\ odepth'[s] = O!There(W(1).book)
                          /\ opublished'[s].told = opublished'[s].true
  PROVE  OInv'
<1>1. /\ owire' \in Seq(Batches) /\ 1 \in DOMAIN owire /\ W(1) \in Msg
      /\ \A i \in DOMAIN owire' : i \in Nat \ {0} /\ i + 1 \in DOMAIN owire /\
           W(i)' = W(i + 1)
      /\ \A t : \A i : i \in Of(t)' <=> i \in Nat \ {0} /\ i + 1 \in Of(t)
      /\ \A t : Of(t) \subseteq Nat \ {0}
  BY Taken DEF OInv
<1>2. \A t : \A i \in Of(t)' : W(i)' = W(i + 1) /\ i \in Nat /\ i + 1 \in Of(t)
  <2>1. \A t : \A i \in Of(t)' : i \in DOMAIN owire'
    BY DEF Of
  <2>. QED  BY <1>1, <2>1
<1>3. \A t : \A k \in Of(t) : k \in Nat /\ (k = 1 \/ (k >= 2 /\ k - 1 \in Of(t)'))
  <2>1. ASSUME NEW t, NEW k \in Of(t) PROVE k \in Nat /\ (k = 1 \/ (k >= 2 /\ k - 1 \in Of(t)'))
    <3>1. k \in Nat \ {0}
      BY <1>1
    <3>2. CASE k # 1
      <4>1. k - 1 \in Nat \ {0} /\ k - 1 + 1 = k
        BY <3>1, <3>2
      <4>. QED  BY <1>1, <3>1, <3>2, <4>1
    <3>. QED  BY <3>1, <3>2
  <2>. QED  BY <2>1
<1>4. \A t \in OSymbols : ChainOK(t) /\ HeadOK(t) /\ EndOK(t)
  BY DEF OInv
<1>5. OkexTyped'
  <2>1. \A i \in DOMAIN owire' : W(i)'.time >= Epoch
    BY <1>1 DEF OInv, OkexTyped
  <2>. QED  BY <1>1, <2>1 DEF OInv, OkexTyped
<1>6. FirstOK'
  <2>1. \A i \in DOMAIN owire' : W(i)'.first => Takes(W(i)', O!NoBook)
    BY <1>1 DEF OInv, FirstOK
  <2>. QED  BY <2>1 DEF FirstOK, Takes
<1>7. O!PublishedIsTrue'
  BY DEF OInv, O!PublishedIsTrue, OkexTyped
<1>8. ASSUME NEW t \in OSymbols PROVE ChainOK(t)'
  <2>1. ASSUME NEW i \in Of(t)', NEW j \in Of(t)', i < j, ~W(j)'.first,
               \A k \in Of(t)' : k <= i \/ k >= j
        PROVE  Takes(W(j)', O!There(W(i)'.book))
    <3>1. i + 1 \in Of(t) /\ j + 1 \in Of(t) /\ i + 1 < j + 1 /\ ~W(j + 1).first
      BY <1>2, <2>1
    <3>2. ASSUME NEW k \in Of(t) PROVE k <= i + 1 \/ k >= j + 1
      <4>1. k \in Nat /\ i \in Nat /\ j \in Nat
        BY <1>2, <1>3
      <4>2. CASE k = 1
        BY <4>1, <4>2
      <4>3. CASE k - 1 \in Of(t)'
        <5>1. k - 1 <= i \/ k - 1 >= j
          BY <2>1, <4>3
        <5>. QED  BY <4>1, <5>1
      <4>. QED  BY <1>3, <4>2, <4>3
    <3>3. Takes(W(j + 1), O!There(W(i + 1).book))
      BY <1>4, <3>1, <3>2 DEF ChainOK
    <3>. QED  BY <1>2, <3>3
  <2>. QED  BY <2>1 DEF ChainOK, Takes
<1>9. ASSUME NEW t \in OSymbols PROVE HeadOK(t)'
  <2>1. ASSUME t \in owhole', NEW j \in Of(t)', ~W(j)'.first, \A k \in Of(t)' : k >= j
        PROVE  Takes(W(j)', odepth'[t])
    <3>1. j + 1 \in Of(t) /\ W(j)' = W(j + 1) /\ ~W(j + 1).first /\ j \in Nat \ {0}
      BY <1>1, <1>2, <2>1
    <3>2. ASSUME NEW k \in Of(t) PROVE k = 1 \/ k >= j + 1
      <4>1. CASE k # 1
        <5>1. k - 1 >= j /\ k \in Nat
          BY <1>3, <2>1, <4>1
        <5>. QED  BY <3>1, <5>1
      <4>. QED  BY <4>1
    <3>3. CASE t = s
      <4>1. 1 \in Of(t)
        BY <1>1, <3>3 DEF Of
      <4>2. \A k \in Of(t) : k <= 1 \/ k >= j + 1
        BY <3>2
      <4>3. 1 < j + 1
        BY <3>1
      <4>4. Takes(W(j + 1), O!There(W(1).book))
        BY <1>4, <3>1, <4>1, <4>2, <4>3 DEF ChainOK
      <4>. QED  BY <2>1, <3>1, <3>3, <4>4
    <3>4. CASE t # s
      <4>1. 1 \notin Of(t)
        BY <3>4 DEF Of
      <4>2. Takes(W(j + 1), odepth[t])
        BY <1>4, <2>1, <3>1, <3>2, <3>4, <4>1 DEF HeadOK
      <4>. QED  BY <3>1, <3>4, <4>2
    <3>. QED  BY <3>3, <3>4
  <2>. QED  BY <2>1 DEF HeadOK, Takes
<1>10. ASSUME NEW t \in OSymbols PROVE EndOK(t)'
  <2>1. ASSUME osends[t], NEW i \in Of(t)', \A k \in Of(t)' : k <= i PROVE W(i)'.book = obook[t]
    <3>1. i + 1 \in Of(t) /\ W(i)' = W(i + 1) /\ i \in Nat
      BY <1>2
    <3>2. ASSUME NEW k \in Of(t) PROVE k <= i + 1
      <4>1. k \in Nat /\ (k = 1 \/ k - 1 <= i)
        BY <1>3, <2>1
      <4>. QED  BY <3>1, <4>1
    <3>. QED  BY <1>4, <2>1, <3>1, <3>2 DEF EndOK
  <2>2. ASSUME osends[t], t \in owhole', Of(t)' = {} PROVE odepth'[t] = O!There(obook[t])
    <3>1. \A k \in Of(t) : k = 1
      BY <1>3, <2>2
    <3>2. CASE t = s
      <4>1. 1 \in Of(t)
        BY <1>1, <3>2 DEF Of
      <4>2. W(1).book = obook[t]
        <5>1. \A k \in Of(t) : k <= 1
          BY <3>1
        <5>. QED  BY <1>4, <2>2, <4>1, <5>1 DEF EndOK
      <4>. QED  BY <2>2, <3>2, <4>2
    <3>3. CASE t # s
      <4>1. Of(t) = {}
        BY <3>1, <3>3 DEF Of
      <4>. QED  BY <1>4, <2>2, <3>3, <4>1 DEF EndOK
    <3>. QED  BY <3>2, <3>3
  <2>. QED  BY <2>1, <2>2 DEF EndOK
<1>. QED  BY <1>5, <1>6, <1>7, <1>8, <1>9, <1>10 DEF OInv

LEMMA OkexReadStep ==
  ASSUME O!OkexBookAssumption, OInv, O!Pass \/ O!OnRtnDepth
  PROVE  OInv'
<1>1. /\ owire # <<>> /\ owire' = Tail(owire) /\ UNCHANGED <<obook, otime, osends>>
      /\ UNCHANGED opublished \/ O!OnRtnDepth
  BY DEF O!Pass, O!OnRtnDepth, O!exchange
<1>2. 1 \in DOMAIN owire /\ O!Batch = <<W(1)>> /\ W(1) \in Msg
  BY <1>1, Taken DEF OInv
<1>3. PICK s \in OSymbols : s = W(1).symbol
  BY <1>2 DEF Msg
<1>4. O!Batch[1] = W(1) /\ 1 .. Len(O!Batch) = {1}
  <2>1. <<W(1)>>[1] = W(1) /\ Len(<<W(1)>>) = 1
    OBVIOUS
  <2>2. 1 .. 1 = {1}
    OBVIOUS
  <2>. QED  BY <1>2, <2>1, <2>2
<1>5. /\ olast \in Int /\ olast < HalfInt /\ owhole \subseteq OSymbols
      /\ odepth = [t \in OSymbols |-> odepth[t]] /\
           opublished = [t \in OSymbols |-> opublished[t]]
  BY DEF OInv, OkexTyped
<1>6. CASE O!Pass
  <2>1. owhole' = owhole \ {s} /\ UNCHANGED <<olast, odepth, opublished>>
    BY <1>3, <1>4, <1>6 DEF O!Pass
  <2>. QED  BY <1>1, <1>3, <1>5, <2>1, TakenStep
<1>7. CASE O!OnRtnDepth
  <2>1. O!Known = {1}
    BY <1>4, <1>7 DEF O!OnRtnDepth, O!Known
  <2>2. O!m = W(1)
    <3>1. (CHOOSE i \in O!Known : \A j \in O!Known : i <= j) = 1
      BY <2>1
    <3>. QED  BY <1>4, <3>1 DEF O!m
  <2>3. ~O!NotNew /\ W(1).time \in Int
    <3>1. W(1).time \in Int /\ W(1).time >= Epoch
      BY <1>2 DEF Msg, OInv, OkexTyped
    <3>2. HalfInt \in Nat /\ Epoch \in Nat /\ Epoch >= HalfInt
      BY DEF O!OkexBookAssumption
    <3>. QED  BY <1>5, <2>2, <3>1, <3>2 DEF O!NotNew
  <2>4. olast' \in Int /\ olast' < HalfInt
    BY <1>7, <2>2, <2>3, Ints DEF O!OnRtnDepth
  <2>5. /\ odepth' = [odepth EXCEPT ![s] = AppliedTo(W(1).levels, odepth[s])]
        /\ opublished' = [opublished EXCEPT ![s] =
             [told |-> O!Best(odepth'[s]), true |-> O!Best(O!There(W(1).book))]]
        /\ owhole' = IF ~W(1).first THEN owhole
                     ELSE IF odepth[s] = O!NoBook THEN owhole \cup {s} ELSE owhole \ {s}
    BY <1>3, <1>7, <2>2, <2>3, BySides DEF O!OnRtnDepth
  <2>6. /\ odepth'[s] = AppliedTo(W(1).levels, odepth[s])
        /\ opublished'[s] = [told |-> O!Best(odepth'[s]), true |-> O!Best(O!There(W(1).book))]
        /\ \A t \in OSymbols : t # s => odepth'[t] = odepth[t] /\ opublished'[t] = opublished[t]
        /\ odepth' = [t \in OSymbols |-> odepth'[t]]
        /\ opublished' = [t \in OSymbols |-> opublished'[t]]
        /\ owhole' \subseteq OSymbols /\ \A t \in OSymbols : t # s =>
             (t \in owhole' => t \in owhole)
    BY <1>5, <2>5
  <2>7. ASSUME s \in owhole' PROVE odepth'[s] = O!There(W(1).book)
    <3>1. CASE W(1).first
      <4>1. odepth[s] = O!NoBook
        BY <2>5, <2>7, <3>1
      <4>2. Takes(W(1), O!NoBook)
        BY <1>2, <3>1 DEF OInv, FirstOK
      <4>. QED  BY <2>6, <4>1, <4>2 DEF Takes
    <3>2. CASE ~W(1).first
      <4>1. s \in owhole /\ 1 \in Of(s) /\ HeadOK(s)
        BY <1>2, <1>3, <2>5, <2>7, <3>2 DEF Of, OInv
      <4>2. \A k \in Of(s) : k >= 1
        BY WireFacts DEF OInv
      <4>3. Takes(W(1), odepth[s])
        BY <3>2, <4>1, <4>2 DEF HeadOK
      <4>. QED  BY <2>6, <4>3 DEF Takes
    <3>. QED  BY <3>1, <3>2
  <2>8. s \in owhole' => opublished'[s].told = opublished'[s].true
    BY <2>6, <2>7
  <2>. QED  BY <1>1, <1>3, <2>4, <2>6, <2>7, <2>8, TakenStep
<1>. QED  BY <1>6, <1>7

-----------------------------------------------------------------------------
(* The theorem.                                                            *)

LEMMA OInvInit == ASSUME O!OkexBookAssumption PROVE O!Init => OInv
<1>. SUFFICES ASSUME O!Init PROVE OInv
  OBVIOUS
<1>1. OkexTyped
  <2>1. obook \in [OSymbols -> OkexBooks]
    BY DEF O!Init, OkexBooks
  <2>2. owire \in Seq(Batches) /\ DOMAIN owire = {}
    BY DEF O!Init
  <2>3. otime \in Int /\ otime >= Epoch /\ olast \in Int /\ olast < HalfInt
    BY DEF O!Init, O!OkexBookAssumption
  <2>. QED  BY <2>1, <2>2, <2>3 DEF O!Init, OkexTyped
<1>2. \A s : Of(s) = {}
  BY DEF O!Init, Of
<1>3. DOMAIN owire = {}
  BY DEF O!Init
<1>4. FirstOK /\ O!PublishedIsTrue
  BY <1>3 DEF O!Init, FirstOK, O!PublishedIsTrue
<1>5. \A s \in OSymbols : ChainOK(s) /\ HeadOK(s) /\ EndOK(s)
  BY <1>2 DEF O!Init, ChainOK, HeadOK, EndOK
<1>. QED  BY <1>1, <1>4, <1>5 DEF OInv

LEMMA OInvNext ==
  ASSUME O!OkexBookAssumption, MaxBatch = 1
  PROVE  OInv /\ [O!Next]_O!vars => OInv'
<1>. SUFFICES ASSUME OInv, [O!Next]_O!vars PROVE OInv'
  OBVIOUS
<1>1. /\ obook \in [OSymbols -> OkexBooks] /\ osends \in [OSymbols -> BOOLEAN]
      /\ otime \in Int /\ otime >= Epoch
  BY DEF OInv, OkexTyped
<1>2. ASSUME NEW s \in OSymbols, O!RemoveChannel(s) PROVE OInv'
  <2>1. osends' = [osends EXCEPT ![s] = FALSE] /\
          UNCHANGED <<obook, otime, owire, olast, odepth, opublished, owhole>>
    BY <1>2 DEF O!RemoveChannel
  <2>2. osends' \in [OSymbols -> BOOLEAN] /\ \A t \in OSymbols : osends'[t] => osends[t]
    BY <1>1, <2>1
  <2>. QED  BY <1>1, <2>1, <2>2, QuietStep
<1>3. ASSUME NEW s \in OSymbols, O!ReqSubDepth(s) \/ O!Enter(s) \/
        O!ReqUnSubDepth(s) PROVE OInv'
  <2>1. UNCHANGED <<obook, otime, osends, owire, olast, odepth, opublished, owhole>>
    BY <1>3 DEF O!ReqSubDepth, O!Enter, O!ReqUnSubDepth, O!exchange
  <2>. QED  BY <1>1, <2>1, QuietStep
<1>4. CASE UNCHANGED O!vars
  <2>1. UNCHANGED <<obook, otime, osends, owire, olast, odepth, opublished, owhole>>
    BY <1>4 DEF O!vars, O!exchange, O!gateway
  <2>. QED  BY <1>1, <2>1, QuietStep
<1>. QED  BY <1>2, <1>3, <1>4, OkexChangeStep, AddChannelStep, OkexReadStep DEF O!Next

(* The levels handed on are the exchange's, if the symbol's book began     *)
(* empty with the whole book, for any symbols, prices and volumes, any     *)
(* width of an int the time does not fit into, and any number of changes   *)
(* and subscriptions, of an exchange that puts one change in a message     *)
(* (OnRtnDepth).                                                           *)
THEOREM OkexBooksAreTrue ==
  ASSUME MaxBatch = 1
  PROVE  O!Spec => []OkexIsTrue
<1>1. OInv => OkexIsTrue
  BY DEF OInv, OkexIsTrue
<1>2. O!Init => OInv
  BY OInvInit, OkexHolds
<1>3. OInv /\ [O!Next]_(O!vars) => OInv'
  BY OInvNext, OkexHolds
<1>. QED  BY <1>1, <1>2, <1>3, PTL DEF O!Spec
=============================================================================
