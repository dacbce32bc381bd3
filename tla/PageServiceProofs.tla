------------------------- MODULE PageServiceProofs -------------------------
(***************************************************************************)
(* Proofs about PageService, for every set of clients, units and slots and *)
(* every number of pages: the type invariant for every MayDie; and, when   *)
(* no client is killed while it waits in GetPage, that a unit has at most  *)
(* one writer that can append to it, and that the tables of PageEngine are *)
(* right: no slot is lost, the writers of a page are those that are        *)
(* counted, and exactly the pages in use are mapped.  When rename does not *)
(* fail either, the same holds of readers, and none ever goes back.        *)
(***************************************************************************)
EXTENDS PageServiceInv, FiniteSetTheorems, TLAPS

-----------------------------------------------------------------------------
(* Operators of the engine. *)

LEMMA SlotsFinite ==
  ASSUME NEW S \in SUBSET Slots
  PROVE  IsFiniteSet(S) /\ Cardinality(S) \in Nat
<1>1. 0 \in Int /\ MaxUser - 1 \in Int
  BY BoundAssumption
<1>2. IsFiniteSet(Slots)
  BY <1>1, FS_Interval, Zenon DEF Slots
<1>3. IsFiniteSet(S)
  BY <1>2, FS_Subset
<1>. QED  BY <1>3, FS_CardinalityType

(* ReleasePage leaves a count a natural number. *)
LEMMA DropType ==
  ASSUME NEW count \in [Keys -> Nat], NEW k \in Keys
  PROVE  Drop(count, k) \in [Keys -> Nat]
BY DEF Drop

LEMMA DropAllType ==
  ASSUME NEW count \in [Keys -> Nat], NEW S \in SUBSET Slots
  PROVE  DropAll(count, S) \in [Keys -> Nat]
<1>. SUFFICES ASSUME NEW k \in Keys
              PROVE  LET n == Cardinality({i \in S : Key(i) = k})
                     IN (IF count[k] > n THEN count[k] - n ELSE 0) \in Nat
  BY Zenon DEF DropAll
<1>. DEFINE n == Cardinality({i \in S : Key(i) = k})
<1>1. n \in Nat
  BY SlotsFinite
<1>2. count[k] \in Nat
  OBVIOUS
<1>. HIDE DEF n
<1>3. (IF count[k] > n THEN count[k] - n ELSE 0) \in Nat
  BY <1>1, <1>2
<1>. QED  BY <1>3 DEF n

(* The communication thread stays among the slots that are in use. *)
LEMMA NextIdxType ==
  ASSUME commIdx \in Slots, maxIdx \in Slots
  PROVE  NextIdx \in 0 .. maxIdx /\ NextIdx \in Slots
BY BoundAssumption DEF NextIdx, Slots

(* Writing one slot, or one entry of a client's table. *)
LEMMA SlotUpdate ==
  ASSUME NEW m \in [Slots -> PageCommMsg], NEW i, NEW r,
         i \in Slots => r \in PageCommMsg
  PROVE  [m EXCEPT ![i] = r] \in [Slots -> PageCommMsg]
OBVIOUS

LEMMA EntryUpdate ==
  ASSUME NEW A, NEW B, NEW T, NEW f \in [A -> [B -> T]],
         NEW a \in A, NEW b, NEW v \in T
  PROVE  [f EXCEPT ![a][b] = v] \in [A -> [B -> T]]
OBVIOUS

LEMMA KeyType ==
  ASSUME TypeOK, NEW i \in Slots
  PROVE  Key(i) \in Keys /\ <<msg[i].unit, msg[i].last>> \in Keys
BY DEF TypeOK, PageCommMsg, Key, Keys

-----------------------------------------------------------------------------
(* Type correctness: one lemma for each action. *)

LEMMA InitType == Init => TypeOK
<1>. SUFFICES ASSUME Init PROVE TypeOK
  OBVIOUS
<1>1. 0 \in Slots /\ 0 \in 0 .. MaxPage /\ -1 \in -1 .. MaxPage
  BY BoundAssumption DEF Slots
<1>2. [status |-> "RAW", unit |-> NoUnit, writer |-> FALSE, page |-> 0, last |-> 0]
        \in PageCommMsg
  BY <1>1 DEF PageCommMsg, Statuses
<1>3. msg \in [Slots -> PageCommMsg]
  BY <1>2 DEF Init
<1>4. /\ svc \in [Clients -> [Units -> Slots \cup {NoSlot}]]
      /\ cur \in [Clients -> [Units -> -1 .. MaxPage]]
  BY <1>1 DEF Init
<1>. QED  BY <1>1, <1>3, <1>4 DEF Init, TypeOK, Locations

LEMMA ExitClientType ==
  ASSUME TypeOK, NEW c \in Clients, ExitClient(c)
  PROVE  /\ msg' \in [Slots -> PageCommMsg]
         /\ reg' \subseteq Clients
         /\ users' \in [Clients -> SUBSET Slots]
         /\ writerCount' \in [Keys -> Nat] /\ readerCount' \in [Keys -> Nat]
         /\ addrs' \subseteq Keys
         /\ UNCHANGED <<maxIdx, temp>>
<1>. DEFINE granted == {i \in users[c] : msg[i].status = "ALLOCATED"}
<1>1. {i \in granted : msg[i].writer} \in SUBSET Slots /\
        {i \in granted : ~msg[i].writer} \in SUBSET Slots
  BY DEF TypeOK
<1>2. writerCount' \in [Keys -> Nat] /\ readerCount' \in [Keys -> Nat]
  BY <1>1, DropAllType DEF ExitClient, TypeOK
<1>3. msg' \in [Slots -> PageCommMsg]
  <2>1. ASSUME NEW i \in Slots PROVE [msg[i] EXCEPT !.status = "RAW"] \in PageCommMsg
    <3>1. msg[i] \in PageCommMsg
      BY DEF TypeOK
    <3>. QED  BY <3>1 DEF PageCommMsg, Statuses
  <2>2. \A i \in Slots : msg[i] \in PageCommMsg
    BY DEF TypeOK
  <2>3. msg' = [i \in Slots |-> IF i \in users[c]
                                THEN [msg[i] EXCEPT !.status = "RAW"] ELSE msg[i]]
    BY DEF ExitClient
  <2>. QED  BY <2>1, <2>2, <2>3, Zenon
<1>. QED  BY <1>2, <1>3 DEF ExitClient, TypeOK

LEMMA ForgetType ==
  ASSUME TypeOK, NEW c \in Clients, NEW l \in Locations, Forget(c, l)
  PROVE  /\ pc' \in [Clients -> Locations]
         /\ op' \in [Clients -> Units \cup {NoUnit}]
         /\ svc' \in [Clients -> [Units -> Slots \cup {NoSlot}]]
         /\ cur' \in [Clients -> [Units -> -1 .. MaxPage]]
         /\ expired' \in [Clients -> SUBSET (Units \cup {NoUnit})]
         /\ goal' \in [Clients -> 0 .. MaxPage]
<1>1. [u \in Units |-> NoSlot] \in [Units -> Slots \cup {NoSlot}]
  OBVIOUS
<1>2. [u \in Units |-> -1] \in [Units -> -1 .. MaxPage] /\ 0 \in 0 .. MaxPage
  BY BoundAssumption
<1>. QED  BY <1>1, <1>2 DEF Forget, TypeOK

LEMMA EngineType ==
  ASSUME TypeOK, EngineStep
  PROVE  TypeOK'
<1>1. CASE CommPoll
  BY <1>1, NextIdxType DEF CommPoll, TypeOK, server, disk, local
<1>2. CASE CommServe
  <2>. DEFINE i == commIdx
              old == <<msg[i].unit, msg[i].last>>
              wc == IF ReleasesLast(i) /\ msg[i].writer
                    THEN Drop(writerCount, old) ELSE writerCount
              rc == IF ReleasesLast(i) /\ ~msg[i].writer
                    THEN Drop(readerCount, old) ELSE readerCount
              ad == addrs \ Unmapped(writerCount, readerCount, wc, rc)
              k == Key(i)
  <2>1. i \in Slots /\ k \in Keys /\ old \in Keys
    BY KeyType DEF TypeOK
  <2>2. wc \in [Keys -> Nat] /\ rc \in [Keys -> Nat] /\ ad \subseteq Keys
    BY <2>1, DropType DEF TypeOK
  <2>3. InitiatePage(i, wc, rc, ad)
    BY <1>2, Zenon DEF CommServe
  <2>4. PICK s \in Statuses :
          msg' = [msg EXCEPT ![i] = [msg[i] EXCEPT !.status = s, !.last = msg[i].page]]
    BY <2>3 DEF InitiatePage, Statuses, Failures
  <2>5. msg' \in [Slots -> PageCommMsg]
    <3>1. msg[i] \in PageCommMsg
      BY <2>1 DEF TypeOK
    <3>2. [msg[i] EXCEPT !.status = s, !.last = msg[i].page] \in PageCommMsg
      BY <3>1 DEF PageCommMsg
    <3>. QED  BY <2>4, <3>2, SlotUpdate DEF TypeOK
  <2>. HIDE DEF wc, rc, ad, k
  <2>6. /\ writerCount' \in [Keys -> Nat] /\ readerCount' \in [Keys -> Nat]
        /\ addrs' \subseteq Keys /\ files' \subseteq Keys /\ temp' \in BOOLEAN
    <3>1. k \in Keys /\ files \subseteq Keys /\ temp \in BOOLEAN
      BY <2>1 DEF TypeOK
    <3>2. [rc EXCEPT ![k] = @ + 1] \in [Keys -> Nat] /\ [wc EXCEPT ![k] = 1] \in [Keys -> Nat]
      BY <2>2, <3>1
    <3>3. /\ writerCount' \in {wc, [wc EXCEPT ![k] = 1]}
          /\ readerCount' \in {rc, [rc EXCEPT ![k] = @ + 1]}
          /\ addrs' \in {ad, ad \cup {k}}
          /\ files' \in {files, files \cup {k}}
      BY <2>3, Zenon DEF InitiatePage, k
    <3>4. temp' \in BOOLEAN
      BY <2>3, <3>1 DEF InitiatePage
    <3>. QED  BY <2>2, <3>1, <3>2, <3>3, <3>4
  <2>. QED  BY <1>2, <2>5, <2>6, NextIdxType DEF CommServe, TypeOK, local
<1>3. CASE TempCheck
  BY <1>3 DEF TempCheck, TypeOK, comm, disk, local
<1>4. ASSUME NEW c \in Clients, PidCheck(c) PROVE TypeOK'
  BY <1>4, ExitClientType DEF PidCheck, TypeOK, comm, disk, Locations
<1>. QED  BY <1>1, <1>2, <1>3, <1>4 DEF EngineStep

(* A slot in which a page is asked for has its type (Request). *)
LEMMA RequestedType ==
  ASSUME NEW m \in PageCommMsg, NEW n \in 0 .. MaxPage
  PROVE  [m EXCEPT !.page = n, !.status = "REQUESTING"] \in PageCommMsg
BY DEF PageCommMsg, Statuses

LEMMA ClientType ==
  ASSUME TypeOK, NEW c \in Clients, ClientStep(c)
  PROVE  TypeOK'
<1>. USE DEF TypeOK, Locations
<1>1. CASE CheckSlot(c)
  BY <1>1 DEF CheckSlot, server, comm, disk
<1>2. CASE FillSlot(c)
  <2>. DEFINE i == svc[c][op[c]]
              r == [msg[i] EXCEPT !.status = "HOLDING", !.unit = op[c],
                                  !.writer = (c \in Writers)]
  <2>1. ASSUME i \in Slots PROVE r \in PageCommMsg
    <3>1. msg[i] \in PageCommMsg /\ op[c] \in Units \cup {NoUnit}
      BY <2>1
    <3>2. (c \in Writers) \in BOOLEAN
      <4>1. CASE c \in Writers
        <5>1. (c \in Writers) = TRUE
          BY <4>1, Zenon
        <5>. QED  BY <5>1, Zenon
      <4>2. CASE c \notin Writers
        <5>1. (c \in Writers) = FALSE
          BY <4>2, SMT
        <5>. QED  BY <5>1, Zenon
      <4>. QED  BY <4>1, <4>2, Zenon
    <3>3. ASSUME NEW b \in BOOLEAN
          PROVE  [msg[i] EXCEPT !.status = "HOLDING", !.unit = op[c], !.writer = b]
                   \in PageCommMsg
      BY <3>1 DEF PageCommMsg, Statuses
    <3>. QED  BY <3>2, <3>3, Zenon
  <2>2. msg' = [msg EXCEPT ![i] = r]
    BY <1>2 DEF FillSlot
  <2>3. msg' \in [Slots -> PageCommMsg]
    BY <2>1, <2>2, SlotUpdate
  <2>. QED  BY <1>2, <2>3 DEF FillSlot, server, comm, disk
<1>3. CASE Request(c)
  <2>. DEFINE i == svc[c][op[c]]
              r == [msg[i] EXCEPT !.page = goal[c], !.status = "REQUESTING"]
  <2>1. ASSUME i \in Slots PROVE r \in PageCommMsg
    <3>1. msg[i] \in PageCommMsg /\ goal[c] \in 0 .. MaxPage
      BY <2>1
    <3>. QED  BY <3>1, RequestedType, Zenon
  <2>2. msg' = [msg EXCEPT ![i] = r]
    BY <1>3 DEF Request
  <2>3. msg' \in [Slots -> PageCommMsg]
    BY <2>1, <2>2, SlotUpdate
  <2>. QED  BY <1>3, <2>3 DEF Request, server, comm, disk
<1>4. CASE ReaderLoad(c)
  <2>1. goal[c] \in -1 .. MaxPage /\ 0 \in -1 .. MaxPage /\ 0 \in 0 .. MaxPage
    BY BoundAssumption
  <2>2. PICK n \in -1 .. MaxPage :
          /\ cur' = [cur EXCEPT ![c][op[c]] = n]
          /\ expired' = [expired EXCEPT ![c] = IF cur[c][op[c]] = -1 /\ n = 0
                                               THEN @ \cup {op[c]} ELSE @]
    BY <1>4, <2>1 DEF ReaderLoad
  <2>3. cur' \in [Clients -> [Units -> -1 .. MaxPage]]
    BY <2>2, EntryUpdate
  <2>4. expired' \in [Clients -> SUBSET (Units \cup {NoUnit})]
    BY <1>4, <2>2 DEF ReaderLoad
  <2>5. inited' \subseteq Keys
    <3>1. GoalKey(c) \in Keys
      BY DEF GoalKey, Keys
    <3>. QED  BY <1>4, <3>1 DEF ReaderLoad
  <2>. QED  BY <1>4, <2>1, <2>3, <2>4, <2>5 DEF ReaderLoad, server, comm
<1>5. CASE WriterLoad(c)
  <2>1. goal[c] \in -1 .. MaxPage /\ 0 \in 0 .. MaxPage
    BY BoundAssumption
  <2>2. cur' \in [Clients -> [Units -> -1 .. MaxPage]]
    <3>1. cur' = [cur EXCEPT ![c][op[c]] = goal[c]] \/ cur' = cur
      BY <1>5 DEF WriterLoad
    <3>2. [cur EXCEPT ![c][op[c]] = goal[c]] \in [Clients -> [Units -> -1 .. MaxPage]]
      BY <2>1, EntryUpdate
    <3>3. cur \in [Clients -> [Units -> -1 .. MaxPage]]
      OBVIOUS
    <3>. QED  BY <3>1, <3>2, <3>3, Zenon
  <2>3. inited' \subseteq Keys
    BY <1>5 DEF WriterLoad, GoalKey, Keys
  <2>. QED  BY <1>5, <2>1, <2>2, <2>3 DEF WriterLoad, server, comm
<1>6. CASE FinishPage(c)
  <2>1. goal[c] \in -1 .. MaxPage /\ 0 \in 0 .. MaxPage
    BY BoundAssumption
  <2>2. cur' \in [Clients -> [Units -> -1 .. MaxPage]]
    BY <1>6, <2>1, EntryUpdate DEF FinishPage
  <2>. QED  BY <1>6, <2>1, <2>2 DEF FinishPage, server, comm
<1>7. CASE Refused(c)
  BY <1>7, BoundAssumption DEF Refused, server, comm, disk
<1>8. CASE WriterLosesPage(c)
  BY <1>8, ForgetType DEF WriterLosesPage, server, comm
<1>. QED  BY <1>1, <1>2, <1>3, <1>4, <1>5, <1>6, <1>7, <1>8 DEF ClientStep

LEMMA UserType ==
  ASSUME TypeOK, NEW c \in Clients, UserStep(c)
  PROVE  TypeOK'
<1>. USE DEF TypeOK, Locations
<1>1. CASE RegClient(c)
  BY <1>1 DEF RegClient, comm, disk
<1>2. ASSUME NEW u \in Units, RegUnit(c, u) PROVE TypeOK'
  <2>1. CASE UNCHANGED <<msg, users, maxIdx, svc>>
    BY <1>2, <2>1 DEF RegUnit, comm, disk
  <2>2. ASSUME NEW i \in Slots,
               /\ msg' = [msg EXCEPT ![i] = [@ EXCEPT !.status = "OCCUPIED", !.last = 0]]
               /\ maxIdx' = IF i > maxIdx THEN i ELSE maxIdx
               /\ users' = [users EXCEPT ![c] = @ \cup {i}]
               /\ svc' = [svc EXCEPT ![c][u] = i]
        PROVE  TypeOK'
    <3>1. msg' \in [Slots -> PageCommMsg]
      <4>. DEFINE r == [msg[i] EXCEPT !.status = "OCCUPIED", !.last = 0]
      <4>1. r \in PageCommMsg
        <5>1. msg[i] \in PageCommMsg /\ 0 \in 0 .. MaxPage
          BY BoundAssumption
        <5>. QED  BY <5>1 DEF PageCommMsg, Statuses
      <4>. QED  BY <2>2, <4>1, SlotUpdate
    <3>2. svc' \in [Clients -> [Units -> Slots \cup {NoSlot}]]
      BY <2>2, EntryUpdate
    <3>3. pc' \in [Clients -> Locations] /\ op' \in [Clients -> Units \cup {NoUnit}]
      BY <1>2 DEF RegUnit
    <3>4. maxIdx' \in Slots /\ users' \in [Clients -> SUBSET Slots]
      BY <2>2
    <3>5. UNCHANGED <<reg, writerCount, readerCount, addrs, temp, comm, disk, cur, expired,
            goal>>
      BY <1>2 DEF RegUnit
    <3>. QED  BY <3>1, <3>2, <3>3, <3>4, <3>5 DEF comm, disk
  <2>. QED  BY <1>2, <2>1, <2>2 DEF RegUnit
<1>3. ASSUME NEW u \in Units, SeekTime(c, u) PROVE TypeOK'
  BY <1>3, BoundAssumption DEF SeekTime, SeekPages, Existing, Pages, Choose, server, comm, disk
<1>4. ASSUME NEW u \in Units, LoadNextPage(c, u) PROVE TypeOK'
  BY <1>4, BoundAssumption DEF LoadNextPage, Choose, server, comm, disk
<1>5. ASSUME NEW u \in Units, FillPage(c, u) PROVE TypeOK'
  BY <1>5 DEF FillPage, server, comm, local
<1>6. CASE Retry(c)
  BY <1>6 DEF Retry, server, comm, disk
<1>7. CASE Exit(c)
  BY <1>7, ExitClientType, ForgetType DEF Exit, comm, disk
<1>8. CASE Die(c)
  BY <1>8, ForgetType DEF Die, server, comm, disk
<1>. QED  BY <1>1, <1>2, <1>3, <1>4, <1>5, <1>6, <1>7, <1>8 DEF UserStep

(* Every variable keeps its type, whatever clients and killed processes do. *)
THEOREM TypeCorrect == Spec => []TypeOK
<1>1. TypeOK /\ [Next]_vars => TypeOK'
  <2>1. ASSUME TypeOK, Next PROVE TypeOK'
    BY <2>1, EngineType, ClientType, UserType DEF Next
  <2>2. ASSUME TypeOK, UNCHANGED vars PROVE TypeOK'
    BY <2>2 DEF TypeOK, vars, server, comm, disk, local
  <2>. QED  BY <2>1, <2>2
<1>. QED  BY <1>1, InitType, PTL DEF Spec

-----------------------------------------------------------------------------
(* A unit has one writer: the inductive invariant.                         *)

IInv == TypeOK /\ Exclusion

(* What a step leaves alone. *)

SameClient(d) == /\ pc'[d] = pc[d] /\ op'[d] = op[d] /\ svc'[d] = svc[d]
                 /\ cur'[d] = cur[d] /\ goal'[d] = goal[d]
                 /\ users'[d] = users[d]

(* The step is c's alone: nothing changes for the other clients. *)
StepOf(c) ==
  /\ \A d \in Clients \ {c} : SameClient(d) /\ \A i \in users[d] : msg'[i] = msg[i]
  /\ files \subseteq files'
  /\ \A k \in Keys : tail[k] # "open" => tail'[k] # "open"

LEMMA OtherClient ==
  ASSUME IInv, NEW d \in Clients, SameClient(d),
         \A i \in users[d] : msg'[i] = msg[i]
  PROVE  ClientInOrder(d)'
<1>1. ASSUME NEW u \in Units, svc[d][u] # NoSlot
      PROVE  svc[d][u] \in Slots /\ msg'[svc[d][u]] = msg[svc[d][u]]
  BY <1>1 DEF IInv, TypeOK, Exclusion, SlotsSeparate
<1>2. ASSUME NEW u \in Units, Filled(d, u) PROVE Filled(d, u)'
  <2>1. svc[d][u] # NoSlot
    BY <1>2 DEF Filled, Slots, NoSlot
  <2>. QED  BY <1>1, <1>2, <2>1 DEF Filled, SameClient
<1>3. UnitsOf[d] \subseteq Units
  BY ClientAssumption
<1>. QED  BY <1>1, <1>2, <1>3 DEF IInv, Exclusion, ClientsInOrder, ClientInOrder, SameClient

LEMMA OtherWriter ==
  ASSUME IInv, NEW d \in Writers, SameClient(d), NEW u \in UnitsOf[d],
         \A i \in users[d] : msg'[i] = msg[i],
         files \subseteq files', \A k \in Keys : tail[k] # "open" => tail'[k] # "open"
  PROVE  WriterInOrder(d, u)'
<1>1. d \in Clients /\ u \in Units
  BY ClientAssumption DEF Clients
<1>2. WriterInOrder(d, u) /\ ClientInOrder(d)
  BY <1>1 DEF IInv, Exclusion, ClientsInOrder, WritersInOrder
<1>3. cur[d][u] \in -1 .. MaxPage
  BY <1>1 DEF IInv, TypeOK
<1>4. cur[d][u] > 0 => <<u, cur[d][u]>> \in Keys
  BY <1>1, <1>3 DEF Keys
<1>5. ASSUME pc[d] \in Opened \cup {"occupied", "filling"} \/
        (pc[d] = "thrown" /\ cur[d][u] > 0)
      PROVE  msg'[svc[d][u]] = msg[svc[d][u]]
  <2>1. Filled(d, u) \/ (op[d] = u /\ svc[d][op[d]] # NoSlot)
    BY <1>2, <1>5, ClientAssumption DEF ClientInOrder, InOperation
  <2>2. svc[d][u] # NoSlot
    BY <2>1 DEF Filled, Slots, NoSlot
  <2>. QED  BY <1>1, <2>2 DEF IInv, Exclusion, SlotsSeparate
<1>. QED  BY <1>2, <1>3, <1>4, <1>5 DEF WriterInOrder, GoesOn, SameClient, Opened

LEMMA Others ==
  ASSUME IInv, NEW c \in Clients, StepOf(c)
  PROVE  /\ ClientInOrder(c)' => ClientsInOrder'
         /\ (c \in Writers => \A u \in UnitsOf[c] : WriterInOrder(c, u)')
              => WritersInOrder'
<1>1. \A d \in Clients \ {c} : ClientInOrder(d)'
  BY OtherClient DEF StepOf
<1>2. \A d \in Writers \ {c} : \A u \in UnitsOf[d] : WriterInOrder(d, u)'
  BY OtherWriter DEF StepOf, Clients
<1>. QED  BY <1>1, <1>2 DEF ClientsInOrder, WritersInOrder

-----------------------------------------------------------------------------
(* Requests and held pages. *)

LEMMA NotRequesting ==
  ASSUME IInv, NEW c \in Clients, pc[c] # "spin", NEW i \in users[c]
  PROVE  i \in Slots /\ msg[i].status # "REQUESTING"
<1>1. i \in Slots
  BY DEF IInv, TypeOK
<1>2. ASSUME msg[i].status = "REQUESTING" PROVE FALSE
  <2>1. PICK e \in Clients : pc[e] = "spin" /\ svc[e][op[e]] = i
    BY <1>1, <1>2 DEF IInv, Exclusion, RequestsWaited
  <2>2. op[e] \in Units
    BY <2>1, ClientAssumption DEF IInv, Exclusion, ClientsInOrder, ClientInOrder, InOperation
  <2>3. i # NoSlot
    BY <1>1 DEF Slots, NoSlot
  <2>4. i \in users[e] /\ e # c
    BY <2>1, <2>2, <2>3 DEF IInv, Exclusion, SlotsSeparate
  <2>. QED  BY <2>4 DEF IInv, Exclusion, SlotsSeparate
<1>. QED  BY <1>1, <1>2

(* A step of c that neither ends a request nor leaves one. *)
LEMMA Requests ==
  ASSUME IInv, NEW c \in Clients, StepOf(c), UNCHANGED comm,
         ~ (pc[c] = "spin" /\ msg[svc[c][op[c]]].status = "REQUESTING"),
         \A i \in Slots : msg[i].status = "REQUESTING" => msg'[i].status = "REQUESTING",
         \A i \in Slots : msg'[i].status = "REQUESTING" =>
           msg[i].status = "REQUESTING" \/ (pc'[c] = "spin" /\ svc'[c][op'[c]] = i)
  PROVE  RequestsWaited'
<1>1. ASSUME NEW i \in Slots, msg'[i].status = "REQUESTING"
      PROVE  \E e \in Clients : pc'[e] = "spin" /\ svc'[e][op'[e]] = i
  <2>1. CASE pc'[c] = "spin" /\ svc'[c][op'[c]] = i
    BY <2>1
  <2>2. CASE msg[i].status = "REQUESTING"
    <3>1. PICK e \in Clients : pc[e] = "spin" /\ svc[e][op[e]] = i
      BY <2>2 DEF IInv, Exclusion, RequestsWaited
    <3>2. e # c
      BY <2>2, <3>1
    <3>. QED  BY <3>1, <3>2 DEF StepOf, SameClient
  <2>. QED  BY <1>1, <2>1, <2>2
<1>2. commPc' = "serve" => msg'[commIdx'].status = "REQUESTING"
  BY DEF comm, IInv, TypeOK, Exclusion, RequestsWaited
<1>. QED  BY <1>1, <1>2 DEF RequestsWaited

(* A step after which no slot stands for more than before. *)
LEMMA HeldLess ==
  ASSUME IInv, files \subseteq files', writerCount' = writerCount,
         \A i \in Slots : msg'[i].status = "ALLOCATED" => msg'[i] = msg[i],
         \A i \in Slots : \A k \in Keys :
           msg'[i].writer /\ Holds(i, k)' => msg[i].writer /\ Holds(i, k)
  PROVE  HeldOnce'
<1>1. \A i \in Slots : msg'[i].status = "ALLOCATED" =>
        msg'[i].last = msg'[i].page /\ Key(i)' \in files'
  BY DEF IInv, Exclusion, HeldOnce, Key
<1>2. \A i \in Slots : \A k \in Keys :
        msg'[i].writer /\ Holds(i, k)' => writerCount'[k] > 0
  BY DEF IInv, Exclusion, HeldOnce
<1>3. \A i, j \in Slots : \A k \in Keys :
        msg'[i].writer /\ Holds(i, k)' /\ msg'[j].writer /\ Holds(j, k)' => i = j
  BY DEF IInv, Exclusion, HeldOnce
<1>. QED  BY <1>1, <1>2, <1>3 DEF HeldOnce

(* A slot that is neither granted nor requested stands for nothing. *)
LEMMA HeldNot ==
  ASSUME NEW i, NEW k, Holds(i, k)
  PROVE  msg[i].status \in {"ALLOCATED", "REQUESTING"}
BY DEF Holds

LEMMA FilledStays ==
  ASSUME IInv, files' = files, \A k \in Keys : tail[k] # "open" => tail'[k] # "open"
  PROVE  FilledInOrder'
<1>1. \A u \in Units : \A m \in Pages : <<u, m>> \in Keys
  BY BoundAssumption DEF Keys, Pages
<1>2. \A n \in Pages : 1 .. n - 1 \subseteq Pages
  BY BoundAssumption DEF Pages
<1>. QED  BY <1>1, <1>2 DEF IInv, Exclusion, FilledInOrder

(* ExitClient by a client that is not in GetPage. *)
LEMMA Exits ==
  ASSUME IInv, NEW c \in Clients, pc[c] # "spin", ExitClient(c), UNCHANGED <<comm, disk>>,
         svc' = [svc EXCEPT ![c] = [u \in Units |-> NoSlot]] \/
         (svc' = svc /\ \A u \in Units : svc[c][u] = NoSlot),
         \A d \in Clients \ {c} : pc'[d] = pc[d] /\ op'[d] = op[d] /\ cur'[d] = cur[d]
                                  /\ goal'[d] = goal[d]
  PROVE  SlotsSeparate' /\ HeldOnce' /\ FilledInOrder' /\ addrs' \subseteq files'
         /\ StepOf(c) /\ RequestsWaited'
<1>1. \A i \in Slots : msg'[i] = IF i \in users[c] THEN [msg[i] EXCEPT !.status = "RAW"]
                                 ELSE msg[i]
  BY DEF ExitClient
<1>2. users' = [users EXCEPT ![c] = {}] /\ users \in [Clients -> SUBSET Slots]
  BY DEF ExitClient, IInv, TypeOK
<1>3. \A d \in Clients \ {c} : \A i \in users[d] : i \in Slots /\ msg'[i] = msg[i]
  BY <1>1, <1>2 DEF IInv, Exclusion, SlotsSeparate
<1>4. \A u \in Units : svc'[c][u] = NoSlot
  BY DEF IInv, TypeOK
<1>5. \A d \in Clients \ {c} : svc'[d] = svc[d]
  BY DEF IInv, TypeOK
<1>6. StepOf(c)
  BY <1>2, <1>3, <1>5 DEF StepOf, SameClient, disk
<1>7. SlotsSeparate'
  <2>1. \A d, e \in Clients : d # e => users'[d] \cap users'[e] = {}
    BY <1>2 DEF IInv, Exclusion, SlotsSeparate
  <2>2. \A d \in Clients : \A i \in users'[d] : msg'[i].status # "RAW"
    BY <1>2, <1>3 DEF IInv, Exclusion, SlotsSeparate
  <2>3. \A d \in Clients : \A u \in Units : svc'[d][u] # NoSlot => svc'[d][u] \in users'[d]
    BY <1>2, <1>4, <1>5 DEF IInv, Exclusion, SlotsSeparate
  <2>4. \A d \in Clients : \A u, v \in Units :
          svc'[d][u] # NoSlot /\ svc'[d][u] = svc'[d][v] => u = v
    BY <1>4, <1>5 DEF IInv, Exclusion, SlotsSeparate
  <2>. QED  BY <2>1, <2>2, <2>3, <2>4 DEF SlotsSeparate
<1>8. RequestsWaited'
  <2>1. \A i \in Slots : msg[i].status = "REQUESTING" => msg'[i].status = "REQUESTING"
    BY <1>1, NotRequesting
  <2>2. \A i \in Slots : msg'[i].status = "REQUESTING" => msg[i].status = "REQUESTING"
    <3>1. ASSUME NEW i \in Slots, i \in users[c] PROVE msg'[i].status = "RAW"
      <4>1. msg[i] \in PageCommMsg
        BY DEF IInv, TypeOK
      <4>. QED  BY <1>1, <3>1, <4>1 DEF PageCommMsg
    <3>. QED  BY <1>1, <3>1
  <2>. QED  BY <1>6, <2>1, <2>2, Requests
<1>9. HeldOnce'
  <2>. DEFINE S == {i \in {i \in users[c] : msg[i].status = "ALLOCATED"} : msg[i].writer}
  <2>1. S \in SUBSET Slots /\ writerCount' = DropAll(writerCount, S)
    BY <1>2 DEF ExitClient
  <2>2. ASSUME NEW i \in Slots, NEW k \in Keys, Holds(i, k)'
        PROVE  i \notin users[c] /\ msg'[i] = msg[i] /\ Holds(i, k)
    <3>1. ASSUME i \in users[c] PROVE msg'[i].status = "RAW"
      <4>1. msg[i] \in PageCommMsg
        BY DEF IInv, TypeOK
      <4>. QED  BY <1>1, <3>1, <4>1 DEF PageCommMsg
    <3>2. i \notin users[c] /\ msg'[i] = msg[i]
      BY <1>1, <2>2, <3>1 DEF Holds
    <3>. QED  BY <2>2, <3>2 DEF Holds, Key, ReleasesLast
  <2>3. ASSUME NEW i \in Slots, NEW k \in Keys, msg'[i].writer, Holds(i, k)'
        PROVE  writerCount'[k] > 0
    <3>1. i \notin users[c] /\ msg[i].writer /\ Holds(i, k)
      BY <2>2, <2>3
    <3>2. \A j \in S : Key(j) # k
      <4>1. ASSUME NEW j \in S, Key(j) = k PROVE FALSE
        <5>1. j \in Slots /\ msg[j].writer /\ Holds(j, k) /\ j \in users[c]
          BY <2>1, <4>1 DEF Holds
        <5>. QED  BY <3>1, <5>1 DEF IInv, Exclusion, HeldOnce
      <4>. QED  BY <4>1
    <3>3. Cardinality({j \in S : Key(j) = k}) = 0
      <4>1. {j \in S : Key(j) = k} = {}
        BY <3>2, Zenon
      <4>. QED  BY <4>1, FS_EmptySet, Zenon
    <3>4. writerCount[k] > 0 /\ writerCount[k] \in Nat
      BY <3>1 DEF IInv, TypeOK, Exclusion, HeldOnce
    <3>5. DropAll(writerCount, S)[k] =
            IF writerCount[k] > 0 THEN writerCount[k] - 0 ELSE 0
      BY <3>3, Zenon DEF DropAll
    <3>. QED  BY <2>1, <3>4, <3>5
  <2>4. \A i \in Slots : msg'[i].status = "ALLOCATED" =>
          msg'[i].last = msg'[i].page /\ Key(i)' \in files'
    <3>1. ASSUME NEW i \in Slots, msg'[i].status = "ALLOCATED" PROVE msg'[i] = msg[i]
      <4>1. msg[i] \in PageCommMsg
        BY DEF IInv, TypeOK
      <4>. QED  BY <1>1, <3>1, <4>1 DEF PageCommMsg
    <3>. QED  BY <3>1 DEF IInv, Exclusion, HeldOnce, Key, disk
  <2>5. \A i, j \in Slots : \A k \in Keys :
          msg'[i].writer /\ Holds(i, k)' /\ msg'[j].writer /\ Holds(j, k)' => i = j
    BY <2>2 DEF IInv, Exclusion, HeldOnce
  <2>. QED  BY <2>3, <2>4, <2>5 DEF HeldOnce
<1>10. FilledInOrder'
  BY FilledStays DEF disk
<1>11. addrs' \subseteq files'
  BY DEF ExitClient, disk, IInv, Exclusion
<1>. QED  BY <1>6, <1>7, <1>8, <1>9, <1>10, <1>11

-----------------------------------------------------------------------------
(* The engine's steps. *)

LEMMA PollKeeps == IInv /\ CommPoll => Exclusion'
<1>. SUFFICES ASSUME IInv, CommPoll PROVE Exclusion'
  OBVIOUS
<1>1. UNCHANGED <<msg, server, disk, local>>
  BY DEF CommPoll
<1>2. \A c \in Clients : SameClient(c) /\ StepOf(c)
  BY <1>1 DEF SameClient, StepOf, server, disk, local
<1>3. ClientsInOrder'
  BY <1>1, <1>2, OtherClient DEF ClientsInOrder
<1>4. WritersInOrder'
  BY <1>1, <1>2, OtherWriter DEF WritersInOrder, disk, Clients
<1>5. SlotsSeparate' /\ HeldOnce' /\ FilledInOrder' /\ addrs' \subseteq files'
  BY <1>1 DEF server, disk, local, IInv, Exclusion, SlotsSeparate, HeldOnce, Holds, Key,
              ReleasesLast, FilledInOrder
<1>6. RequestsWaited'
  BY <1>1 DEF CommPoll, server, disk, local, IInv, Exclusion, RequestsWaited
<1>. QED  BY <1>3, <1>4, <1>5, <1>6 DEF Exclusion

LEMMA TempKeeps == IInv /\ TempCheck => Exclusion'
BY DEF TempCheck, comm, disk, local, IInv, Exclusion, SlotsSeparate, HeldOnce, Holds, Key,
       ReleasesLast, FilledInOrder, RequestsWaited, ClientsInOrder, ClientInOrder, Filled,
       WritersInOrder, WriterInOrder, GoesOn

LEMMA PidKeeps ==
  ASSUME IInv, NEW c \in Clients, PidCheck(c)
  PROVE  Exclusion'
<1>1. /\ pc[c] = "dead" /\ ExitClient(c) /\ pc' = [pc EXCEPT ![c] = "off"]
      /\ UNCHANGED <<comm, disk, op, svc, cur, expired, goal>>
  BY DEF PidCheck
<1>2. \A u \in Units : svc[c][u] = NoSlot /\ cur[c][u] = -1
  BY <1>1 DEF IInv, Exclusion, ClientsInOrder, ClientInOrder, Before
<1>3. pc'[c] = "off" /\ \A d \in Clients \ {c} : pc'[d] = pc[d]
  BY <1>1 DEF IInv, TypeOK
<1>4. SlotsSeparate' /\ HeldOnce' /\ FilledInOrder' /\ addrs' \subseteq files'
      /\ StepOf(c) /\ RequestsWaited'
  BY <1>1, <1>2, <1>3, Exits
<1>5. ClientInOrder(c)'
  BY <1>1, <1>2, <1>3 DEF ClientInOrder, InOperation, Before, Opened
<1>6. c \in Writers => \A u \in UnitsOf[c] : WriterInOrder(c, u)'
  BY <1>1, <1>2, <1>3, ClientAssumption DEF WriterInOrder
<1>. QED  BY <1>4, <1>5, <1>6, Others DEF Exclusion

LEMMA ServeKeeps == IInv /\ CommServe => Exclusion'
<1>. SUFFICES ASSUME IInv, CommServe PROVE Exclusion'
  OBVIOUS
<1>0. PICK i \in Slots : i = commIdx
  BY DEF IInv, TypeOK
<1>. DEFINE old == <<msg[i].unit, msg[i].last>>
            wc == IF ReleasesLast(i) /\ msg[i].writer
                  THEN Drop(writerCount, old) ELSE writerCount
            rc == IF ReleasesLast(i) /\ ~msg[i].writer
                  THEN Drop(readerCount, old) ELSE readerCount
            ad == addrs \ Unmapped(writerCount, readerCount, wc, rc)
            k == Key(i)
<1>1. i \in Slots /\ msg[i].status = "REQUESTING" /\ msg[i] \in PageCommMsg
      /\ k \in Keys /\ old \in Keys
  BY <1>0, KeyType DEF IInv, TypeOK, Exclusion, RequestsWaited, CommServe
<1>2. InitiatePage(i, wc, rc, ad) /\ commPc' = "poll"
      /\ UNCHANGED <<reg, users, maxIdx, inited, tail, local>>
  BY <1>0, Zenon DEF CommServe
<1>3. wc \in [Keys -> Nat] /\ ad \subseteq files
  BY <1>1, DropType DEF IInv, TypeOK, Exclusion
<1>4. \A x \in Keys : wc[x] > 0 \/ wc[x] = writerCount[x] \/
        (x = old /\ ReleasesLast(i) /\ msg[i].writer)
  BY <1>1 DEF Drop, IInv, TypeOK
<1>. HIDE DEF wc, rc, ad
<1>5. PICK s \in Failures \cup {"ALLOCATED"} :
        /\ msg' = [msg EXCEPT ![i] = [msg[i] EXCEPT !.status = s, !.last = msg[i].page]]
        /\ files \subseteq files' /\ files' \subseteq files \cup {k} /\ addrs' \subseteq files'
        /\ s = "ALLOCATED" => k \in files'
        /\ ~msg[i].writer => writerCount' = wc /\ files' = files
        /\ msg[i].writer /\ s = "ALLOCATED" => wc[k] = 0 /\ writerCount' = [wc EXCEPT ![k] = 1]
        /\ s # "ALLOCATED" => writerCount' = wc
  <2>. DEFINE Answers(s) == msg' = [msg EXCEPT ![i] = [msg[i] EXCEPT !.status = s,
                                                                    !.last = msg[i].page]]
              Kept == files' = files /\ addrs' = ad
              Loaded == files' = files \cup {k} /\ addrs' = ad \cup {k}
  <2>1. \/ Answers("NON_EXIST") /\ Kept /\ writerCount' = wc
        \/ Answers("CANNOT_RENAME") /\ Kept /\ writerCount' = wc
        \/ /\ ~msg[i].writer /\ (k \in ad \/ k \in files)
           /\ Answers("ALLOCATED") /\ Loaded /\ writerCount' = wc
        \/ /\ msg[i].writer /\ wc[k] = 0
           /\ Answers("ALLOCATED") /\ Loaded /\ writerCount' = [wc EXCEPT ![k] = 1]
        \/ msg[i].writer /\ Answers("MORE_THAN_ONE_WRITER") /\ Loaded /\ writerCount' = wc
    BY <1>2 DEF InitiatePage
  <2>. HIDE DEF Answers, k
  <2>2. ~msg[i].writer /\ (k \in ad \/ k \in files) /\ Loaded => files' = files
    BY <1>3
  <2>3. Kept \/ Loaded =>
          files \subseteq files' /\ files' \subseteq files \cup {k} /\ addrs' \subseteq files'
    BY <1>3
  <2>4. Loaded => k \in files'
    OBVIOUS
  <2>. HIDE DEF Loaded
  <2>5. CASE \/ Answers("NON_EXIST") /\ Kept /\ writerCount' = wc
             \/ Answers("CANNOT_RENAME") /\ Kept /\ writerCount' = wc
    BY <2>3, <2>5 DEF Failures, Answers
  <2>6. CASE /\ ~msg[i].writer /\ (k \in ad \/ k \in files)
             /\ Answers("ALLOCATED") /\ Loaded /\ writerCount' = wc
    BY <2>2, <2>3, <2>4, <2>6 DEF Answers
  <2>7. CASE /\ msg[i].writer /\ wc[k] = 0
             /\ Answers("ALLOCATED") /\ Loaded /\ writerCount' = [wc EXCEPT ![k] = 1]
    BY <2>3, <2>4, <2>7 DEF Answers
  <2>8. CASE msg[i].writer /\ Answers("MORE_THAN_ONE_WRITER") /\ Loaded /\ writerCount' = wc
    BY <2>3, <2>8 DEF Failures, Answers
  <2>. QED  BY <2>1, <2>5, <2>6, <2>7, <2>8
<1>6. /\ msg'[i].status = s /\ msg'[i].last = msg[i].page /\ msg'[i].page = msg[i].page
      /\ msg'[i].unit = msg[i].unit /\ msg'[i].writer = msg[i].writer
      /\ \A j \in Slots \ {i} : msg'[j] = msg[j]
      /\ s \notin {"REQUESTING", "RAW"}
  BY <1>1, <1>5 DEF IInv, TypeOK, PageCommMsg, Failures
<1>7. PICK c \in Clients : pc[c] = "spin" /\ svc[c][op[c]] = i
  BY <1>1 DEF IInv, Exclusion, RequestsWaited
<1>8. op[c] \in UnitsOf[c] /\ op[c] \in Units
  BY <1>7, ClientAssumption DEF IInv, Exclusion, ClientsInOrder, ClientInOrder, InOperation
<1>9. i \in users[c] /\ \A d \in Clients \ {c} : i \notin users[d]
  BY <1>1, <1>7, <1>8 DEF IInv, Exclusion, SlotsSeparate, Slots, NoSlot
<1>10. StepOf(c) /\ SameClient(c)
  BY <1>2, <1>5, <1>6, <1>9 DEF StepOf, SameClient, local, IInv, TypeOK
<1>11. Filled(c, op[c]) /\ ClientInOrder(c)
  BY <1>7, <1>8 DEF IInv, Exclusion, ClientsInOrder, ClientInOrder, Opened
<1>12. ClientInOrder(c)'
  <2>1. \A u \in UnitsOf[c] : Filled(c, u)'
    <3>1. \A u \in UnitsOf[c] : Filled(c, u)
      BY <1>7, <1>11 DEF ClientInOrder, Opened
    <3>. QED  BY <3>1, <1>6, <1>10 DEF Filled, SameClient
  <2>. QED  BY <2>1, <1>7, <1>11, <1>10
               DEF ClientInOrder, InOperation, Opened, Before, SameClient
<1>13. SlotsSeparate'
  <2>1. \A j \in Slots : msg[j].status # "RAW" => msg'[j].status # "RAW"
    BY <1>6
  <2>2. users' = users /\ svc' = svc /\ users \in [Clients -> SUBSET Slots]
    BY <1>2 DEF local, IInv, TypeOK
  <2>. QED  BY <2>1, <2>2 DEF IInv, Exclusion, SlotsSeparate
<1>14. RequestsWaited'
  <2>1. \A j \in Slots : msg'[j].status = "REQUESTING" => msg[j].status = "REQUESTING"
    BY <1>6
  <2>2. pc' = pc /\ svc' = svc /\ op' = op
    BY <1>2 DEF local
  <2>. QED  BY <1>2, <2>1, <2>2 DEF IInv, Exclusion, RequestsWaited
<1>15. HeldOnce'
  <2>1. ASSUME NEW j \in Slots, j # i, NEW x \in Keys
        PROVE  Holds(j, x)' <=> Holds(j, x)
    BY <1>6, <2>1 DEF Holds, Key, ReleasesLast
  <2>2. ASSUME NEW x \in Keys, Holds(i, x)' PROVE x = k /\ s = "ALLOCATED"
    BY <1>6, <2>2 DEF Holds, Key
  <2>3. ReleasesLast(i) => Holds(i, old)
    BY <1>1 DEF Holds
  <2>4. ASSUME NEW j \in Slots, j # i, NEW x \in Keys, msg[j].writer, Holds(j, x)
        PROVE  wc[x] > 0
    <3>1. writerCount[x] > 0
      BY <2>4 DEF IInv, Exclusion, HeldOnce
    <3>2. ~ (x = old /\ ReleasesLast(i) /\ msg[i].writer)
      BY <1>1, <2>3, <2>4 DEF IInv, Exclusion, HeldOnce
    <3>. QED  BY <1>4, <3>1, <3>2
  <2>5. ASSUME NEW j \in Slots, j # i, NEW x \in Keys, msg[j].writer, Holds(j, x)
        PROVE  writerCount'[x] > 0 /\ ~ (msg'[i].writer /\ Holds(i, x)')
    BY <1>3, <1>5, <1>6, <2>2, <2>4, <2>5
  <2>6. ASSUME NEW x \in Keys, msg'[i].writer, Holds(i, x)' PROVE writerCount'[x] > 0
    BY <1>1, <1>3, <1>5, <1>6, <2>2, <2>6
  <2>7. \A j \in Slots : msg'[j].status = "ALLOCATED" =>
          msg'[j].last = msg'[j].page /\ Key(j)' \in files'
    BY <1>5, <1>6 DEF IInv, Exclusion, HeldOnce, Key, k
  <2>8. \A j \in Slots : \A x \in Keys :
          msg'[j].writer /\ Holds(j, x)' => writerCount'[x] > 0
    BY <1>6, <2>1, <2>5, <2>6
  <2>9. \A j, l \in Slots : \A x \in Keys :
          msg'[j].writer /\ Holds(j, x)' /\ msg'[l].writer /\ Holds(l, x)' => j = l
    BY <1>6, <2>1, <2>5 DEF IInv, Exclusion, HeldOnce
  <2>. QED  BY <2>7, <2>8, <2>9 DEF HeldOnce
<1>16. ASSUME c \in Writers
       PROVE  /\ UnitsOf[c] = {op[c]} /\ WriterInOrder(c, op[c])
              /\ msg[i].writer /\ msg[i].unit = op[c] /\ msg[i].page = goal[c]
  BY <1>7, <1>8, <1>11, <1>16, ClientAssumption
  DEF IInv, Exclusion, WritersInOrder, WriterInOrder, Filled
<1>17. c \in Writers => \A u \in UnitsOf[c] : WriterInOrder(c, u)'
  BY <1>1, <1>5, <1>6, <1>7, <1>10, <1>16, <1>2 DEF WriterInOrder, GoesOn, SameClient
<1>18. FilledInOrder'
  <2>1. CASE ~msg[i].writer
    BY <1>2, <1>5, <2>1, FilledStays
  <2>2. CASE msg[i].writer
    <3>1. c \in Writers
      BY <1>7, <1>11, <2>2 DEF Filled
    <3>2. /\ k = <<op[c], goal[c]>> /\ goal[c] \in 0 .. MaxPage /\ goal[c] > 0
          /\ \/ goal[c] = 1 \/ k \in files
             \/ /\ <<op[c], goal[c] - 1>> \in files /\ tail[<<op[c], goal[c] - 1>>] # "open"
                /\ goal[c] - 1 \in Pages
      <4>1. goal[c] \in 0 .. MaxPage /\ cur[c][op[c]] \in -1 .. MaxPage
        BY <1>8 DEF IInv, TypeOK
      <4>. QED  BY <1>7, <1>16, <3>1, <4>1, BoundAssumption
                   DEF WriterInOrder, GoesOn, Key, Pages
    <3>3. ASSUME NEW u \in Units, NEW n \in Pages, NEW m \in 1 .. n - 1, <<u, n>> \in files'
          PROVE  <<u, m>> \in files' /\ tail'[<<u, m>>] # "open"
      <4>1. tail' = tail /\ files \subseteq files'
        BY <1>2, <1>5
      <4>2. CASE <<u, n>> \in files
        BY <4>1, <4>2 DEF IInv, Exclusion, FilledInOrder
      <4>3. CASE <<u, n>> \notin files
        <5>1. <<u, n>> = k
          BY <1>5, <3>3, <4>3
        <5>2. u = op[c] /\ n = goal[c]
          BY <3>2, <5>1
        <5>3. n - 1 \in Pages /\ <<u, n - 1>> \in files /\ tail[<<u, n - 1>>] # "open"
          BY <3>2, <4>3, <5>1, <5>2, BoundAssumption DEF Pages
        <5>4. CASE m = n - 1
          BY <4>1, <5>3, <5>4
        <5>5. CASE m # n - 1
          <6>1. m \in 1 .. (n - 1) - 1
            BY <5>5, <5>3, BoundAssumption DEF Pages
          <6>. QED  BY <4>1, <5>3, <6>1 DEF IInv, Exclusion, FilledInOrder
        <5>. QED  BY <5>4, <5>5
      <4>. QED  BY <4>2, <4>3
    <3>. QED  BY <3>3 DEF FilledInOrder
  <2>. QED  BY <2>1, <2>2
<1>. QED  BY <1>5, <1>10, <1>12, <1>13, <1>14, <1>15, <1>17, <1>18, Others DEF Exclusion

-----------------------------------------------------------------------------
(* The clients' steps. *)

(* What is known of the slot of an operation in progress. *)
LEMMA SlotOfOperation ==
  ASSUME IInv, NEW c \in Clients, pc[c] \in InOperation, svc[c][op[c]] # NoSlot
  PROVE  /\ op[c] \in UnitsOf[c] /\ op[c] \in Units
         /\ svc[c][op[c]] \in users[c] /\ svc[c][op[c]] \in Slots
         /\ \A d \in Clients \ {c} : svc[c][op[c]] \notin users[d]
         /\ c \in Writers => UnitsOf[c] = {op[c]}
<1>1. op[c] \in UnitsOf[c] /\ op[c] \in Units
  BY ClientAssumption DEF IInv, Exclusion, ClientsInOrder, ClientInOrder
<1>2. svc[c][op[c]] \in users[c] /\ svc[c][op[c]] \in Slots
  BY <1>1 DEF IInv, TypeOK, Exclusion, SlotsSeparate
<1>3. c \in Writers => UnitsOf[c] = {op[c]}
  BY <1>1, ClientAssumption
<1>. QED  BY <1>1, <1>2, <1>3 DEF IInv, Exclusion, SlotsSeparate

(* A step of c that changes neither the slots nor the engine. *)
LEMMA QuietStep ==
  ASSUME IInv, NEW c \in Clients, UNCHANGED <<msg, server, comm, files>>,
         svc'[c] = svc[c] \/ \A u \in Units : svc'[c][u] = NoSlot,
         \A d \in Clients \ {c} : SameClient(d),
         \A k \in Keys : tail[k] # "open" => tail'[k] # "open",
         pc[c] = "spin" => msg[svc[c][op[c]]].status # "REQUESTING",
         ClientInOrder(c)',
         c \in Writers => \A u \in UnitsOf[c] : WriterInOrder(c, u)'
  PROVE  Exclusion'
<1>1. StepOf(c)
  BY DEF StepOf
<1>2. HeldOnce' /\ FilledInOrder' /\ addrs' \subseteq files'
  BY FilledStays DEF server, IInv, Exclusion, HeldOnce, Holds, Key, ReleasesLast
<1>3. SlotsSeparate'
  BY DEF server, IInv, Exclusion, SlotsSeparate, SameClient
<1>4. RequestsWaited'
  BY <1>1, Requests
<1>. QED  BY <1>1, <1>2, <1>3, <1>4, Others DEF Exclusion

LEMMA RefusedKeeps ==
  ASSUME IInv, NEW c \in Clients, Refused(c)
  PROVE  Exclusion'
<1>1. /\ pc[c] = "spin" /\ msg[svc[c][op[c]]].status = "MORE_THAN_ONE_WRITER"
      /\ pc'[c] = "thrown"
      /\ UNCHANGED <<msg, server, comm, files, tail, op, svc, cur, expired>>
      /\ \A d \in Clients \ {c} : SameClient(d)
  BY DEF Refused, Answered, SameClient, server, disk, IInv, TypeOK
<1>2. op[c] \in UnitsOf[c] /\ ClientInOrder(c)
  BY <1>1 DEF IInv, Exclusion, ClientsInOrder, ClientInOrder, InOperation
<1>3. ClientInOrder(c)'
  BY <1>1, <1>2 DEF ClientInOrder, InOperation, Before, Opened, Filled
<1>4. ASSUME c \in Writers, NEW u \in UnitsOf[c] PROVE WriterInOrder(c, u)'
  <2>1. u = op[c] /\ WriterInOrder(c, u)
    BY <1>2, <1>4, ClientAssumption DEF IInv, Exclusion, WritersInOrder
  <2>. QED  BY <1>1, <2>1 DEF WriterInOrder, GoesOn
<1>. QED  BY <1>1, <1>3, <1>4, QuietStep

LEMMA RetryKeeps ==
  ASSUME IInv, NEW c \in Clients, Retry(c)
  PROVE  Exclusion'
<1>1. /\ pc[c] = "thrown" /\ c \in Writers /\ cur[c][op[c]] > 0 /\ pc'[c] = "ready"
      /\ UNCHANGED <<msg, server, comm, files, tail, op, svc, cur, expired, goal>>
      /\ \A d \in Clients \ {c} : SameClient(d)
  BY DEF Retry, SameClient, server, disk, IInv, TypeOK
<1>2. UnitsOf[c] = {op[c]} /\ ClientInOrder(c)
  BY <1>1, ClientAssumption DEF IInv, Exclusion, ClientsInOrder, ClientInOrder, InOperation
<1>3. ClientInOrder(c)'
  BY <1>1, <1>2 DEF ClientInOrder, InOperation, Before, Opened, Filled
<1>4. ASSUME NEW u \in UnitsOf[c] PROVE WriterInOrder(c, u)'
  <2>1. u = op[c] /\ WriterInOrder(c, u)
    BY <1>1, <1>2 DEF IInv, Exclusion, WritersInOrder
  <2>. QED  BY <1>1, <2>1 DEF WriterInOrder
<1>. QED  BY <1>1, <1>3, <1>4, QuietStep

LEMMA CheckKeeps ==
  ASSUME IInv, NEW c \in Clients, CheckSlot(c)
  PROVE  Exclusion'
<1>1. /\ pc[c] = "occupied" /\ pc'[c] \in {"filling", "thrown"}
      /\ UNCHANGED <<msg, server, comm, files, tail, op, svc, cur, expired, goal>>
      /\ \A d \in Clients \ {c} : SameClient(d)
  BY DEF CheckSlot, SameClient, server, disk, IInv, TypeOK
<1>2. UnitsOf[c] \subseteq Units /\ ClientInOrder(c)
  BY ClientAssumption DEF IInv, Exclusion, ClientsInOrder
<1>3. ClientInOrder(c)'
  BY <1>1, <1>2 DEF ClientInOrder, InOperation, Before, Opened, Filled
<1>4. ASSUME c \in Writers, NEW u \in UnitsOf[c] PROVE WriterInOrder(c, u)'
  <2>1. WriterInOrder(c, u)
    BY <1>4 DEF IInv, Exclusion, WritersInOrder
  <2>. QED  BY <1>1, <2>1 DEF WriterInOrder
<1>. QED  BY <1>1, <1>3, <1>4, QuietStep

LEMMA ReaderLoadKeeps ==
  ASSUME IInv, NEW c \in Clients, ReaderLoad(c)
  PROVE  Exclusion'
<1>1. /\ c \in Readers /\ c \notin Writers /\ pc[c] = "spin" /\ pc'[c] = "ready"
      /\ msg[svc[c][op[c]]].status # "REQUESTING"
      /\ UNCHANGED <<msg, server, comm, files, tail, op, svc>>
      /\ \A d \in Clients \ {c} : SameClient(d)
  BY ClientAssumption DEF ReaderLoad, Answered, SameClient, server, disk, IInv, TypeOK
<1>2. ClientInOrder(c)
  BY DEF IInv, Exclusion, ClientsInOrder
<1>3. op[c] \in UnitsOf[c] /\ \A u \in Units \ {op[c]} : cur'[c][u] = cur[c][u]
  BY <1>1, <1>2 DEF ClientInOrder, InOperation, ReaderLoad, IInv, TypeOK
<1>4. ClientInOrder(c)'
  BY <1>1, <1>2, <1>3 DEF ClientInOrder, InOperation, Before, Opened, Filled
<1>. QED  BY <1>1, <1>4, QuietStep

LEMMA WriterLoadKeeps ==
  ASSUME IInv, NEW c \in Clients, WriterLoad(c)
  PROVE  Exclusion'
<1>. DEFINE i == svc[c][op[c]]
            n == cur[c][op[c]]
<1>1. /\ c \in Writers /\ pc[c] = "spin" /\ msg[i].status = "ALLOCATED"
      /\ UNCHANGED <<msg, server, comm, files, tail, op, svc>>
      /\ \A d \in Clients \ {c} : SameClient(d)
  BY DEF WriterLoad, Answered, SameClient, server, IInv, TypeOK
<1>2. UnitsOf[c] = {op[c]} /\ op[c] \in Units /\ ClientInOrder(c) /\ WriterInOrder(c, op[c])
  BY <1>1, ClientAssumption DEF IInv, Exclusion, ClientsInOrder, ClientInOrder, InOperation,
     WritersInOrder
<1>3. i \in Slots /\ msg[i].unit = op[c]
  BY <1>1, <1>2 DEF ClientInOrder, Opened, Filled
<1>4. msg[i].last = msg[i].page /\ msg[i].page = goal[c] /\ <<op[c], goal[c]>> \in files
      /\ goal[c] \in 0 .. MaxPage /\ goal[c] > 0
  BY <1>1, <1>2, <1>3 DEF IInv, TypeOK, Exclusion, HeldOnce, WriterInOrder, Key
<1>5. \A u \in Units \ {op[c]} : cur'[c][u] = cur[c][u]
  BY DEF WriterLoad, IInv, TypeOK
<1>6. CASE n = -1
  <2>1. pc'[c] = "ready" /\ cur'[c][op[c]] = goal[c]
    BY <1>2, <1>6 DEF WriterLoad, IInv, TypeOK
  <2>2. ClientInOrder(c)'
    BY <1>1, <1>2, <1>5, <2>1 DEF ClientInOrder, InOperation, Before, Opened, Filled
  <2>3. WriterInOrder(c, op[c])'
    BY <1>1, <1>4, <2>1 DEF WriterInOrder
  <2>. QED  BY <1>1, <1>2, <2>2, <2>3, QuietStep
<1>7. CASE n # -1
  <2>1. pc'[c] = "loaded" /\ cur' = cur /\ goal' = goal
    BY <1>2, <1>7 DEF WriterLoad, IInv, TypeOK
  <2>2. ClientInOrder(c)'
    BY <1>1, <1>2, <1>5, <2>1 DEF ClientInOrder, InOperation, Before, Opened, Filled
  <2>3. WriterInOrder(c, op[c])'
    BY <1>1, <1>2, <1>4, <1>7, <2>1 DEF WriterInOrder, GoesOn
  <2>. QED  BY <1>1, <1>2, <2>2, <2>3, QuietStep
<1>. QED  BY <1>6, <1>7

LEMMA FinishKeeps ==
  ASSUME IInv, NEW c \in Clients, FinishPage(c)
  PROVE  Exclusion'
<1>1. /\ pc[c] = "loaded" /\ pc'[c] = "ready"
      /\ tail' = [tail EXCEPT ![OldKey(c)] = "end"]
      /\ UNCHANGED <<msg, server, comm, files, op, svc>>
      /\ \A d \in Clients \ {c} : SameClient(d)
  BY DEF FinishPage, SameClient, server, IInv, TypeOK
<1>2. op[c] \in UnitsOf[c] /\ op[c] \in Units /\ ClientInOrder(c)
  BY <1>1, ClientAssumption DEF IInv, Exclusion, ClientsInOrder, ClientInOrder, InOperation
<1>3. cur'[c][op[c]] = goal[c] /\ \A u \in Units \ {op[c]} : cur'[c][u] = cur[c][u]
  BY <1>2 DEF FinishPage, IInv, TypeOK
<1>4. ClientInOrder(c)'
  BY <1>1, <1>2, <1>3 DEF ClientInOrder, InOperation, Before, Opened, Filled
<1>5. ASSUME c \in Writers, NEW u \in UnitsOf[c] PROVE WriterInOrder(c, u)'
  <2>1. u = op[c] /\ WriterInOrder(c, u) /\ svc[c][u] \in Slots /\ msg[svc[c][u]].unit = u
    BY <1>1, <1>2, <1>5, ClientAssumption
    DEF IInv, Exclusion, WritersInOrder, ClientInOrder, Opened, Filled
  <2>2. <<u, goal[c]>> \in files /\ goal[c] > 0
    BY <1>1, <2>1 DEF IInv, Exclusion, HeldOnce, WriterInOrder, Key
  <2>. QED  BY <1>1, <1>3, <2>1, <2>2 DEF WriterInOrder
<1>6. \A k \in Keys : tail[k] # "open" => tail'[k] # "open"
  BY <1>1 DEF IInv, TypeOK
<1>. QED  BY <1>1, <1>4, <1>5, <1>6, QuietStep

LEMMA FillKeeps ==
  ASSUME IInv, NEW c \in Clients, NEW v \in Units, FillPage(c, v)
  PROVE  Exclusion'
<1>1. /\ pc[c] = "ready" /\ \A k \in Keys : tail[k] # "open" => tail'[k] # "open"
      /\ UNCHANGED <<msg, server, comm, files, local>>
      /\ \A d \in Clients : SameClient(d)
  BY DEF FillPage, SameClient, server, local, IInv, TypeOK
<1>2. ClientInOrder(c)'
  BY <1>1 DEF local, IInv, Exclusion, ClientsInOrder, ClientInOrder, Filled
<1>3. ASSUME c \in Writers, NEW u \in UnitsOf[c] PROVE WriterInOrder(c, u)'
  BY <1>1, <1>3, OtherWriter DEF server, local
<1>. QED  BY <1>1, <1>2, <1>3, QuietStep DEF local

LEMMA SeekKeeps ==
  ASSUME IInv, NEW c \in Clients, NEW v \in Units, SeekTime(c, v)
  PROVE  Exclusion'
<1>1. PICK n \in SeekPages(c, v) : Choose(c, v, n)
  BY DEF SeekTime
<1>2. /\ pc[c] = "ready" /\ pc'[c] = "scanned" /\ op'[c] = v /\ goal'[c] = n
      /\ v \in UnitsOf[c] /\ cur[c][v] = -1
      /\ UNCHANGED <<msg, server, comm, files, tail, svc, cur>>
      /\ \A d \in Clients \ {c} : SameClient(d)
  BY <1>1 DEF SeekTime, Choose, SameClient, server, disk, IInv, TypeOK
<1>3. n > 0 /\ (c \in Writers => n = 1 \/ <<v, n>> \in files)
  BY BoundAssumption, ClientAssumption, <1>1 DEF SeekPages, Existing, Pages
<1>4. ClientInOrder(c)'
  BY <1>2
     DEF IInv, Exclusion, ClientsInOrder, ClientInOrder, InOperation, Before, Opened, Filled
<1>5. ASSUME c \in Writers, NEW u \in UnitsOf[c] PROVE WriterInOrder(c, u)'
  <2>1. u = v /\ WriterInOrder(c, u)
    BY <1>2, <1>5, ClientAssumption DEF IInv, Exclusion, WritersInOrder
  <2>. QED  BY <1>2, <1>3, <1>5, <2>1 DEF WriterInOrder
<1>. QED  BY <1>2, <1>4, <1>5, QuietStep

LEMMA NextPageKeeps ==
  ASSUME IInv, NEW c \in Clients, NEW v \in Units, LoadNextPage(c, v)
  PROVE  Exclusion'
<1>1. /\ pc[c] = "ready" /\ pc'[c] = "scanned" /\ op'[c] = v /\ goal'[c] = cur[c][v] + 1
      /\ v \in UnitsOf[c] /\ cur[c][v] >= 0
      /\ c \in Writers /\ cur[c][v] > 0 => tail[<<v, cur[c][v]>>] # "open"
      /\ UNCHANGED <<msg, server, comm, files, tail, svc, cur>>
      /\ \A d \in Clients \ {c} : SameClient(d)
  BY DEF LoadNextPage, Choose, SameClient, server, disk, IInv, TypeOK
<1>2. ClientInOrder(c)'
  BY <1>1
     DEF IInv, Exclusion, ClientsInOrder, ClientInOrder, InOperation, Before, Opened, Filled
<1>3. ASSUME c \in Writers, NEW u \in UnitsOf[c] PROVE WriterInOrder(c, u)'
  <2>1. u = v /\ WriterInOrder(c, u) /\ cur[c][u] \in -1 .. MaxPage
    BY <1>1, <1>3, ClientAssumption DEF IInv, TypeOK, Exclusion, WritersInOrder
  <2>. QED  BY <1>1, <1>3, <2>1 DEF WriterInOrder, GoesOn
<1>. QED  BY <1>1, <1>2, <1>3, QuietStep

(* A client that dies, or has died of a lost page, is not in GetPage. *)
LEMMA Dies ==
  ASSUME IInv, NEW c \in Clients, Forget(c, "dead"), UNCHANGED <<msg, server, comm, files>>,
         \A k \in Keys : tail[k] # "open" => tail'[k] # "open",
         pc[c] = "spin" => msg[svc[c][op[c]]].status # "REQUESTING"
  PROVE  Exclusion'
<1>1. /\ pc'[c] = "dead" /\ \A u \in Units : svc'[c][u] = NoSlot /\ cur'[c][u] = -1
      /\ \A d \in Clients \ {c} : SameClient(d)
  BY DEF Forget, SameClient, server, IInv, TypeOK
<1>2. ClientInOrder(c)'
  BY <1>1 DEF ClientInOrder, InOperation, Before, Opened
<1>3. c \in Writers => \A u \in UnitsOf[c] : WriterInOrder(c, u)'
  BY <1>1, ClientAssumption DEF WriterInOrder
<1>. QED  BY <1>1, <1>2, <1>3, QuietStep

LEMMA LosesKeeps ==
  ASSUME IInv, NEW c \in Clients, WriterLosesPage(c)
  PROVE  Exclusion'
<1>1. /\ Forget(c, "dead") /\ UNCHANGED <<msg, server, comm, files>>
      /\ pc[c] = "spin" => msg[svc[c][op[c]]].status # "REQUESTING"
      /\ tail' = [tail EXCEPT ![OldKey(c)] = "end"] \/ tail' = tail
  BY DEF WriterLosesPage, Answered
<1>2. \A k \in Keys : tail[k] # "open" => tail'[k] # "open"
  BY <1>1 DEF IInv, TypeOK
<1>. QED  BY <1>1, <1>2, Dies

LEMMA DieKeeps ==
  ASSUME IInv, "spin" \notin MayDie, NEW c \in Clients, Die(c)
  PROVE  Exclusion'
BY Dies DEF Die, disk

LEMMA ExitKeeps ==
  ASSUME IInv, NEW c \in Clients, Exit(c)
  PROVE  Exclusion'
<1>1. /\ pc[c] # "spin" /\ ExitClient(c) /\ UNCHANGED <<comm, disk>>
      /\ svc' = [svc EXCEPT ![c] = [u \in Units |-> NoSlot]]
  BY DEF Exit, Forget
<1>2. /\ pc'[c] = "off" /\ \A u \in Units : svc'[c][u] = NoSlot /\ cur'[c][u] = -1
      /\ \A d \in Clients \ {c} : pc'[d] = pc[d] /\ op'[d] = op[d] /\ cur'[d] = cur[d]
                                  /\ goal'[d] = goal[d]
  BY DEF Exit, Forget, IInv, TypeOK
<1>3. SlotsSeparate' /\ HeldOnce' /\ FilledInOrder' /\ addrs' \subseteq files'
      /\ StepOf(c) /\ RequestsWaited'
  BY <1>1, <1>2, Exits
<1>4. ClientInOrder(c)'
  BY <1>2 DEF ClientInOrder, InOperation, Before, Opened
<1>5. c \in Writers => \A u \in UnitsOf[c] : WriterInOrder(c, u)'
  BY <1>2, ClientAssumption DEF WriterInOrder
<1>. QED  BY <1>3, <1>4, <1>5, Others DEF Exclusion

LEMMA RegClientKeeps ==
  ASSUME IInv, NEW c \in Clients, RegClient(c)
  PROVE  Exclusion'
<1>1. /\ pc[c] = "off" /\ pc'[c] = "named" /\ users' = [users EXCEPT ![c] = {}]
      /\ UNCHANGED <<msg, writerCount, addrs, comm, disk, op, svc, cur, goal>>
      /\ \A d \in Clients \ {c} : SameClient(d)
  BY DEF RegClient, SameClient, IInv, TypeOK
<1>2. \A u \in Units : svc[c][u] = NoSlot /\ cur[c][u] = -1
  BY <1>1 DEF IInv, Exclusion, ClientsInOrder, ClientInOrder, Before
<1>3. StepOf(c)
  BY <1>1 DEF StepOf, disk
<1>4. HeldOnce' /\ FilledInOrder' /\ addrs' \subseteq files'
  BY <1>1, FilledStays DEF disk, IInv, Exclusion, HeldOnce, Holds, Key, ReleasesLast
<1>5. SlotsSeparate'
  BY <1>1, <1>2 DEF IInv, TypeOK, Exclusion, SlotsSeparate
<1>6. RequestsWaited'
  BY <1>1, <1>3, Requests
<1>7. ClientInOrder(c)'
  BY <1>1, <1>2, ClientAssumption DEF ClientInOrder, InOperation, Before, Opened
<1>8. c \in Writers => \A u \in UnitsOf[c] : WriterInOrder(c, u)'
  BY <1>1, <1>2, ClientAssumption DEF WriterInOrder
<1>. QED  BY <1>3, <1>4, <1>5, <1>6, <1>7, <1>8, Others DEF Exclusion

LEMMA RequestKeeps ==
  ASSUME IInv, NEW c \in Clients, Request(c)
  PROVE  Exclusion'
<1>1. PICK i : i = svc[c][op[c]]
  OBVIOUS
<1>2. /\ pc[c] = "scanned" /\ pc'[c] = "spin"
      /\ msg' = [msg EXCEPT ![i] = [@ EXCEPT !.page = goal[c], !.status = "REQUESTING"]]
      /\ UNCHANGED <<server, comm, disk, op, svc, cur, goal>>
      /\ \A d \in Clients \ {c} : SameClient(d)
  BY <1>1 DEF Request, SameClient, server, IInv, TypeOK
<1>3. ClientInOrder(c) /\ op[c] \in UnitsOf[c] /\ Filled(c, op[c])
  BY <1>2 DEF IInv, Exclusion, ClientsInOrder, ClientInOrder, InOperation, Opened
<1>4. /\ op[c] \in Units /\ i \in users[c] /\ i \in Slots
      /\ \A d \in Clients \ {c} : i \notin users[d]
      /\ c \in Writers => UnitsOf[c] = {op[c]}
  <2>1. svc[c][op[c]] # NoSlot
    BY <1>3 DEF Filled, Slots, NoSlot
  <2>. QED  BY <1>1, <1>2, <2>1, SlotOfOperation DEF InOperation
<1>5. /\ msg'[i].status = "REQUESTING" /\ msg'[i].page = goal[c] /\ msg'[i].last = msg[i].last
      /\ msg'[i].unit = msg[i].unit /\ msg'[i].writer = msg[i].writer
      /\ \A j \in Slots \ {i} : msg'[j] = msg[j]
      /\ msg[i].unit = op[c] /\ (msg[i].writer <=> c \in Writers)
  BY <1>1, <1>2, <1>3, <1>4 DEF IInv, TypeOK, PageCommMsg, Filled
<1>6. StepOf(c)
  BY <1>2, <1>4, <1>5 DEF StepOf, disk, IInv, TypeOK
<1>7. SlotsSeparate'
  <2>1. \A j \in Slots : msg[j].status # "RAW" => msg'[j].status # "RAW"
    BY <1>5
  <2>. QED  BY <1>2, <2>1 DEF server, IInv, TypeOK, Exclusion, SlotsSeparate
<1>8. RequestsWaited'
  BY <1>1, <1>2, <1>5, <1>6, Requests
<1>9. ClientInOrder(c)'
  <2>1. \A u \in UnitsOf[c] : Filled(c, u)'
    BY <1>2, <1>3, <1>5 DEF ClientInOrder, Opened, Filled
  <2>. QED  BY <1>2, <1>3, <2>1 DEF ClientInOrder, InOperation, Before, Opened
<1>10. c \in Writers => WriterInOrder(c, op[c])
  BY <1>3 DEF IInv, Exclusion, WritersInOrder
<1>11. c \in Writers => \A u \in UnitsOf[c] : WriterInOrder(c, u)'
  BY <1>1, <1>2, <1>4, <1>5, <1>10 DEF WriterInOrder, GoesOn, disk
<1>12. HeldOnce'
  <2>1. ASSUME NEW j \in Slots, NEW k \in Keys, msg'[j].writer, Holds(j, k)'
        PROVE  msg[j].writer /\ Holds(j, k)
    <3>1. CASE j # i
      BY <1>5, <2>1, <3>1 DEF Holds, Key, ReleasesLast
    <3>2. CASE j = i
      <4>1. msg[i].last > 0 /\ msg[i].last # goal[c] /\ k = <<msg[i].unit, msg[i].last>>
        BY <1>5, <2>1, <3>2 DEF Holds, Key, ReleasesLast
      <4>2. c \in Writers /\ msg[i].status = "ALLOCATED"
        BY <1>1, <1>2, <1>5, <1>10, <2>1, <3>2, <4>1 DEF WriterInOrder
      <4>3. msg[i].last = msg[i].page
        BY <1>4, <4>2 DEF IInv, Exclusion, HeldOnce
      <4>. QED  BY <1>5, <2>1, <3>2, <4>1, <4>2, <4>3 DEF Holds, Key
    <3>. QED  BY <3>1, <3>2
  <2>. QED  BY <1>2, <1>5, <2>1, HeldLess DEF server, disk
<1>13. FilledInOrder' /\ addrs' \subseteq files'
  BY <1>2, FilledStays DEF server, disk, IInv, Exclusion
<1>. QED  BY <1>6, <1>7, <1>8, <1>9, <1>11, <1>12, <1>13, Others DEF Exclusion

LEMMA FillSlotKeeps ==
  ASSUME IInv, NEW c \in Clients, FillSlot(c)
  PROVE  Exclusion'
<1>1. PICK i : i = svc[c][op[c]]
  OBVIOUS
<1>2. /\ pc[c] = "filling"
      /\ pc'[c] = IF \A u \in UnitsOf[c] : svc[c][u] # NoSlot THEN "ready" ELSE "named"
      /\ msg' = [msg EXCEPT ![i] = [@ EXCEPT !.status = "HOLDING", !.unit = op[c],
                                              !.writer = (c \in Writers)]]
      /\ UNCHANGED <<server, comm, disk, op, svc, cur, goal>>
      /\ \A d \in Clients \ {c} : SameClient(d)
  BY <1>1 DEF FillSlot, SameClient, server, IInv, TypeOK
<1>3. ClientInOrder(c) /\ svc[c][op[c]] # NoSlot
  BY <1>2 DEF IInv, Exclusion, ClientsInOrder, ClientInOrder
<1>4. /\ op[c] \in UnitsOf[c] /\ op[c] \in Units /\ i \in users[c] /\ i \in Slots
      /\ \A d \in Clients \ {c} : i \notin users[d]
      /\ c \in Writers => UnitsOf[c] = {op[c]}
  BY <1>1, <1>2, <1>3, SlotOfOperation DEF InOperation
<1>5. /\ msg'[i].status = "HOLDING" /\ msg'[i].unit = op[c]
      /\ (msg'[i].writer <=> c \in Writers)
      /\ \A j \in Slots \ {i} : msg'[j] = msg[j]
  <2>1. msg[i] \in PageCommMsg
    BY <1>4 DEF IInv, TypeOK
  <2>2. msg'[i] = [msg[i] EXCEPT !.status = "HOLDING", !.unit = op[c], !.writer =
          (c \in Writers)]
    BY <1>2, <1>4 DEF IInv, TypeOK
  <2>3. \A j \in Slots \ {i} : msg'[j] = msg[j]
    BY <1>2, <1>4 DEF IInv, TypeOK
  <2>. QED  BY <2>1, <2>2, <2>3 DEF PageCommMsg
<1>6. StepOf(c)
  BY <1>2, <1>4, <1>5 DEF StepOf, disk, IInv, TypeOK
<1>7. SlotsSeparate'
  <2>1. \A j \in Slots : msg[j].status # "RAW" => msg'[j].status # "RAW"
    BY <1>5
  <2>. QED  BY <1>2, <2>1 DEF server, IInv, TypeOK, Exclusion, SlotsSeparate
<1>8. RequestsWaited'
  <2>1. msg[i].status # "REQUESTING"
    BY <1>2, <1>4, NotRequesting
  <2>. QED  BY <1>2, <1>5, <1>6, <2>1, Requests
<1>9. UnitsOf[c] \subseteq Units /\ \A u \in Units : cur[c][u] = -1
  BY <1>2, <1>3, ClientAssumption DEF ClientInOrder, Before
<1>10. \A u \in UnitsOf[c] : svc[c][u] # NoSlot => Filled(c, u)'
  <2>1. ASSUME NEW u \in UnitsOf[c], u = op[c] PROVE Filled(c, u)'
    BY <1>1, <1>2, <1>4, <1>5, <2>1 DEF Filled
  <2>2. ASSUME NEW u \in UnitsOf[c], u # op[c], svc[c][u] # NoSlot PROVE Filled(c, u)'
    <3>1. Filled(c, u)
      BY <1>2, <1>3, <2>2 DEF ClientInOrder
    <3>. QED  BY <1>2, <1>5, <1>1, <1>3, <1>4, <1>9, <2>2, <3>1
              DEF Filled, IInv, Exclusion, SlotsSeparate
  <2>. QED  BY <2>1, <2>2
<1>11. ClientInOrder(c)'
  BY <1>2, <1>4, <1>9, <1>10 DEF ClientInOrder, InOperation, Before, Opened
<1>12. ASSUME c \in Writers, NEW u \in UnitsOf[c] PROVE WriterInOrder(c, u)'
  <2>1. u = op[c] /\ WriterInOrder(c, u)
    BY <1>4, <1>12 DEF IInv, Exclusion, WritersInOrder
  <2>2. msg'[i].last = 0
    BY <1>1, <1>2, <1>4, <2>1 DEF WriterInOrder, IInv, TypeOK, PageCommMsg
  <2>. QED  BY <1>1, <1>2, <1>9, <2>1, <2>2, ClientAssumption DEF WriterInOrder
<1>13. HeldOnce'
  <2>1. ASSUME NEW j \in Slots, NEW k \in Keys, msg'[j].writer, Holds(j, k)'
        PROVE  msg[j].writer /\ Holds(j, k)
    BY <1>5, <2>1 DEF Holds, Key, ReleasesLast
  <2>. QED  BY <1>2, <1>5, <2>1, HeldLess DEF server, disk
<1>14. FilledInOrder' /\ addrs' \subseteq files'
  BY <1>2, FilledStays DEF server, disk, IInv, Exclusion
<1>. QED  BY <1>6, <1>7, <1>8, <1>11, <1>12, <1>13, <1>14, Others DEF Exclusion

LEMMA RegUnitKeeps ==
  ASSUME IInv, NEW c \in Clients, NEW v \in Units, RegUnit(c, v)
  PROVE  Exclusion'
<1>1. /\ pc[c] = "named" /\ v \in UnitsOf[c] /\ svc[c][v] = NoSlot /\ op'[c] = v
      /\ pc'[c] \in {"thrown", "occupied"}
      /\ UNCHANGED <<reg, writerCount, readerCount, addrs, temp, comm, disk, cur, expired,
           goal>>
      /\ \A d \in Clients \ {c} : pc'[d] = pc[d] /\ op'[d] = op[d]
  BY DEF RegUnit, IInv, TypeOK
<1>2. ClientInOrder(c) /\ UnitsOf[c] \subseteq Units
  BY ClientAssumption DEF IInv, Exclusion, ClientsInOrder
<1>3. \A u \in Units : cur[c][u] = -1
  BY <1>1, <1>2 DEF ClientInOrder, Before
<1>4. FilledInOrder' /\ addrs' \subseteq files'
  BY <1>1, FilledStays DEF disk, IInv, Exclusion
<1>5. CASE UNCHANGED <<msg, users, maxIdx, svc>> /\ pc'[c] = "thrown"
  <2>1. UNCHANGED <<msg, server, comm, files, tail, svc>> /\
          \A d \in Clients \ {c} : SameClient(d)
    BY <1>1, <1>5 DEF SameClient, server, disk
  <2>2. ClientInOrder(c)'
    BY <1>1, <1>2, <1>3, <1>5 DEF ClientInOrder, InOperation, Before, Opened
  <2>3. c \in Writers => \A u \in UnitsOf[c] : WriterInOrder(c, u)'
    BY <1>1, <1>2, <1>3, <1>5 DEF WriterInOrder
  <2>. QED  BY <1>1, <2>1, <2>2, <2>3, QuietStep
<1>6. ASSUME NEW i \in Slots, msg[i].status = "RAW", pc'[c] = "occupied",
             msg' = [msg EXCEPT ![i] = [@ EXCEPT !.status = "OCCUPIED", !.last = 0]],
             users' = [users EXCEPT ![c] = @ \cup {i}],
             svc' = [svc EXCEPT ![c][v] = i]
      PROVE  Exclusion'
  <2>1. /\ msg'[i].status = "OCCUPIED" /\ msg'[i].last = 0
        /\ \A j \in Slots \ {i} : msg'[j] = msg[j]
    BY <1>6 DEF IInv, TypeOK, PageCommMsg
  <2>2. /\ users'[c] = users[c] \cup {i} /\ \A d \in Clients \ {c} : users'[d] = users[d]
        /\ svc'[c][v] = i /\ \A u \in Units \ {v} : svc'[c][u] = svc[c][u]
        /\ \A d \in Clients \ {c} : svc'[d] = svc[d]
        /\ users \in [Clients -> SUBSET Slots]
    BY <1>6 DEF IInv, TypeOK
  <2>3. \A d \in Clients : i \notin users[d]
    BY <1>6 DEF IInv, Exclusion, SlotsSeparate
  <2>4. StepOf(c)
    BY <1>1, <2>1, <2>2, <2>3 DEF StepOf, SameClient, disk
  <2>5. SlotsSeparate'
    <3>1. \A d, e \in Clients : d # e => users'[d] \cap users'[e] = {}
      BY <2>2, <2>3 DEF IInv, Exclusion, SlotsSeparate
    <3>2. \A d \in Clients : \A j \in users'[d] : msg'[j].status # "RAW"
      BY <2>1, <2>2 DEF IInv, Exclusion, SlotsSeparate
    <3>3. \A d \in Clients : \A u \in Units : svc'[d][u] # NoSlot => svc'[d][u] \in users'[d]
      BY <2>2 DEF IInv, Exclusion, SlotsSeparate
    <3>4. \A d \in Clients : \A u, w \in Units :
            svc'[d][u] # NoSlot /\ svc'[d][u] = svc'[d][w] => u = w
      <4>1. \A u \in Units \ {v} : svc'[c][u] # i
        BY <2>2, <2>3 DEF IInv, Exclusion, SlotsSeparate, Slots, NoSlot
      <4>. QED  BY <2>2, <4>1 DEF IInv, Exclusion, SlotsSeparate
    <3>. QED  BY <3>1, <3>2, <3>3, <3>4 DEF SlotsSeparate
  <2>6. RequestsWaited'
    BY <1>1, <1>6, <2>1, <2>4, Requests
  <2>7. HeldOnce'
    <3>1. ASSUME NEW j \in Slots, NEW k \in Keys, msg'[j].writer, Holds(j, k)'
          PROVE  msg[j].writer /\ Holds(j, k)
      BY <2>1, <3>1 DEF Holds, Key, ReleasesLast
    <3>. QED  BY <1>1, <2>1, <3>1, HeldLess DEF disk
  <2>8. ClientInOrder(c)'
    <3>1. \A u \in UnitsOf[c] : u # v /\ svc[c][u] # NoSlot => Filled(c, u)'
      <4>1. ASSUME NEW u \in UnitsOf[c], u # v, svc[c][u] # NoSlot PROVE Filled(c, u)'
        <5>1. Filled(c, u) /\ svc[c][u] # i
          BY <1>1, <1>2, <2>3, <4>1 DEF ClientInOrder, IInv, Exclusion, SlotsSeparate
        <5>. QED  BY <1>2, <2>1, <2>2, <4>1, <5>1 DEF Filled
      <4>. QED  BY <4>1
    <3>2. i # NoSlot
      BY DEF Slots, NoSlot
    <3>. QED  BY <1>1, <1>2, <1>3, <1>6, <2>2, <3>1, <3>2
              DEF ClientInOrder, InOperation, Before, Opened
  <2>9. ASSUME c \in Writers, NEW u \in UnitsOf[c] PROVE WriterInOrder(c, u)'
    <3>1. u = v
      BY <1>1, <2>9, ClientAssumption
    <3>. QED  BY <1>1, <1>3, <1>6, <2>1, <2>2, <3>1 DEF WriterInOrder
  <2>. QED  BY <1>4, <2>4, <2>5, <2>6, <2>7, <2>8, <2>9, Others DEF Exclusion
<1>7. \/ UNCHANGED <<msg, users, maxIdx, svc>> /\ pc'[c] = "thrown"
      \/ \E i \in Slots :
           /\ msg[i].status = "RAW" /\ pc'[c] = "occupied"
           /\ msg' = [msg EXCEPT ![i] = [@ EXCEPT !.status = "OCCUPIED", !.last = 0]]
           /\ users' = [users EXCEPT ![c] = @ \cup {i}]
           /\ svc' = [svc EXCEPT ![c][v] = i]
  BY DEF RegUnit, IInv, TypeOK
<1>. QED  BY <1>5, <1>6, <1>7

-----------------------------------------------------------------------------
(* The theorem. *)

LEMMA InitExclusion == Init => IInv
<1>. SUFFICES ASSUME Init PROVE Exclusion
  BY InitType DEF IInv
<1>1. UNION {UnitsOf[c] : c \in Clients} \subseteq Units
  BY ClientAssumption
<1>2. SlotsSeparate
  BY DEF Init, SlotsSeparate
<1>3. ClientsInOrder
  BY DEF Init, ClientsInOrder, ClientInOrder, InOperation, Before, Opened
<1>4. RequestsWaited /\ HeldOnce
  <2>1. \A i \in Slots : msg[i].status = "RAW"
    BY DEF Init
  <2>. QED  BY <2>1 DEF Init, RequestsWaited, HeldOnce, Holds
<1>5. WritersInOrder
  BY ClientAssumption DEF Init, WritersInOrder, WriterInOrder, Clients
<1>6. FilledInOrder /\ addrs \subseteq files
  BY DEF Init, FilledInOrder
<1>. QED  BY <1>2, <1>3, <1>4, <1>5, <1>6 DEF Exclusion

LEMMA StepExclusion ==
  ASSUME "spin" \notin MayDie, IInv, [Next]_vars
  PROVE  IInv'
<1>1. ASSUME UNCHANGED vars PROVE IInv'
  <2>. USE <1>1 DEF vars, server, comm, disk, local
  <2>1. TypeOK'
    BY DEF IInv, TypeOK
  <2>2. SlotsSeparate' /\ ClientsInOrder'
    BY DEF IInv, Exclusion, SlotsSeparate, ClientsInOrder, ClientInOrder, Filled
  <2>3. RequestsWaited' /\ HeldOnce'
    BY DEF IInv, Exclusion, RequestsWaited, HeldOnce, Holds, Key, ReleasesLast
  <2>4. WritersInOrder'
    BY DEF IInv, Exclusion, WritersInOrder, WriterInOrder, GoesOn
  <2>5. FilledInOrder' /\ addrs' \subseteq files'
    BY DEF IInv, Exclusion, FilledInOrder
  <2>. QED  BY <2>1, <2>2, <2>3, <2>4, <2>5 DEF IInv, Exclusion
<1>2. ASSUME EngineStep PROVE IInv'
  BY <1>2, EngineType, PollKeeps, ServeKeeps, TempKeeps, PidKeeps DEF EngineStep, IInv
<1>3. ASSUME NEW c \in Clients, ClientStep(c) PROVE IInv'
  BY <1>3, ClientType, CheckKeeps, FillSlotKeeps, RequestKeeps, ReaderLoadKeeps,
     WriterLoadKeeps, FinishKeeps, RefusedKeeps, LosesKeeps DEF ClientStep, IInv
<1>4. ASSUME NEW c \in Clients, UserStep(c) PROVE IInv'
  BY <1>4, UserType, RegClientKeeps, RegUnitKeeps, SeekKeeps, NextPageKeeps, FillKeeps,
     RetryKeeps, ExitKeeps, DieKeeps DEF UserStep, IInv
<1>. QED  BY <1>1, <1>2, <1>3, <1>4 DEF Next

(* The invariant is strong enough: two writers that could append to u      *)
(* would both stand at its last page and both hold it.                     *)
LEMMA ExclusionSuffices == IInv => OneWriterPerUnit
<1>. SUFFICES ASSUME IInv, NEW c \in Writers, NEW d \in Writers, NEW u \in Units,
                     CanWrite(c, u), CanWrite(d, u)
              PROVE  c = d
  BY DEF OneWriterPerUnit
<1>1. ASSUME NEW e \in Writers, CanWrite(e, u)
      PROVE  /\ cur[e][u] \in Pages /\ <<u, cur[e][u]>> \in files
             /\ svc[e][u] \in Slots /\ svc[e][u] \in users[e]
             /\ msg[svc[e][u]].writer /\ Holds(svc[e][u], <<u, cur[e][u]>>)
             /\ tail[<<u, cur[e][u]>>] = "open" /\ e \in Clients
  <2>1. e \in Clients /\ pc[e] = "ready" /\ cur[e][u] > 0 /\ tail[<<u, cur[e][u]>>] = "open"
        /\ cur[e][u] \in -1 .. MaxPage
    BY <1>1 DEF CanWrite, Clients, IInv, TypeOK
  <2>2. u \in UnitsOf[e]
    BY <2>1 DEF IInv, Exclusion, ClientsInOrder, ClientInOrder
  <2>3. WriterInOrder(e, u) /\ Filled(e, u)
    BY <2>1, <2>2 DEF IInv, Exclusion, WritersInOrder, ClientsInOrder, ClientInOrder, Opened
  <2>4. msg[svc[e][u]].status = "ALLOCATED" /\ msg[svc[e][u]].page = cur[e][u]
    BY <2>1, <2>3 DEF WriterInOrder
  <2>. QED  BY <2>1, <2>3, <2>4
               DEF Filled, Holds, Key, IInv, Exclusion, SlotsSeparate, WriterInOrder,
            Slots, NoSlot, Pages
<1>2. cur[c][u] = cur[d][u]
  <2>1. ASSUME NEW n \in Pages, NEW m \in Pages, <<u, n>> \in files, m < n
        PROVE  tail[<<u, m>>] # "open"
    <3>1. m \in 1 .. n - 1
      BY <2>1, BoundAssumption DEF Pages
    <3>. QED  BY <2>1, <3>1 DEF IInv, Exclusion, FilledInOrder
  <2>2. ~ (cur[c][u] < cur[d][u]) /\ ~ (cur[d][u] < cur[c][u])
    BY <1>1, <2>1
  <2>3. cur[c][u] \in Int /\ cur[d][u] \in Int
    BY BoundAssumption DEF IInv, TypeOK, Clients
  <2>. QED  BY <2>2, <2>3
<1>3. svc[c][u] = svc[d][u]
  <2>1. <<u, cur[c][u]>> \in Keys
    BY <1>1, BoundAssumption DEF Keys, Pages
  <2>2. \A i, j \in Slots : \A k \in Keys :
          msg[i].writer /\ Holds(i, k) /\ msg[j].writer /\ Holds(j, k) => i = j
    BY DEF IInv, Exclusion, HeldOnce
  <2>. QED  BY <1>1, <1>2, <2>1, <2>2
<1>. QED  BY <1>1, <1>3 DEF IInv, Exclusion, SlotsSeparate

(* UnitWriter.h: a unit that a writer appends to cannot be used by another *)
(* writer - provided that no client is killed while it waits in GetPage.   *)
THEOREM WritersExcludeEachOther ==
  ASSUME "spin" \notin MayDie
  PROVE  Spec => []OneWriterPerUnit
<1>1. IInv /\ [Next]_vars => IInv'
  BY StepExclusion
<1>. QED  BY <1>1, InitExclusion, ExclusionSuffices, PTL DEF Spec

(* The whole of it, which is also checked by itself. *)
THEOREM ExclusionHolds ==
  ASSUME "spin" \notin MayDie
  PROVE  Spec => []Exclusion
<1>1. IInv /\ [Next]_vars => IInv'
  BY StepExclusion
<1>2. IInv => Exclusion
  BY DEF IInv
<1>. QED  BY <1>1, <1>2, InitExclusion, PTL DEF Spec

-----------------------------------------------------------------------------
(* The tables of the engine.                                               *)

JInv == IInv /\ Accounts
FInv == JInv /\ Following

-----------------------------------------------------------------------------
(* Those that hold a page. *)

WritersOf(k) == {i \in Slots : msg[i].writer /\ Holds(i, k)}
ReadersOf(k) == {i \in Slots : ~msg[i].writer /\ Holds(i, k)}

LEMMA Counting ==
  /\ WriterCountsAreHolders <=> \A k \in Keys : writerCount[k] = Cardinality(WritersOf(k))
  /\ ReaderCountsAreHolders <=> \A k \in Keys : readerCount[k] = Cardinality(ReadersOf(k))
BY Zenon DEF WriterCountsAreHolders, ReaderCountsAreHolders, WritersOf, ReadersOf

LEMMA HoldersFinite ==
  ASSUME NEW k
  PROVE  /\ IsFiniteSet(WritersOf(k)) /\ Cardinality(WritersOf(k)) \in Nat
         /\ IsFiniteSet(ReadersOf(k)) /\ Cardinality(ReadersOf(k)) \in Nat
<1>1. WritersOf(k) \in SUBSET Slots /\ ReadersOf(k) \in SUBSET Slots
  BY DEF WritersOf, ReadersOf
<1>. QED  BY <1>1, SlotsFinite

(* No slot begins or ceases to stand for a page. *)
LEMMA SameWriters ==
  ASSUME WriterCountsAreHolders, writerCount' = writerCount,
         \A i \in Slots : \A k \in Keys :
           msg'[i].writer /\ Holds(i, k)' <=> msg[i].writer /\ Holds(i, k)
  PROVE  WriterCountsAreHolders'
<1>1. \A k \in Keys : WritersOf(k)' = WritersOf(k)
  BY DEF WritersOf
<1>2. \A k \in Keys : writerCount'[k] = Cardinality(WritersOf(k)')
  BY <1>1, Counting
<1>. QED  BY <1>2, Zenon DEF WriterCountsAreHolders, WritersOf

LEMMA SameReaders ==
  ASSUME ReaderCountsAreHolders, readerCount' = readerCount,
         \A i \in Slots : \A k \in Keys :
           ~msg'[i].writer /\ Holds(i, k)' <=> ~msg[i].writer /\ Holds(i, k)
  PROVE  ReaderCountsAreHolders'
<1>1. \A k \in Keys : ReadersOf(k)' = ReadersOf(k)
  BY DEF ReadersOf
<1>2. \A k \in Keys : readerCount'[k] = Cardinality(ReadersOf(k)')
  BY <1>1, Counting
<1>. QED  BY <1>2, Zenon DEF ReaderCountsAreHolders, ReadersOf

LEMMA SameSlots ==
  ASSUME msg' = msg, NEW i, NEW k
  PROVE  Holds(i, k)' <=> Holds(i, k)
BY DEF Holds, Key, ReleasesLast

-----------------------------------------------------------------------------
(* The clients that take no part in a step. *)

LEMMA OtherStands ==
  ASSUME IInv, NEW d \in Clients, SameClient(d), \A i \in users[d] : msg'[i] = msg[i]
  PROVE  /\ Occupied => (pc'[d] \in {"occupied", "filling"} =>
                           msg'[svc'[d][op'[d]]].status = "OCCUPIED")
         /\ WritersStand /\ d \in Writers => \A u \in UnitsOf[d] : WriterStands(d, u)'
<1>1. ASSUME NEW u \in Units, svc[d][u] # NoSlot PROVE msg'[svc[d][u]] = msg[svc[d][u]]
  BY <1>1 DEF IInv, TypeOK, Exclusion, SlotsSeparate
<1>2. ClientInOrder(d) /\ UnitsOf[d] \subseteq Units
  BY ClientAssumption DEF IInv, Exclusion, ClientsInOrder
<1>3. Occupied => (pc'[d] \in {"occupied", "filling"} =>
                     msg'[svc'[d][op'[d]]].status = "OCCUPIED")
  BY <1>1, <1>2 DEF Occupied, SameClient, ClientInOrder, InOperation
<1>4. ASSUME WritersStand, d \in Writers, NEW u \in UnitsOf[d] PROVE WriterStands(d, u)'
  <2>1. WriterStands(d, u) /\ u \in Units
    BY <1>2, <1>4 DEF WritersStand
  <2>2. pc[d] \in Opened \/ (pc[d] = "thrown" /\ cur[d][u] > 0) => svc[d][u] # NoSlot
    BY <1>2, <1>4 DEF ClientInOrder, Filled, Slots, NoSlot
  <2>. QED  BY <1>1, <2>1, <2>2 DEF WriterStands, SameClient, Opened
<1>. QED  BY <1>3, <1>4

LEMMA OtherReads ==
  ASSUME IInv, ReadersInOrder, NEW d \in Readers, SameClient(d), expired'[d] = expired[d],
         \A i \in users[d] : msg'[i] = msg[i], inited \subseteq inited',
         NEW u \in UnitsOf[d]
  PROVE  ReaderInOrder(d, u)'
<1>1. ReaderInOrder(d, u) /\ u \in Units /\ d \in Clients
  BY ClientAssumption DEF ReadersInOrder, Clients
<1>2. ClientInOrder(d)
  BY <1>1 DEF IInv, Exclusion, ClientsInOrder
<1>3. svc[d][u] # NoSlot => msg'[svc[d][u]] = msg[svc[d][u]]
  BY <1>1 DEF IInv, TypeOK, Exclusion, SlotsSeparate
<1>4. pc[d] \in Opened => svc[d][u] # NoSlot
  BY <1>2 DEF ClientInOrder, Filled, Slots, NoSlot
<1>. QED  BY <1>1, <1>3, <1>4 DEF ReaderInOrder, Follows, SameClient, Opened, Before

(* A step of c, with the engine's tables as they are. *)
LEMMA AccountsKept ==
  ASSUME JInv, NEW c \in Clients, StepOf(c),
         reg' = reg, pc[c] # "off", SlotsHaveOneOwner',
         UNCHANGED <<writerCount, readerCount, addrs>>,
         \A i \in Slots : \A k \in Keys :
           msg'[i].writer /\ Holds(i, k)' <=> msg[i].writer /\ Holds(i, k),
         pc'[c] \in {"occupied", "filling"} => msg'[svc'[c][op'[c]]].status = "OCCUPIED",
         c \in Writers => \A u \in UnitsOf[c] : WriterStands(c, u)'
  PROVE  Accounts'
<1>1. Registered'
  BY DEF JInv, Accounts, Registered, StepOf, SameClient
<1>2. Occupied'
  BY OtherStands DEF JInv, Accounts, Occupied, StepOf
<1>3. WritersStand'
  BY OtherStands DEF JInv, Accounts, WritersStand, StepOf, Clients
<1>4. MappedIffCounted'
  BY DEF JInv, Accounts, MappedIffCounted
<1>5. WriterCountsAreHolders'
  BY SameWriters DEF JInv, Accounts
<1>. QED  BY <1>1, <1>2, <1>3, <1>4, <1>5 DEF Accounts

(* The same, when the slots are left alone, too. *)
LEMMA AccountsQuiet ==
  ASSUME JInv, NEW c \in Clients, UNCHANGED <<msg, server, files>>,
         \A d \in Clients \ {c} : SameClient(d),
         \A k \in Keys : tail[k] # "open" => tail'[k] # "open",
         pc[c] # "off",
         pc'[c] \in {"occupied", "filling"} => msg'[svc'[c][op'[c]]].status = "OCCUPIED",
         c \in Writers => \A u \in UnitsOf[c] : WriterStands(c, u)'
  PROVE  Accounts'
<1>1. StepOf(c)
  BY DEF StepOf
<1>2. SlotsHaveOneOwner'
  BY DEF JInv, Accounts, SlotsHaveOneOwner, server
<1>3. \A i \in Slots : \A k \in Keys :
        msg'[i].writer /\ Holds(i, k)' <=> msg[i].writer /\ Holds(i, k)
  BY SameSlots
<1>. QED  BY <1>1, <1>2, <1>3, AccountsKept DEF server

LEMMA SuccessorStays ==
  ASSUME SuccessorReady, inited \subseteq inited',
         \A k \in Keys : tail'[k] = "end" => tail[k] = "end"
  PROVE  SuccessorReady'
<1>1. \A u \in Units : \A n \in Pages : <<u, n>> \in Keys
  BY BoundAssumption DEF Keys, Pages
<1>. QED  BY <1>1 DEF SuccessorReady

(* A step of c, with the readers' counts as they are. *)
LEMMA FollowingKept ==
  ASSUME FInv, NEW c \in Clients, StepOf(c), inited \subseteq inited', inited' \subseteq files',
         \A d \in Clients \ {c} : expired'[d] = expired[d],
         readerCount' = readerCount, SuccessorReady',
         \A i \in Slots : \A k \in Keys :
           ~msg'[i].writer /\ Holds(i, k)' <=> ~msg[i].writer /\ Holds(i, k),
         pc'[c] = "loaded" => c \in Writers /\ GoalKey(c)' \in inited',
         c \in Readers => \A u \in UnitsOf[c] : ReaderInOrder(c, u)'
  PROVE  Following'
<1>1. \A d \in Clients : pc'[d] = "loaded" => d \in Writers /\ GoalKey(d)' \in inited'
  <2>1. \A d \in Clients \ {c} : pc'[d] = "loaded" => d \in Writers /\ GoalKey(d)' \in inited'
    BY DEF FInv, Following, StepOf, SameClient, GoalKey
  <2>. QED  BY <2>1
<1>2. ReadersInOrder'
  <2>1. \A d \in Readers \ {c} : \A u \in UnitsOf[d] : ReaderInOrder(d, u)'
    BY OtherReads DEF FInv, JInv, Following, StepOf, Clients
  <2>. QED  BY <2>1 DEF ReadersInOrder
<1>3. ReaderCountsAreHolders'
  BY SameReaders DEF FInv, Following
<1>. QED  BY <1>1, <1>2, <1>3 DEF Following

LEMMA FollowingQuiet ==
  ASSUME FInv, NEW c \in Clients, UNCHANGED <<msg, server, files>>,
         \A d \in Clients \ {c} : SameClient(d) /\ expired'[d] = expired[d],
         \A k \in Keys : tail[k] # "open" => tail'[k] # "open",
         inited \subseteq inited', inited' \subseteq files', SuccessorReady',
         pc'[c] = "loaded" => c \in Writers /\ GoalKey(c)' \in inited',
         c \in Readers => \A u \in UnitsOf[c] : ReaderInOrder(c, u)'
  PROVE  Following'
<1>1. StepOf(c)
  BY DEF StepOf
<1>2. \A i \in Slots : \A k \in Keys :
        ~msg'[i].writer /\ Holds(i, k)' <=> ~msg[i].writer /\ Holds(i, k)
  BY SameSlots
<1>. QED  BY <1>1, <1>2, FollowingKept DEF server

-----------------------------------------------------------------------------
(* The clients' steps that leave the slots alone. *)

LEMMA CheckCounts ==
  ASSUME JInv, NEW c \in Clients, CheckSlot(c)
  PROVE  Accounts' /\ (Following => Following')
<1>1. /\ pc[c] = "occupied" /\ pc'[c] = "filling"
      /\ UNCHANGED <<msg, server, disk, op, svc, cur, expired, goal>>
      /\ \A d \in Clients \ {c} : SameClient(d)
  BY DEF CheckSlot, SameClient, server, disk, JInv, IInv, TypeOK, Accounts, Occupied
<1>2. msg'[svc'[c][op'[c]]].status = "OCCUPIED"
  BY <1>1 DEF JInv, Accounts, Occupied
<1>3. c \in Writers => \A u \in UnitsOf[c] : WriterStands(c, u)'
  BY <1>1 DEF WriterStands
<1>4. Accounts'
  BY <1>1, <1>2, <1>3, AccountsQuiet DEF disk
<1>5. ASSUME Following PROVE Following'
  <2>1. SuccessorReady'
    BY <1>1, <1>5, SuccessorStays DEF Following, disk
  <2>2. ASSUME c \in Readers, NEW u \in UnitsOf[c] PROVE ReaderInOrder(c, u)'
    <3>1. ReaderInOrder(c, u)
      BY <1>5, <2>2 DEF Following, ReadersInOrder
    <3>. QED  BY <1>1, <3>1 DEF ReaderInOrder, Before
  <2>. QED  BY <1>1, <1>5, <2>1, <2>2, FollowingQuiet DEF FInv, Following, disk
<1>. QED  BY <1>4, <1>5

LEMMA RefusedCounts ==
  ASSUME JInv, NEW c \in Clients, Refused(c)
  PROVE  Accounts' /\ (Following => Following')
<1>1. /\ pc[c] = "spin" /\ pc'[c] = "thrown"
      /\ msg[svc[c][op[c]]].status = "MORE_THAN_ONE_WRITER"
      /\ UNCHANGED <<msg, server, disk, op, svc, cur, expired>>
      /\ \A d \in Clients \ {c} : SameClient(d)
  BY DEF Refused, Answered, SameClient, server, disk, JInv, IInv, TypeOK
<1>2. ClientInOrder(c)
  BY DEF JInv, IInv, Exclusion, ClientsInOrder
<1>3. op[c] \in UnitsOf[c]
  BY <1>1, <1>2 DEF ClientInOrder, InOperation
<1>4. c \in Writers => \A u \in UnitsOf[c] : WriterStands(c, u)'
  <2>1. c \in Writers => UnitsOf[c] = {op[c]}
    BY <1>3, ClientAssumption
  <2>. QED  BY <1>1, <2>1 DEF WriterStands
<1>5. Accounts'
  BY <1>1, <1>4, AccountsQuiet DEF disk
<1>6. ASSUME Following PROVE Following'
  <2>1. SuccessorReady'
    BY <1>1, <1>6, SuccessorStays DEF Following, disk
  <2>2. c \notin Readers
    BY <1>1, <1>3, <1>6 DEF Following, ReadersInOrder, ReaderInOrder
  <2>. QED  BY <1>1, <1>6, <2>1, <2>2, FollowingQuiet DEF FInv, Following, disk
<1>. QED  BY <1>5, <1>6

LEMMA RetryCounts ==
  ASSUME JInv, NEW c \in Clients, Retry(c)
  PROVE  Accounts' /\ (Following => Following')
<1>1. /\ c \in Writers /\ pc[c] = "thrown" /\ pc'[c] = "ready" /\ cur[c][op[c]] > 0
      /\ UNCHANGED <<msg, server, disk, op, svc, cur, expired>>
      /\ \A d \in Clients \ {c} : SameClient(d)
  BY DEF Retry, SameClient, server, disk, JInv, IInv, TypeOK
<1>2. UnitsOf[c] = {op[c]}
  BY <1>1, ClientAssumption
     DEF JInv, IInv, Exclusion, ClientsInOrder, ClientInOrder, InOperation
<1>3. \A u \in UnitsOf[c] : WriterStands(c, u)'
  BY <1>1, <1>2 DEF JInv, Accounts, WritersStand, WriterStands
<1>4. Accounts'
  BY <1>1, <1>3, AccountsQuiet DEF disk
<1>5. ASSUME Following PROVE Following'
  <2>1. SuccessorReady'
    BY <1>1, <1>5, SuccessorStays DEF Following, disk
  <2>2. c \notin Readers
    BY <1>1, ClientAssumption
  <2>. QED  BY <1>1, <1>5, <2>1, <2>2, FollowingQuiet DEF FInv, Following, disk
<1>. QED  BY <1>4, <1>5

LEMMA SeekCounts ==
  ASSUME JInv, NEW c \in Clients, NEW v \in Units, SeekTime(c, v)
  PROVE  Accounts' /\ (Following => Following')
<1>1. PICK n \in SeekPages(c, v) : Choose(c, v, n)
  BY DEF SeekTime
<1>2. /\ pc[c] = "ready" /\ pc'[c] = "scanned" /\ op'[c] = v /\ goal'[c] = n
      /\ v \in UnitsOf[c] /\ cur[c][v] = -1 /\ n > 0
      /\ UNCHANGED <<msg, server, disk, svc, cur, expired>>
      /\ \A d \in Clients \ {c} : SameClient(d)
  BY <1>1, BoundAssumption
     DEF SeekTime, SeekPages, Existing, Pages, Choose, SameClient, server, disk, JInv, IInv,
       TypeOK
<1>3. c \in Writers => \A u \in UnitsOf[c] : WriterStands(c, u)'
  BY <1>2 DEF JInv, Accounts, WritersStand, WriterStands
<1>4. Accounts'
  BY <1>2, <1>3, AccountsQuiet DEF disk
<1>5. ASSUME Following PROVE Following'
  <2>1. SuccessorReady'
    BY <1>2, <1>5, SuccessorStays DEF Following, disk
  <2>2. ASSUME c \in Readers, NEW u \in UnitsOf[c] PROVE ReaderInOrder(c, u)'
    <3>1. ReaderInOrder(c, u) /\ ReaderInOrder(c, v)
      BY <1>2, <1>5, <2>2 DEF Following, ReadersInOrder
    <3>. QED  BY <1>2, <3>1 DEF ReaderInOrder, Before, Follows
  <2>. QED  BY <1>2, <1>5, <2>1, <2>2, FollowingQuiet DEF FInv, Following, disk
<1>. QED  BY <1>4, <1>5

LEMMA NextPageCounts ==
  ASSUME JInv, NEW c \in Clients, NEW v \in Units, LoadNextPage(c, v)
  PROVE  Accounts' /\ (Following => Following')
<1>1. /\ pc[c] = "ready" /\ pc'[c] = "scanned" /\ op'[c] = v /\ goal'[c] = cur[c][v] + 1
      /\ v \in UnitsOf[c] /\ v \notin expired[c] /\ cur[c][v] >= 0
      /\ c \notin Writers /\ cur[c][v] > 0 => tail[<<v, cur[c][v]>>] = "end"
      /\ UNCHANGED <<msg, server, disk, svc, cur, expired>>
      /\ \A d \in Clients \ {c} : SameClient(d)
  BY DEF LoadNextPage, Choose, SameClient, server, disk, JInv, IInv, TypeOK
<1>2. c \in Writers => \A u \in UnitsOf[c] : WriterStands(c, u)'
  BY <1>1 DEF JInv, Accounts, WritersStand, WriterStands
<1>3. Accounts'
  BY <1>1, <1>2, AccountsQuiet DEF disk
<1>4. ASSUME Following PROVE Following'
  <2>1. SuccessorReady'
    BY <1>1, <1>4, SuccessorStays DEF Following, disk
  <2>2. ASSUME c \in Readers, NEW u \in UnitsOf[c] PROVE ReaderInOrder(c, u)'
    <3>1. ReaderInOrder(c, u) /\ ReaderInOrder(c, v)
      BY <1>1, <1>4, <2>2 DEF Following, ReadersInOrder
    <3>2. cur[c][v] > 0
      BY <1>1, <3>1 DEF ReaderInOrder
    <3>3. <<v, cur[c][v] + 1>> \in inited
      <4>1. cur[c][v] \in Pages
        BY <3>2, BoundAssumption DEF JInv, IInv, TypeOK, Pages
      <4>. QED  BY <1>1, <1>4, <2>2, <3>2, <4>1, ClientAssumption DEF Following, SuccessorReady
    <3>4. inited' = inited /\ cur[c][v] + 1 > 0 /\ cur[c][v] # 0
      BY <1>1, <3>2, BoundAssumption DEF disk, JInv, IInv, TypeOK
    <3>. QED  BY <1>1, <3>1, <3>2, <3>3, <3>4 DEF ReaderInOrder, Before, Follows
  <2>. QED  BY <1>1, <1>4, <2>1, <2>2, FollowingQuiet DEF FInv, Following, disk
<1>. QED  BY <1>3, <1>4

LEMMA FillCounts ==
  ASSUME JInv, NEW c \in Clients, NEW v \in Units, FillPage(c, v)
  PROVE  Accounts' /\ (Following => Following')
<1>1. /\ c \in Writers /\ pc[c] = "ready"
      /\ UNCHANGED <<msg, server, files, inited, local>>
      /\ \A d \in Clients \ {c} : SameClient(d)
      /\ tail' = [tail EXCEPT ![<<v, cur[c][v]>>] = "full"]
  BY DEF FillPage, SameClient, server, local
<1>2. \A k \in Keys : /\ tail[k] # "open" => tail'[k] # "open"
                      /\ tail'[k] = "end" => tail[k] = "end"
  BY <1>1 DEF JInv, IInv, TypeOK
<1>3. \A u \in UnitsOf[c] : WriterStands(c, u)'
  BY <1>1 DEF JInv, Accounts, WritersStand, WriterStands, local
<1>4. Accounts'
  BY <1>1, <1>2, <1>3, AccountsQuiet DEF local
<1>5. ASSUME Following PROVE Following'
  <2>1. SuccessorReady'
    BY <1>1, <1>2, <1>5, SuccessorStays DEF Following
  <2>2. c \notin Readers
    BY <1>1, ClientAssumption
  <2>. QED  BY <1>1, <1>2, <1>5, <2>1, <2>2, FollowingQuiet DEF FInv, Following, local
<1>. QED  BY <1>4, <1>5

(* Where a client that spins stands, and the slot it looks at. *)
LEMMA Spinning ==
  ASSUME JInv, NEW c \in Clients, pc[c] \in {"scanned", "spin", "loaded"}
  PROVE  /\ op[c] \in UnitsOf[c] /\ op[c] \in Units /\ ClientInOrder(c)
         /\ Filled(c, op[c]) /\ svc[c][op[c]] \in Slots /\ svc[c][op[c]] \in users[c]
         /\ c \in Writers => /\ UnitsOf[c] = {op[c]} /\ WriterInOrder(c, op[c])
                             /\ WriterStands(c, op[c])
         /\ Following /\ c \in Readers => ReaderInOrder(c, op[c])
<1>1. ClientInOrder(c)
  BY DEF JInv, IInv, Exclusion, ClientsInOrder
<1>2. op[c] \in UnitsOf[c] /\ op[c] \in Units /\ Filled(c, op[c])
  BY <1>1, ClientAssumption DEF ClientInOrder, InOperation, Opened
<1>3. svc[c][op[c]] \in Slots /\ svc[c][op[c]] \in users[c]
  BY <1>2 DEF Filled, Slots, NoSlot, JInv, IInv, Exclusion, SlotsSeparate
<1>4. c \in Writers => UnitsOf[c] = {op[c]}
  BY <1>2, ClientAssumption
<1>5. c \in Writers => WriterInOrder(c, op[c]) /\ WriterStands(c, op[c])
  BY <1>2 DEF JInv, IInv, Exclusion, WritersInOrder, Accounts, WritersStand
<1>6. Following /\ c \in Readers => ReaderInOrder(c, op[c])
  BY <1>2 DEF Following, ReadersInOrder
<1>. QED  BY <1>1, <1>2, <1>3, <1>4, <1>5, <1>6

(* A granted page is there. *)
LEMMA GrantedThere ==
  ASSUME JInv, NEW c \in Clients, pc[c] = "spin", msg[svc[c][op[c]]].status = "ALLOCATED",
         msg[svc[c][op[c]]].page = goal[c]
  PROVE  GoalKey(c) \in files
<1>1. Filled(c, op[c]) /\ svc[c][op[c]] \in Slots
  BY Spinning
<1>2. Key(svc[c][op[c]]) \in files
  BY <1>1 DEF JInv, IInv, Exclusion, HeldOnce
<1>. QED  BY <1>1, <1>2 DEF Filled, Key, GoalKey

LEMMA ReaderLoadCounts ==
  ASSUME JInv, NEW c \in Clients, ReaderLoad(c)
  PROVE  Accounts' /\ (Following => Following')
<1>. DEFINE st == msg[svc[c][op[c]]].status
            n == IF st = "ALLOCATED" /\ (GoalKey(c) \in inited \/ c \in Revisers)
                 THEN goal[c] ELSE 0
            x == op[c]
<1>1. /\ c \in Readers /\ c \notin Writers /\ pc[c] = "spin" /\ pc'[c] = "ready"
      /\ st # "REQUESTING" /\ st # "MORE_THAN_ONE_WRITER"
      /\ UNCHANGED <<msg, server, files, tail, op, svc>>
      /\ \A d \in Clients \ {c} : SameClient(d) /\ expired'[d] = expired[d]
  BY ClientAssumption
     DEF ReaderLoad, Answered, SameClient, server, disk, JInv, IInv, TypeOK
<1>2. /\ inited' = IF n > 0 THEN inited \cup {GoalKey(c)} ELSE inited
      /\ cur' = [cur EXCEPT ![c][x] = n]
      /\ expired' = [expired EXCEPT ![c] = IF cur[c][x] = -1 /\ n = 0
                                           THEN @ \cup {x} ELSE @]
  BY DEF ReaderLoad, Answered
<1>3. Accounts'
  BY <1>1, AccountsQuiet
<1>4. ASSUME Following PROVE Following'
  <2>1. ReaderInOrder(c, x) /\ x \in UnitsOf[c] /\ x \in Units
    BY <1>1, <1>4, Spinning
  <2>2. goal[c] > 0 /\ goal[c] \in 0 .. MaxPage /\ msg[svc[c][x]].page = goal[c] /\
          cur[c][x] # 0
        /\ cur[c][x] \in -1 .. MaxPage
    BY <1>1, <2>1 DEF ReaderInOrder, JInv, IInv, TypeOK
  <2>3. n > 0 => GoalKey(c) \in files /\ st = "ALLOCATED"
    BY <1>1, <2>2, GrantedThere
  <2>4. cur[c][x] > 0 => n = goal[c]
    <3>1. cur[c][x] > 0 => st = "ALLOCATED"
      BY <1>1, <2>1, <2>2 DEF ReaderInOrder
    <3>2. cur[c][x] > 0 => GoalKey(c) \in inited
      BY <1>1, <2>1 DEF ReaderInOrder, Follows, GoalKey
    <3>. QED  BY <3>1, <3>2
  <2>5. inited \subseteq inited' /\ inited' \subseteq files'
    BY <1>1, <1>2, <1>4, <2>3 DEF Following
  <2>6. SuccessorReady'
    BY <1>1, <1>4, <2>5, SuccessorStays DEF Following
  <2>7. n \in 0 .. MaxPage /\ (n = 0 \/ n = goal[c])
    BY <2>2, BoundAssumption
  <2>. HIDE DEF n, st
  <2>8. ASSUME NEW u \in UnitsOf[c] PROVE ReaderInOrder(c, u)'
    <3>1. ReaderInOrder(c, u) /\ u \in Units
      BY <1>1, <1>4, ClientAssumption DEF Following, ReadersInOrder
    <3>2. CASE u = x
      <4>1. cur'[c][u] = n /\ (n = 0 => u \in expired'[c])
        <5>1. cur'[c][u] = n
          BY <1>2, <2>1, <3>2 DEF JInv, IInv, TypeOK
        <5>2. n = 0 => cur[c][x] = -1
          BY <2>2, <2>4
        <5>3. c \in Clients /\ expired \in [Clients -> SUBSET (Units \cup {NoUnit})]
          BY DEF JInv, IInv, TypeOK
        <5>. QED  BY <1>2, <3>2, <5>1, <5>2, <5>3
      <4>2. n > 0 => msg'[svc'[c][u]].status = "ALLOCATED" /\ msg'[svc'[c][u]].page = n
        BY <1>1, <2>2, <2>3, <2>7, <3>2 DEF st
      <4>3. n > 0 \/ n = 0
        BY <2>7
      <4>. QED  BY <1>1, <4>1, <4>2, <4>3 DEF ReaderInOrder, Before
    <3>3. CASE u # x
      <4>1. cur'[c][u] = cur[c][u] /\ (u \in expired'[c] <=> u \in expired[c])
        BY <1>2, <2>1, <3>1, <3>3 DEF JInv, IInv, TypeOK
      <4>. QED  BY <1>1, <3>1, <3>3, <4>1 DEF ReaderInOrder, Before
    <3>. QED  BY <3>2, <3>3
  <2>. QED  BY <1>1, <1>4, <2>5, <2>6, <2>8, FollowingQuiet DEF FInv
<1>. QED  BY <1>3, <1>4

LEMMA WriterLoadCounts ==
  ASSUME JInv, NEW c \in Clients, WriterLoad(c)
  PROVE  Accounts' /\ (Following => Following')
<1>1. /\ c \in Writers /\ c \notin Readers /\ pc[c] = "spin"
      /\ msg[svc[c][op[c]]].status = "ALLOCATED"
      /\ inited' = inited \cup {GoalKey(c)}
      /\ \/ pc'[c] = "ready" /\ cur' = [cur EXCEPT ![c][op[c]] = goal[c]]
         \/ pc'[c] = "loaded" /\ UNCHANGED <<cur, goal>>
      /\ UNCHANGED <<msg, server, files, tail, op, svc, expired>>
      /\ \A d \in Clients \ {c} : SameClient(d)
  BY ClientAssumption
     DEF WriterLoad, Answered, SameClient, server, disk, JInv, IInv, TypeOK
<1>2. /\ UnitsOf[c] = {op[c]} /\ op[c] \in Units
      /\ WriterInOrder(c, op[c]) /\ WriterStands(c, op[c])
  BY <1>1, Spinning
<1>3. msg[svc[c][op[c]]].page = goal[c] /\ goal[c] > 0
  BY <1>1, <1>2 DEF WriterInOrder
<1>4. WriterStands(c, op[c])'
  <2>1. CASE pc'[c] = "ready" /\ cur' = [cur EXCEPT ![c][op[c]] = goal[c]]
    <3>1. cur'[c][op[c]] = goal[c]
      BY <1>2, <2>1 DEF JInv, IInv, TypeOK
    <3>. QED  BY <1>1, <1>3, <2>1, <3>1 DEF WriterStands
  <2>2. CASE pc'[c] = "loaded"
    BY <2>2 DEF WriterStands
  <2>. QED  BY <1>1, <2>1, <2>2
<1>5. \A u \in UnitsOf[c] : WriterStands(c, u)'
  BY <1>1, <1>2, <1>4
<1>6. Accounts'
  BY <1>1, <1>5, AccountsQuiet
<1>7. ASSUME Following PROVE Following'
  <2>1. GoalKey(c) \in files
    BY <1>1, <1>3, GrantedThere
  <2>2. SuccessorReady'
    BY <1>1, <1>7, SuccessorStays DEF Following
  <2>3. pc'[c] = "loaded" => GoalKey(c)' \in inited'
    BY <1>1 DEF GoalKey
  <2>. QED  BY <1>1, <1>7, <2>1, <2>2, <2>3, FollowingQuiet DEF FInv, Following
<1>. QED  BY <1>6, <1>7

LEMMA FinishCounts ==
  ASSUME JInv, NEW c \in Clients, FinishPage(c)
  PROVE  Accounts' /\ (Following => Following')
<1>1. /\ pc[c] = "loaded" /\ pc'[c] = "ready"
      /\ cur' = [cur EXCEPT ![c][op[c]] = goal[c]]
      /\ tail' = [tail EXCEPT ![OldKey(c)] = "end"]
      /\ UNCHANGED <<msg, server, files, inited, op, svc, expired>>
      /\ \A d \in Clients \ {c} : SameClient(d)
  BY DEF FinishPage, SameClient, server, disk, JInv, IInv, TypeOK
<1>2. /\ op[c] \in Units
      /\ c \in Writers => UnitsOf[c] = {op[c]} /\ WriterInOrder(c, op[c])
  BY <1>1, Spinning
<1>3. c \in Writers => WriterStands(c, op[c])'
  <2>1. cur'[c][op[c]] = goal[c]
    BY <1>1, <1>2 DEF JInv, IInv, TypeOK
  <2>. QED  BY <1>1, <1>2, <2>1 DEF WriterStands, WriterInOrder
<1>4. c \in Writers => \A u \in UnitsOf[c] : WriterStands(c, u)'
  BY <1>1, <1>2, <1>3
<1>5. \A k \in Keys : tail[k] # "open" => tail'[k] # "open"
  BY <1>1 DEF JInv, IInv, TypeOK
<1>6. Accounts'
  BY <1>1, <1>4, <1>5, AccountsQuiet
<1>7. ASSUME Following PROVE Following'
  <2>1. c \in Writers /\ GoalKey(c) \in inited /\ goal[c] = cur[c][op[c]] + 1
    BY <1>1, <1>2, <1>7 DEF Following, WriterInOrder, GoesOn
  <2>2. SuccessorReady'
    <3>1. ASSUME NEW u \in Units, NEW n \in Pages, tail'[<<u, n>>] = "end"
          PROVE  <<u, n + 1>> \in inited'
      <4>1. CASE <<u, n>> = OldKey(c)
        BY <1>1, <2>1, <4>1 DEF OldKey, GoalKey
      <4>2. CASE <<u, n>> # OldKey(c)
        <5>1. <<u, n>> \in Keys
          BY BoundAssumption DEF Keys, Pages
        <5>2. tail[<<u, n>>] = "end"
          BY <1>1, <3>1, <4>2, <5>1 DEF JInv, IInv, TypeOK
        <5>. QED  BY <1>1, <1>7, <5>2 DEF Following, SuccessorReady
      <4>. QED  BY <4>1, <4>2
    <3>. QED  BY <3>1 DEF SuccessorReady
  <2>3. c \notin Readers
    BY <2>1, ClientAssumption
  <2>. QED  BY <1>1, <1>5, <1>7, <2>1, <2>2, <2>3, FollowingQuiet DEF FInv, Following
<1>. QED  BY <1>6, <1>7

(* A client dies, or has died of a lost page. *)
LEMMA DyingCounts ==
  ASSUME JInv, NEW c \in Clients, Forget(c, "dead"), UNCHANGED <<msg, server, files, inited>>,
         pc[c] # "off", \A k \in Keys : tail[k] # "open" => tail'[k] # "open"
  PROVE  Accounts' /\ (Following /\ SuccessorReady' => Following')
<1>1. /\ pc'[c] = "dead" /\ expired'[c] = {}
      /\ \A d \in Clients \ {c} : SameClient(d) /\ expired'[d] = expired[d]
  BY DEF Forget, SameClient, server, JInv, IInv, TypeOK
<1>2. c \in Writers => \A u \in UnitsOf[c] : WriterStands(c, u)'
  BY <1>1 DEF WriterStands
<1>3. Accounts'
  BY <1>1, <1>2, AccountsQuiet
<1>4. ASSUME Following, SuccessorReady' PROVE Following'
  <2>1. \A u \in UnitsOf[c] : ReaderInOrder(c, u)'
    BY <1>1 DEF ReaderInOrder
  <2>. QED  BY <1>1, <1>4, <2>1, FollowingQuiet DEF FInv, Following
<1>. QED  BY <1>3, <1>4

LEMMA DieCounts ==
  ASSUME JInv, NEW c \in Clients, Die(c)
  PROVE  Accounts' /\ (Following => Following')
<1>1. Forget(c, "dead") /\ UNCHANGED <<msg, server, files, inited, tail>> /\ pc[c] # "off"
  BY FaultAssumption DEF Die, disk
<1>2. Following => SuccessorReady'
  BY <1>1, SuccessorStays DEF Following
<1>. QED  BY <1>1, <1>2, DyingCounts

LEMMA LosesCounts ==
  ASSUME JInv, NEW c \in Clients, WriterLosesPage(c)
  PROVE  Accounts' /\ RenameMayFail
<1>1. /\ Forget(c, "dead") /\ UNCHANGED <<msg, server, files, inited>>
      /\ c \in Writers /\ pc[c] = "spin"
      /\ msg[svc[c][op[c]]].status \notin {"REQUESTING", "ALLOCATED", "MORE_THAN_ONE_WRITER"}
      /\ tail' = [tail EXCEPT ![OldKey(c)] = "end"] \/ tail' = tail
  BY DEF WriterLosesPage, Answered
<1>2. \A k \in Keys : tail[k] # "open" => tail'[k] # "open"
  BY <1>1 DEF JInv, IInv, TypeOK
<1>3. WriterStands(c, op[c])
  BY <1>1, Spinning
<1>. QED  BY <1>1, <1>2, <1>3, DyingCounts DEF WriterStands

-----------------------------------------------------------------------------
(* The clients' steps that change a slot. *)

LEMMA OwnersStay ==
  ASSUME SlotsHaveOneOwner, UNCHANGED <<users, reg>>,
         \A i \in Slots : msg'[i].status = "RAW" <=> msg[i].status = "RAW"
  PROVE  SlotsHaveOneOwner'
BY DEF SlotsHaveOneOwner

LEMMA FillSlotCounts ==
  ASSUME JInv, NEW c \in Clients, FillSlot(c)
  PROVE  Accounts' /\ (Following => Following')
<1>1. PICK i : i = svc[c][op[c]]
  OBVIOUS
<1>2. /\ pc[c] = "filling" /\ pc'[c] \in {"ready", "named"}
      /\ msg' = [msg EXCEPT ![i] = [@ EXCEPT !.status = "HOLDING", !.unit = op[c],
                                              !.writer = (c \in Writers)]]
      /\ UNCHANGED <<server, comm, disk, op, svc, cur, expired, goal>>
      /\ pc'[c] = "ready" => \A u \in UnitsOf[c] : svc[c][u] # NoSlot
      /\ \A d \in Clients \ {c} : SameClient(d)
  BY <1>1 DEF FillSlot, SameClient, server, JInv, IInv, TypeOK
<1>3. ClientInOrder(c) /\ svc[c][op[c]] # NoSlot /\ msg[i].status = "OCCUPIED"
  BY <1>1, <1>2 DEF JInv, IInv, Exclusion, ClientsInOrder, ClientInOrder, Accounts, Occupied
<1>4. /\ op[c] \in UnitsOf[c] /\ op[c] \in Units /\ i \in users[c] /\ i \in Slots
      /\ \A d \in Clients \ {c} : i \notin users[d]
      /\ c \in Writers => UnitsOf[c] = {op[c]}
  BY <1>1, <1>2, <1>3, SlotOfOperation DEF InOperation, JInv
<1>5. /\ msg'[i].status = "HOLDING" /\ msg'[i].last = msg[i].last
      /\ \A j \in Slots \ {i} : msg'[j] = msg[j]
  <2>1. msg[i] \in PageCommMsg
    BY <1>4 DEF JInv, IInv, TypeOK
  <2>2. msg'[i] = [msg[i] EXCEPT !.status = "HOLDING", !.unit = op[c], !.writer =
          (c \in Writers)]
    BY <1>2, <1>4 DEF JInv, IInv, TypeOK
  <2>3. \A j \in Slots \ {i} : msg'[j] = msg[j]
    BY <1>2, <1>4 DEF JInv, IInv, TypeOK
  <2>. QED  BY <2>1, <2>2, <2>3 DEF PageCommMsg
<1>6. StepOf(c)
  BY <1>2, <1>4, <1>5 DEF StepOf, disk, JInv, IInv, TypeOK
<1>7. SlotsHaveOneOwner'
  BY <1>2, <1>3, <1>5, OwnersStay DEF server, JInv, Accounts
<1>8. \A j \in Slots : \A k \in Keys :
        /\ msg'[j].writer /\ Holds(j, k)' <=> msg[j].writer /\ Holds(j, k)
        /\ ~msg'[j].writer /\ Holds(j, k)' <=> ~msg[j].writer /\ Holds(j, k)
  BY <1>3, <1>5 DEF Holds, Key, ReleasesLast
<1>9. c \in Writers => \A u \in UnitsOf[c] : WriterStands(c, u)'
  BY <1>1, <1>2, <1>4, <1>5 DEF WriterStands
<1>10. Accounts'
  BY <1>2, <1>6, <1>7, <1>8, <1>9, AccountsKept DEF server
<1>11. ASSUME Following PROVE Following'
  <2>1. SuccessorReady' /\ inited \subseteq inited' /\ inited' \subseteq files'
    BY <1>2, <1>11, SuccessorStays DEF Following, disk
  <2>2. ASSUME c \in Readers, NEW u \in UnitsOf[c] PROVE ReaderInOrder(c, u)'
    <3>1. ReaderInOrder(c, u) /\ ReaderInOrder(c, op[c]) /\ u \in Units /\ cur[c][u] = -1
      BY <1>2, <1>3, <1>4, <1>11, <2>2, ClientAssumption
         DEF Following, ReadersInOrder, ClientInOrder, Before
    <3>2. CASE u = op[c]
      BY <1>1, <1>2, <1>3, <1>5, <3>1, <3>2 DEF ReaderInOrder, Before
    <3>3. CASE u # op[c] /\ svc[c][u] # NoSlot
      <4>1. svc[c][u] # i /\ svc[c][u] \in Slots
        BY <1>1, <1>3, <1>4, <3>1, <3>3 DEF JInv, IInv, TypeOK, Exclusion, SlotsSeparate
      <4>2. Filled(c, u)
        BY <1>2, <1>3, <2>2, <3>3 DEF ClientInOrder
      <4>3. msg[svc[c][u]].status = "HOLDING" /\ msg[svc[c][u]].last = 0 /\ u \notin expired[c]
        BY <1>2, <3>1, <3>3 DEF ReaderInOrder, Before
      <4>. QED  BY <1>2, <1>5, <3>1, <4>1, <4>3 DEF ReaderInOrder, Before
    <3>4. CASE svc[c][u] = NoSlot
      BY <1>2, <2>2, <3>1, <3>4 DEF ReaderInOrder, Before
    <3>. QED  BY <3>2, <3>3, <3>4
  <2>. QED  BY <1>2, <1>6, <1>8, <1>11, <2>1, <2>2, FollowingKept DEF FInv, server
<1>. QED  BY <1>10, <1>11

(* A request ends no use of a page: the one that is given up was granted,  *)
(* and is given back with the answer.                                      *)
LEMMA RequestCounts ==
  ASSUME JInv, NEW c \in Clients, Request(c)
  PROVE  Accounts' /\ (Following => Following')
<1>1. PICK i : i = svc[c][op[c]]
  OBVIOUS
<1>2. /\ pc[c] = "scanned" /\ pc'[c] = "spin"
      /\ msg' = [msg EXCEPT ![i] = [@ EXCEPT !.page = goal[c], !.status = "REQUESTING"]]
      /\ UNCHANGED <<server, comm, disk, op, svc, cur, expired, goal>>
      /\ \A d \in Clients \ {c} : SameClient(d)
  BY <1>1 DEF Request, SameClient, server, JInv, IInv, TypeOK
<1>3. /\ op[c] \in UnitsOf[c] /\ op[c] \in Units /\ Filled(c, op[c])
      /\ i \in users[c] /\ i \in Slots
      /\ \A d \in Clients \ {c} : i \notin users[d]
      /\ c \in Writers => /\ UnitsOf[c] = {op[c]} /\ WriterInOrder(c, op[c])
                          /\ WriterStands(c, op[c])
  <2>1. svc[c][op[c]] # NoSlot
    BY <1>2, Spinning DEF Slots, NoSlot
  <2>. QED  BY <1>1, <1>2, <2>1, Spinning, SlotOfOperation DEF InOperation, JInv
<1>4. /\ msg'[i].status = "REQUESTING" /\ msg'[i].page = goal[c] /\ msg'[i].last = msg[i].last
      /\ msg'[i].unit = msg[i].unit /\ msg'[i].writer = msg[i].writer
      /\ \A j \in Slots \ {i} : msg'[j] = msg[j]
      /\ (msg[i].writer <=> c \in Writers)
  BY <1>1, <1>2, <1>3 DEF JInv, IInv, TypeOK, PageCommMsg, Filled
<1>5. StepOf(c)
  BY <1>2, <1>3, <1>4 DEF StepOf, disk, JInv, IInv, TypeOK
<1>6. msg[i].status \notin {"RAW", "REQUESTING"}
  BY <1>2, <1>3, NotRequesting DEF JInv, IInv, Exclusion, SlotsSeparate
<1>7. SlotsHaveOneOwner'
  BY <1>2, <1>4, <1>6, OwnersStay DEF server, JInv, Accounts
<1>8. \A j \in Slots \ {i} : \A k \in Keys : Holds(j, k)' <=> Holds(j, k)
  BY <1>4 DEF Holds, Key, ReleasesLast
<1>9. msg[i].status = "ALLOCATED" => msg[i].last = msg[i].page
  BY <1>3 DEF JInv, IInv, Exclusion, HeldOnce
<1>10. /\ cur[c][op[c]] \in -1 .. MaxPage /\ goal[c] \in 0 .. MaxPage
  BY <1>3 DEF JInv, IInv, TypeOK
<1>11. ASSUME \/ /\ msg[i].status = "ALLOCATED" /\ cur[c][op[c]] > 0
                 /\ msg[i].page = cur[c][op[c]] /\ goal[c] = cur[c][op[c]] + 1
              \/ msg[i].status # "ALLOCATED" /\ msg[i].last \in {0, goal[c]}
       PROVE  \A k \in Keys : Holds(i, k)' <=> Holds(i, k)
  BY <1>4, <1>6, <1>9, <1>10, <1>11 DEF Holds, Key, ReleasesLast
<1>12. c \in Writers => \A k \in Keys : Holds(i, k)' <=> Holds(i, k)
  <2>1. ASSUME c \in Writers
        PROVE  \/ /\ msg[i].status = "ALLOCATED" /\ cur[c][op[c]] > 0
                  /\ msg[i].page = cur[c][op[c]] /\ goal[c] = cur[c][op[c]] + 1
               \/ msg[i].status # "ALLOCATED" /\ msg[i].last \in {0, goal[c]}
    BY <1>1, <1>2, <1>3, <1>9, <1>10, <2>1 DEF WriterInOrder, WriterStands, GoesOn
  <2>. QED  BY <1>11, <2>1
<1>13. c \in Writers => \A u \in UnitsOf[c] : WriterStands(c, u)'
  BY <1>1, <1>2, <1>3, <1>4 DEF WriterStands
<1>14. Accounts'
  BY <1>2, <1>4, <1>5, <1>7, <1>8, <1>12, <1>13, AccountsKept DEF server
<1>15. ASSUME Following PROVE Following'
  <2>1. SuccessorReady' /\ inited \subseteq inited' /\ inited' \subseteq files'
    BY <1>2, <1>15, SuccessorStays DEF Following, disk
  <2>2. c \in Readers => \A k \in Keys : Holds(i, k)' <=> Holds(i, k)
    <3>1. ASSUME c \in Readers
          PROVE  \/ /\ msg[i].status = "ALLOCATED" /\ cur[c][op[c]] > 0
                    /\ msg[i].page = cur[c][op[c]] /\ goal[c] = cur[c][op[c]] + 1
                 \/ msg[i].status # "ALLOCATED" /\ msg[i].last \in {0, goal[c]}
      <4>1. ReaderInOrder(c, op[c])
        BY <1>2, <1>15, <3>1, Spinning
      <4>. QED  BY <1>1, <1>2, <4>1 DEF ReaderInOrder, Follows
    <3>. QED  BY <1>11, <3>1
  <2>3. \A j \in Slots : \A k \in Keys :
          ~msg'[j].writer /\ Holds(j, k)' <=> ~msg[j].writer /\ Holds(j, k)
    BY <1>4, <1>8, <2>2 DEF Clients
  <2>4. ASSUME c \in Readers, NEW u \in UnitsOf[c] PROVE ReaderInOrder(c, u)'
    <3>1. ReaderInOrder(c, u) /\ ReaderInOrder(c, op[c]) /\ u \in Units
      BY <1>3, <1>15, <2>4, ClientAssumption DEF Following, ReadersInOrder
    <3>2. CASE u = op[c]
      BY <1>1, <1>2, <1>4, <3>1, <3>2 DEF ReaderInOrder, Before, Follows, disk
    <3>3. CASE u # op[c]
      <4>1. svc[c][u] # i /\ svc[c][u] \in Slots
        <5>1. Filled(c, u)
          BY <1>2, <2>4, Spinning DEF ClientInOrder, Opened
        <5>. QED  BY <1>1, <1>3, <3>1, <3>3, <5>1
                  DEF Filled, JInv, IInv, Exclusion, SlotsSeparate, Slots, NoSlot
      <4>2. msg'[svc'[c][u]] = msg[svc[c][u]]
        BY <1>2, <1>4, <4>1
      <4>. QED  BY <1>2, <3>1, <3>3, <4>2 DEF ReaderInOrder, Before
    <3>. QED  BY <3>2, <3>3
  <2>. QED  BY <1>2, <1>5, <1>15, <2>1, <2>3, <2>4, FollowingKept DEF FInv, server
<1>. QED  BY <1>14, <1>15

LEMMA RegClientCounts ==
  ASSUME JInv, NEW c \in Clients, RegClient(c)
  PROVE  Accounts' /\ (Following => Following')
<1>1. /\ pc[c] = "off" /\ pc'[c] = "named" /\ users' = [users EXCEPT ![c] = {}]
      /\ c \notin reg /\ reg' = reg \cup {c}
      /\ UNCHANGED <<msg, writerCount, readerCount, addrs, comm, disk, op, svc, cur, expired,
           goal>>
      /\ \A d \in Clients \ {c} : SameClient(d)
  BY DEF RegClient, SameClient, JInv, IInv, TypeOK
<1>2. StepOf(c)
  BY <1>1 DEF StepOf, disk
<1>3. users[c] = {} /\ users' = users
  <2>1. ASSUME NEW i \in users[c] PROVE FALSE
    <3>1. i \in Slots /\ msg[i].status # "RAW"
      BY <2>1 DEF JInv, IInv, TypeOK, Exclusion, SlotsSeparate
    <3>. QED  BY <1>1, <2>1, <3>1 DEF JInv, Accounts, SlotsHaveOneOwner
  <2>2. users[c] = {}
    BY <2>1
  <2>. QED  BY <1>1, <2>2 DEF JInv, IInv, TypeOK
<1>4. \A i \in Slots : \A k \in Keys : Holds(i, k)' <=> Holds(i, k)
  BY <1>1, SameSlots
<1>5. Accounts'
  <2>1. Registered'
    BY <1>1 DEF JInv, Accounts, Registered, SameClient
  <2>2. Occupied'
    BY <1>1 DEF JInv, Accounts, Occupied, SameClient
  <2>3. WritersStand'
    <3>1. c \in Writers => \A u \in UnitsOf[c] : WriterStands(c, u)'
      BY <1>1 DEF WriterStands
    <3>. QED  BY <1>2, <3>1, OtherStands DEF JInv, Accounts, WritersStand, StepOf, Clients
  <2>4. SlotsHaveOneOwner'
    BY <1>1, <1>3 DEF JInv, Accounts, SlotsHaveOneOwner
  <2>5. MappedIffCounted'
    BY <1>1 DEF JInv, Accounts, MappedIffCounted
  <2>6. WriterCountsAreHolders'
    BY <1>1, <1>4, SameWriters DEF JInv, Accounts
  <2>. QED  BY <2>1, <2>2, <2>3, <2>4, <2>5, <2>6 DEF Accounts
<1>6. ASSUME Following PROVE Following'
  <2>1. SuccessorReady' /\ inited \subseteq inited' /\ inited' \subseteq files'
    BY <1>1, <1>6, SuccessorStays DEF Following, disk
  <2>2. ASSUME c \in Readers, NEW u \in UnitsOf[c] PROVE ReaderInOrder(c, u)'
    <3>1. ReaderInOrder(c, u) /\ svc[c][u] = NoSlot
      BY <1>1, <1>6, <2>2, ClientAssumption
         DEF Following, ReadersInOrder, JInv, IInv, Exclusion, ClientsInOrder, ClientInOrder
    <3>. QED  BY <1>1, <3>1 DEF ReaderInOrder, Before
  <2>. QED  BY <1>1, <1>2, <1>4, <1>6, <2>1, <2>2, FollowingKept DEF FInv
<1>. QED  BY <1>5, <1>6

LEMMA RegUnitCounts ==
  ASSUME JInv, NEW c \in Clients, NEW v \in Units, RegUnit(c, v)
  PROVE  Accounts' /\ (Following => Following')
<1>1. /\ pc[c] = "named" /\ v \in UnitsOf[c] /\ svc[c][v] = NoSlot /\ op'[c] = v
      /\ UNCHANGED <<reg, writerCount, readerCount, addrs, temp, comm, disk, cur, expired,
           goal>>
      /\ \A d \in Clients \ {c} : pc'[d] = pc[d] /\ op'[d] = op[d]
  BY DEF RegUnit, JInv, IInv, TypeOK
<1>2. /\ inited' = inited /\ tail' = tail /\ files' = files
      /\ Following => SuccessorReady' /\ inited' \subseteq files'
  BY <1>1, SuccessorStays DEF Following, disk
<1>3. c \in Clients /\ c \in reg /\ \A u \in Units : cur[c][u] = -1
  BY <1>1 DEF JInv, Accounts, Registered, IInv, Exclusion, ClientsInOrder, ClientInOrder, Before
<1>4. CASE UNCHANGED <<msg, users, maxIdx, svc>> /\ pc'[c] = "thrown"
  <2>1. UNCHANGED <<msg, server>> /\ \A d \in Clients \ {c} : SameClient(d)
    BY <1>1, <1>4 DEF SameClient, server
  <2>2. c \in Writers => \A u \in UnitsOf[c] : WriterStands(c, u)'
    BY <1>1, <1>3, <1>4, ClientAssumption DEF WriterStands
  <2>3. Accounts'
    BY <1>1, <1>2, <1>4, <2>1, <2>2, AccountsQuiet
  <2>4. \A u \in UnitsOf[c] : ReaderInOrder(c, u)'
    BY <1>4 DEF ReaderInOrder, Before
  <2>. QED  BY <1>1, <1>2, <1>4, <2>1, <2>3, <2>4, FollowingQuiet DEF FInv
<1>5. ASSUME NEW i \in Slots, msg[i].status = "RAW", pc'[c] = "occupied",
             msg' = [msg EXCEPT ![i] = [@ EXCEPT !.status = "OCCUPIED", !.last = 0]],
             users' = [users EXCEPT ![c] = @ \cup {i}],
             svc' = [svc EXCEPT ![c][v] = i]
      PROVE  Accounts' /\ (Following => Following')
  <2>1. /\ msg'[i].status = "OCCUPIED" /\ msg'[i].last = 0
        /\ \A j \in Slots \ {i} : msg'[j] = msg[j]
    BY <1>5 DEF JInv, IInv, TypeOK, PageCommMsg
  <2>2. /\ users'[c] = users[c] \cup {i} /\ \A d \in Clients \ {c} : users'[d] = users[d]
        /\ svc'[c][v] = i /\ \A u \in Units \ {v} : svc'[c][u] = svc[c][u]
        /\ \A d \in Clients \ {c} : svc'[d] = svc[d]
        /\ users \in [Clients -> SUBSET Slots]
    BY <1>5 DEF JInv, IInv, TypeOK
  <2>3. \A d \in Clients : i \notin users[d]
    BY <1>5 DEF JInv, IInv, Exclusion, SlotsSeparate
  <2>4. StepOf(c)
    BY <1>1, <2>1, <2>2, <2>3 DEF StepOf, SameClient, disk
  <2>5. SlotsHaveOneOwner'
    <3>1. ASSUME NEW j \in Slots
          PROVE  IF msg'[j].status = "RAW" THEN \A d \in Clients : j \notin users'[d]
                 ELSE \E e \in reg' : j \in users'[e]
                                      /\ \A d \in Clients \ {e} : j \notin users'[d]
      <4>1. CASE j = i
        BY <1>1, <1>3, <2>1, <2>2, <2>3, <4>1
      <4>2. CASE j # i
        <5>1. \A d \in Clients : j \in users'[d] <=> j \in users[d]
          BY <2>2, <4>2
        <5>2. reg \subseteq Clients
          BY DEF JInv, IInv, TypeOK
        <5>. QED  BY <1>1, <2>1, <4>2, <5>1, <5>2 DEF JInv, Accounts, SlotsHaveOneOwner
      <4>. QED  BY <4>1, <4>2
    <3>. QED  BY <3>1 DEF SlotsHaveOneOwner
  <2>6. \A j \in Slots : \A k \in Keys :
          /\ msg'[j].writer /\ Holds(j, k)' <=> msg[j].writer /\ Holds(j, k)
          /\ ~msg'[j].writer /\ Holds(j, k)' <=> ~msg[j].writer /\ Holds(j, k)
    BY <1>5, <2>1 DEF Holds, Key, ReleasesLast
  <2>7. c \in Writers => \A u \in UnitsOf[c] : WriterStands(c, u)'
    BY <1>5 DEF WriterStands
  <2>8. msg'[svc'[c][op'[c]]].status = "OCCUPIED"
    BY <1>1, <2>1, <2>2
  <2>9. Accounts'
    BY <1>1, <2>4, <2>5, <2>6, <2>7, <2>8, AccountsKept
  <2>10. ASSUME Following PROVE Following'
    <3>1. ASSUME c \in Readers, NEW u \in UnitsOf[c] PROVE ReaderInOrder(c, u)'
      <4>1. ReaderInOrder(c, u) /\ u \in Units
        BY <2>10, <3>1, ClientAssumption DEF Following, ReadersInOrder
      <4>2. CASE u = v
        BY <1>1, <1>5, <2>1, <2>2, <4>1, <4>2 DEF ReaderInOrder, Before
      <4>3. CASE u # v
        <5>1. svc[c][u] # NoSlot => svc[c][u] # i /\ svc[c][u] \in Slots
          BY <2>3, <4>1 DEF JInv, IInv, TypeOK, Exclusion, SlotsSeparate
        <5>. QED  BY <1>1, <1>5, <2>1, <2>2, <4>1, <4>3, <5>1 DEF ReaderInOrder, Before
      <4>. QED  BY <4>2, <4>3
    <3>. QED  BY <1>1, <1>2, <1>5, <2>4, <2>6, <2>10, <3>1, FollowingKept DEF FInv
  <2>. QED  BY <2>9, <2>10
<1>6. \/ UNCHANGED <<msg, users, maxIdx, svc>> /\ pc'[c] = "thrown"
      \/ \E i \in Slots :
           /\ msg[i].status = "RAW" /\ pc'[c] = "occupied"
           /\ msg' = [msg EXCEPT ![i] = [@ EXCEPT !.status = "OCCUPIED", !.last = 0]]
           /\ users' = [users EXCEPT ![c] = @ \cup {i}]
           /\ svc' = [svc EXCEPT ![c][v] = i]
  BY DEF RegUnit, JInv, IInv, TypeOK
<1>. QED  BY <1>4, <1>5, <1>6

-----------------------------------------------------------------------------
(* ExitClient. *)

(* A count less those that no longer hold the page. *)
LEMMA DropAllCounts ==
  ASSUME NEW count \in [Keys -> Nat], NEW S \in SUBSET Slots, NEW k \in Keys,
         NEW H, IsFiniteSet(H), count[k] = Cardinality(H),
         {i \in S : Key(i) = k} \subseteq H
  PROVE  /\ DropAll(count, S)[k] = Cardinality(H \ {i \in S : Key(i) = k})
         /\ DropAll(count, S)[k] <= count[k]
<1>. DEFINE D == {i \in S : Key(i) = k}
<1>1. H \cap D = D /\ D \in SUBSET Slots
  OBVIOUS
<1>2. Cardinality(D) \in Nat
  BY <1>1, SlotsFinite
<1>3. /\ Cardinality(H \ D) = Cardinality(H) - Cardinality(H \cap D)
      /\ IsFiniteSet(H \ D)
  BY FS_Difference, Zenon
<1>4. Cardinality(H \ D) \in Nat
  BY <1>3, FS_CardinalityType
<1>5. DropAll(count, S)[k] = IF count[k] > Cardinality(D) THEN count[k] - Cardinality(D) ELSE 0
  BY Zenon DEF DropAll
<1>6. count[k] \in Nat
  OBVIOUS
<1>7. Cardinality(H \ D) = Cardinality(H) - Cardinality(D)
  BY <1>1, <1>3
<1>. HIDE DEF D
<1>8. /\ DropAll(count, S)[k] = Cardinality(H \ D)
      /\ DropAll(count, S)[k] <= count[k]
  BY <1>2, <1>4, <1>5, <1>6, <1>7
<1>. QED  BY <1>8 DEF D

LEMMA DropAllLess ==
  ASSUME NEW count \in [Keys -> Nat], NEW S \in SUBSET Slots, NEW k \in Keys
  PROVE  DropAll(count, S)[k] <= count[k]
<1>. DEFINE n == Cardinality({i \in S : Key(i) = k})
<1>1. n \in Nat
  BY SlotsFinite
<1>2. DropAll(count, S)[k] = IF count[k] > n THEN count[k] - n ELSE 0
  BY Zenon DEF DropAll
<1>3. count[k] \in Nat
  OBVIOUS
<1>. HIDE DEF n
<1>. QED  BY <1>1, <1>2, <1>3

(* What stays mapped when counts become less. *)
Positive(wc, rc) == {k \in Keys : wc[k] + rc[k] > 0}

LEMMA Mapping ==
  ASSUME NEW wc0 \in [Keys -> Nat], NEW rc0 \in [Keys -> Nat],
         NEW wc \in [Keys -> Nat], NEW rc \in [Keys -> Nat],
         \A k \in Keys : wc[k] <= wc0[k] /\ rc[k] <= rc0[k]
  PROVE  Positive(wc0, rc0) \ Unmapped(wc0, rc0, wc, rc) = Positive(wc, rc)
<1>1. \A k \in Keys : wc0[k] \in Nat /\ rc0[k] \in Nat /\ wc[k] \in Nat /\ rc[k] \in Nat
  OBVIOUS
<1>2. \A k \in Keys : (wc0[k] + rc0[k] > 0 /\ ~(wc0[k] + rc0[k] > 0 /\ wc[k] + rc[k] = 0))
                        <=> wc[k] + rc[k] > 0
  BY <1>1
<1>. QED  BY <1>2 DEF Unmapped, Positive

LEMMA ExitsCount ==
  ASSUME JInv, NEW c \in Clients, pc[c] # "spin", ExitClient(c), UNCHANGED <<comm, disk>>,
         StepOf(c), pc'[c] = "off"
  PROVE  /\ Accounts'
         /\ /\ Following
            /\ \A d \in Clients \ {c} : expired'[d] = expired[d]
            /\ c \in Readers => \A u \in UnitsOf[c] : u \notin expired'[c]
            => Following'
<1>. DEFINE S == {i \in {i \in users[c] : msg[i].status = "ALLOCATED"} : msg[i].writer}
            R == {i \in {i \in users[c] : msg[i].status = "ALLOCATED"} : ~msg[i].writer}
<1>1. /\ users \in [Clients -> SUBSET Slots] /\ reg \subseteq Clients
      /\ writerCount \in [Keys -> Nat] /\ readerCount \in [Keys -> Nat]
      /\ \A i \in Slots : msg[i] \in PageCommMsg
  BY DEF JInv, IInv, TypeOK
<1>2. /\ \A i \in Slots : msg'[i] = IF i \in users[c] THEN [msg[i] EXCEPT !.status = "RAW"]
                                    ELSE msg[i]
      /\ users' = [users EXCEPT ![c] = {}] /\ reg' = reg \ {c}
      /\ writerCount' = DropAll(writerCount, S) /\ readerCount' = DropAll(readerCount, R)
      /\ addrs' = addrs \ Unmapped(writerCount, readerCount, writerCount', readerCount')
  BY DEF ExitClient
<1>3. S \in SUBSET Slots /\ R \in SUBSET Slots
  BY <1>1
<1>4. \A i \in Slots : /\ i \in users[c] => msg'[i].status = "RAW"
                       /\ i \notin users[c] => msg'[i] = msg[i]
  BY <1>1, <1>2 DEF PageCommMsg
<1>5. \A i \in users[c] : msg[i].status # "REQUESTING"
  BY NotRequesting DEF JInv
<1>6. \A i \in Slots : \A k \in Keys :
        /\ i \in users[c] => ~Holds(i, k)'
        /\ i \notin users[c] => (Holds(i, k)' <=> Holds(i, k))
        /\ i \in users[c] /\ Holds(i, k) => msg[i].status = "ALLOCATED" /\ Key(i) = k
        /\ msg[i].status = "ALLOCATED" /\ Key(i) = k => Holds(i, k)
  BY <1>4, <1>5 DEF Holds, Key, ReleasesLast
<1>7. ASSUME NEW k \in Keys
      PROVE  /\ WritersOf(k)' = WritersOf(k) \ {i \in S : Key(i) = k}
             /\ {i \in S : Key(i) = k} \subseteq WritersOf(k)
             /\ ReadersOf(k)' = ReadersOf(k) \ {i \in R : Key(i) = k}
             /\ {i \in R : Key(i) = k} \subseteq ReadersOf(k)
  <2>1. {i \in S : Key(i) = k} \subseteq WritersOf(k) /\
          {i \in R : Key(i) = k} \subseteq ReadersOf(k)
    BY <1>1, <1>6 DEF WritersOf, ReadersOf
  <2>2. WritersOf(k)' = WritersOf(k) \ {i \in S : Key(i) = k}
    BY <1>4, <1>6 DEF WritersOf
  <2>3. ReadersOf(k)' = ReadersOf(k) \ {i \in R : Key(i) = k}
    BY <1>4, <1>6 DEF ReadersOf
  <2>. QED  BY <2>1, <2>2, <2>3
<1>. HIDE DEF S, R
<1>8. WriterCountsAreHolders'
  <2>1. ASSUME NEW k \in Keys PROVE writerCount'[k] = Cardinality(WritersOf(k)')
    <3>1. writerCount[k] = Cardinality(WritersOf(k))
      BY Counting DEF JInv, Accounts
    <3>. QED  BY <1>1, <1>2, <1>3, <1>7, <3>1, HoldersFinite, DropAllCounts
  <2>. QED  BY <2>1, Zenon DEF WriterCountsAreHolders, WritersOf
<1>9. MappedIffCounted'
  <2>1. \A k \in Keys : writerCount'[k] <= writerCount[k] /\ readerCount'[k] <= readerCount[k]
    BY <1>1, <1>2, <1>3, DropAllLess
  <2>2. writerCount' \in [Keys -> Nat] /\ readerCount' \in [Keys -> Nat]
    BY <1>1, <1>2, <1>3, DropAllType
  <2>3. addrs = Positive(writerCount, readerCount)
    BY DEF JInv, Accounts, MappedIffCounted, Positive
  <2>4. addrs' = addrs \ Unmapped(writerCount, readerCount, writerCount', readerCount')
    BY <1>2
  <2>5. writerCount \in [Keys -> Nat] /\ readerCount \in [Keys -> Nat]
    BY <1>1
  <2>6. addrs' = Positive(writerCount', readerCount')
    BY ONLY <2>1, <2>2, <2>3, <2>4, <2>5, Mapping
  <2>. QED  BY ONLY <2>6 DEF MappedIffCounted, Positive
<1>10. SlotsHaveOneOwner'
  <2>1. ASSUME NEW i \in Slots
        PROVE  IF msg'[i].status = "RAW" THEN \A d \in Clients : i \notin users'[d]
               ELSE \E e \in reg' : i \in users'[e]
                                    /\ \A d \in Clients \ {e} : i \notin users'[d]
    <3>1. \A d \in Clients : i \in users'[d] <=> d # c /\ i \in users[d]
      BY <1>1, <1>2
    <3>2. CASE i \in users[c]
      BY <1>4, <3>1, <3>2 DEF JInv, IInv, Exclusion, SlotsSeparate
    <3>3. CASE i \notin users[c]
      BY <1>1, <1>2, <1>4, <3>1, <3>3 DEF JInv, Accounts, SlotsHaveOneOwner
    <3>. QED  BY <3>2, <3>3
  <2>. QED  BY <2>1 DEF SlotsHaveOneOwner
<1>11. Registered'
  BY <1>2 DEF JInv, Accounts, Registered, StepOf, SameClient
<1>12. Occupied'
  BY OtherStands DEF JInv, Accounts, Occupied, StepOf
<1>13. WritersStand'
  <2>1. \A u \in UnitsOf[c] : WriterStands(c, u)'
    BY DEF WriterStands
  <2>. QED  BY <2>1, OtherStands DEF JInv, Accounts, WritersStand, StepOf, Clients
<1>14. ASSUME Following, \A d \in Clients \ {c} : expired'[d] = expired[d],
              c \in Readers => \A u \in UnitsOf[c] : u \notin expired'[c]
       PROVE  Following'
  <2>1. SuccessorReady' /\ inited' \subseteq files'
    BY <1>14, SuccessorStays DEF Following, disk
  <2>2. \A d \in Clients : pc'[d] = "loaded" => d \in Writers /\ GoalKey(d)' \in inited'
    BY <1>14 DEF Following, StepOf, SameClient, GoalKey, disk
  <2>3. ReadersInOrder'
    <3>1. c \in Readers => \A u \in UnitsOf[c] : ReaderInOrder(c, u)'
      BY <1>14 DEF ReaderInOrder
    <3>2. inited' = inited
      BY DEF disk
    <3>. QED  BY <1>14, <3>1, <3>2, OtherReads
                 DEF JInv, Following, ReadersInOrder, StepOf, Clients
  <2>4. ReaderCountsAreHolders'
    <3>1. ASSUME NEW k \in Keys PROVE readerCount'[k] = Cardinality(ReadersOf(k)')
      <4>1. readerCount[k] = Cardinality(ReadersOf(k))
        BY <1>14, Counting DEF Following
      <4>. QED  BY <1>1, <1>2, <1>3, <1>7, <4>1, HoldersFinite, DropAllCounts
    <3>. QED  BY <3>1, Zenon DEF ReaderCountsAreHolders, ReadersOf
  <2>. QED  BY <2>1, <2>2, <2>3, <2>4 DEF Following
<1>. QED  BY <1>8, <1>9, <1>10, <1>11, <1>12, <1>13, <1>14 DEF Accounts

LEMMA PidCounts ==
  ASSUME JInv, NEW c \in Clients, PidCheck(c)
  PROVE  Accounts' /\ (Following => Following')
<1>1. /\ pc[c] = "dead" /\ ExitClient(c)
      /\ UNCHANGED <<comm, disk, op, svc, cur, expired, goal>>
      /\ pc'[c] = "off" /\ \A d \in Clients \ {c} : pc'[d] = pc[d]
  BY DEF PidCheck, JInv, IInv, TypeOK
<1>2. \A u \in Units : svc[c][u] = NoSlot
  BY <1>1 DEF JInv, IInv, Exclusion, ClientsInOrder, ClientInOrder
<1>3. StepOf(c)
  BY <1>1, <1>2, Exits DEF JInv
<1>4. Following => (c \in Readers => \A u \in UnitsOf[c] : u \notin expired'[c])
  BY <1>1 DEF Following, ReadersInOrder, ReaderInOrder, Before
<1>. QED  BY <1>1, <1>3, <1>4, ExitsCount

LEMMA ExitCounts ==
  ASSUME JInv, NEW c \in Clients, Exit(c)
  PROVE  Accounts' /\ (Following => Following')
<1>1. /\ pc[c] # "spin" /\ ExitClient(c) /\ UNCHANGED <<comm, disk>>
      /\ svc' = [svc EXCEPT ![c] = [u \in Units |-> NoSlot]]
      /\ pc'[c] = "off" /\ expired'[c] = {}
      /\ \A d \in Clients \ {c} : pc'[d] = pc[d] /\ op'[d] = op[d] /\ cur'[d] = cur[d]
                                  /\ goal'[d] = goal[d] /\ expired'[d] = expired[d]
  BY DEF Exit, Forget, JInv, IInv, TypeOK
<1>2. StepOf(c)
  BY <1>1, Exits DEF JInv
<1>. QED  BY <1>1, <1>2, ExitsCount

-----------------------------------------------------------------------------
(* The engine's other steps. *)

LEMMA PollCounts ==
  ASSUME JInv, CommPoll
  PROVE  Accounts' /\ (Following => Following')
<1>1. UNCHANGED <<msg, server, disk, local>>
  BY DEF CommPoll
<1>2. Accounts'
  BY <1>1 DEF JInv, Accounts, Registered, Occupied, WritersStand, WriterStands,
              SlotsHaveOneOwner, MappedIffCounted, WriterCountsAreHolders, Holds, Key,
              ReleasesLast, server, local
<1>3. Following => Following'
  BY <1>1 DEF Following, SuccessorReady, ReadersInOrder, ReaderInOrder, Follows, GoalKey,
              ReaderCountsAreHolders, Holds, Key, ReleasesLast, server, disk, local
<1>. QED  BY <1>2, <1>3

LEMMA TempCounts ==
  ASSUME JInv, TempCheck
  PROVE  Accounts' /\ (Following => Following')
<1>1. UNCHANGED <<msg, reg, users, writerCount, readerCount, addrs, disk, local>>
  BY DEF TempCheck
<1>2. Accounts'
  BY <1>1 DEF JInv, Accounts, Registered, Occupied, WritersStand, WriterStands,
              SlotsHaveOneOwner, MappedIffCounted, WriterCountsAreHolders, Holds, Key,
              ReleasesLast, local
<1>3. Following => Following'
  BY <1>1 DEF Following, SuccessorReady, ReadersInOrder, ReaderInOrder, Follows, GoalKey,
              ReaderCountsAreHolders, Holds, Key, ReleasesLast, disk, local
<1>. QED  BY <1>2, <1>3

(* One of those that hold a page gives it back. *)
LEMMA ReleaseCounts ==
  ASSUME NEW count \in [Keys -> Nat], NEW i, NEW key \in Keys,
         NEW H, IsFiniteSet(H), count[key] = Cardinality(H), i \in H
  PROVE  Drop(count, key)[key] = Cardinality(H \ {i})
<1>1. IsFiniteSet(H \ {i}) /\ Cardinality(H \ {i}) = Cardinality(H) - 1
  BY FS_RemoveElement
<1>2. Cardinality(H \ {i}) \in Nat /\ count[key] \in Nat
  BY <1>1, FS_CardinalityType
<1>3. Drop(count, key)[key] = IF count[key] > 0 THEN count[key] - 1 ELSE 0
  BY DEF Drop
<1>. QED  BY <1>1, <1>2, <1>3

LEMMA DropOther ==
  ASSUME NEW count \in [Keys -> Nat], NEW key \in Keys, NEW x \in Keys, x # key
  PROVE  Drop(count, key)[x] = count[x]
BY DEF Drop

LEMMA DropLess ==
  ASSUME NEW count \in [Keys -> Nat], NEW key \in Keys, NEW x \in Keys
  PROVE  Drop(count, key)[x] <= count[x]
BY DEF Drop

(* The counts after an answer with status s to slot i of a writer, or of a *)
(* reader, for page k.                                                     *)
LEMMA AddCounts ==
  ASSUME NEW H, IsFiniteSet(H), NEW i, i \notin H, NEW P \in BOOLEAN, NEW n, n = Cardinality(H)
  PROVE  Cardinality(H \cup (IF P THEN {i} ELSE {})) = IF P THEN n + 1 ELSE n
<1>1. CASE P
  BY <1>1, FS_AddElement
<1>2. CASE ~P
  <2>1. H \cup {} = H
    OBVIOUS
  <2>. QED  BY <1>2, <2>1
<1>. QED  BY <1>1, <1>2

LEMMA ServeCounts ==
  ASSUME JInv, CommServe
  PROVE  Accounts' /\ (Following => Following')
<1>0. PICK i \in Slots : i = commIdx
  BY DEF JInv, IInv, TypeOK
<1>. DEFINE old == <<msg[i].unit, msg[i].last>>
            w == msg[i].writer
            relw == ReleasesLast(i) /\ w
            relr == ReleasesLast(i) /\ ~w
            wc == IF relw THEN Drop(writerCount, old) ELSE writerCount
            rc == IF relr THEN Drop(readerCount, old) ELSE readerCount
            ad == addrs \ Unmapped(writerCount, readerCount, wc, rc)
            k == Key(i)
<1>1. i \in Slots /\ msg[i].status = "REQUESTING" /\ msg[i] \in PageCommMsg
      /\ k \in Keys /\ old \in Keys /\ w \in BOOLEAN
      /\ writerCount \in [Keys -> Nat] /\ readerCount \in [Keys -> Nat]
  BY <1>0, KeyType DEF JInv, IInv, TypeOK, Exclusion, RequestsWaited, CommServe, PageCommMsg
<1>2. InitiatePage(i, wc, rc, ad) /\ UNCHANGED <<reg, users, inited, tail, local>>
  BY <1>0, Zenon DEF CommServe
<1>3. wc \in [Keys -> Nat] /\ rc \in [Keys -> Nat]
  BY <1>1, DropType
<1>4. \A x \in Keys : wc[x] <= writerCount[x] /\ rc[x] <= readerCount[x]
  BY <1>1, DropLess
<1>5. ad = {x \in Keys : wc[x] + rc[x] > 0}
  <2>1. addrs = Positive(writerCount, readerCount)
    BY DEF JInv, Accounts, MappedIffCounted, Positive
  <2>. HIDE DEF wc, rc
  <2>2. ad = Positive(wc, rc)
    BY ONLY <1>1, <1>3, <1>4, <2>1, Mapping
  <2>. QED  BY <2>2 DEF Positive
<1>6. \A x \in Keys : /\ i \in WritersOf(x) <=> relw /\ x = old
                      /\ i \in ReadersOf(x) <=> relr /\ x = old
  BY <1>1 DEF WritersOf, ReadersOf, Holds
<1>7. ASSUME NEW x \in Keys PROVE wc[x] = Cardinality(WritersOf(x) \ {i})
  <2>. DEFINE H == WritersOf(x)
  <2>1. writerCount[x] = Cardinality(H) /\ IsFiniteSet(H)
    BY Counting, HoldersFinite DEF JInv, Accounts
  <2>2. i \in H <=> relw /\ x = old
    BY <1>6
  <2>0. old \in Keys /\ writerCount \in [Keys -> Nat]
    BY <1>1
  <2>. HIDE DEF relw, old, H, w, k
  <2>3. i \notin H => H \ {i} = H
    OBVIOUS
  <2>4. CASE relw
    <3>1. CASE x = old
      <4>1. Drop(writerCount, old)[old] = Cardinality(H \ {i})
        BY <2>0, <2>1, <2>2, <2>4, <3>1, ReleaseCounts
      <4>. QED  BY <2>4, <3>1, <4>1 DEF H
    <3>2. CASE x # old
      <4>1. Drop(writerCount, old)[x] = Cardinality(H \ {i})
        BY <2>0, <2>1, <2>2, <2>3, <3>2, DropOther
      <4>. QED  BY <2>4, <4>1 DEF H
    <3>. QED  BY <3>1, <3>2
  <2>5. CASE ~relw
    BY <2>1, <2>2, <2>3, <2>5 DEF H
  <2>. QED  BY <2>4, <2>5
<1>8. ASSUME Following, NEW x \in Keys PROVE rc[x] = Cardinality(ReadersOf(x) \ {i})
  <2>. DEFINE H == ReadersOf(x)
  <2>1. readerCount[x] = Cardinality(H) /\ IsFiniteSet(H)
    BY <1>8, Counting, HoldersFinite DEF Following
  <2>2. i \in H <=> relr /\ x = old
    BY <1>6
  <2>0. old \in Keys /\ readerCount \in [Keys -> Nat]
    BY <1>1
  <2>. HIDE DEF relr, old, H, w, k
  <2>3. i \notin H => H \ {i} = H
    OBVIOUS
  <2>4. CASE relr
    <3>1. CASE x = old
      <4>1. Drop(readerCount, old)[old] = Cardinality(H \ {i})
        BY <2>0, <2>1, <2>2, <2>4, <3>1, ReleaseCounts
      <4>. QED  BY <2>4, <3>1, <4>1 DEF H
    <3>2. CASE x # old
      <4>1. Drop(readerCount, old)[x] = Cardinality(H \ {i})
        BY <2>0, <2>1, <2>2, <2>3, <3>2, DropOther
      <4>. QED  BY <2>4, <4>1 DEF H
    <3>. QED  BY <3>1, <3>2
  <2>5. CASE ~relr
    BY <2>1, <2>2, <2>3, <2>5 DEF H
  <2>. QED  BY <2>4, <2>5
<1>. HIDE DEF wc, rc, ad
<1>9. PICK s \in Failures \cup {"ALLOCATED"} :
        /\ msg' = [msg EXCEPT ![i] = [msg[i] EXCEPT !.status = s, !.last = msg[i].page]]
        /\ files \subseteq files'
        /\ writerCount' = IF s = "ALLOCATED" /\ w THEN [wc EXCEPT ![k] = 1] ELSE wc
        /\ readerCount' = IF s = "ALLOCATED" /\ ~w THEN [rc EXCEPT ![k] = rc[k] + 1] ELSE rc
        /\ s = "ALLOCATED" => addrs' = ad \cup {k}
        /\ s # "ALLOCATED" => addrs' = ad \/ (addrs' = ad \cup {k} /\ wc[k] # 0)
        /\ s = "ALLOCATED" /\ w => wc[k] = 0
        /\ s = "NON_EXIST" => ~w /\ k \notin files
        /\ s = "CANNOT_RENAME" => w /\ RenameMayFail
        /\ s = "MORE_THAN_ONE_WRITER" => w
  BY <1>2 DEF InitiatePage, Failures, k
<1>10. /\ msg'[i].status = s /\ msg'[i].last = msg[i].page /\ msg'[i].page = msg[i].page
       /\ msg'[i].unit = msg[i].unit /\ msg'[i].writer = msg[i].writer
       /\ \A j \in Slots \ {i} : msg'[j] = msg[j]
       /\ s \notin {"REQUESTING", "RAW"}
  BY <1>1, <1>9 DEF JInv, IInv, TypeOK, PageCommMsg, Failures
<1>11. \A x \in Keys :
         /\ \A j \in Slots \ {i} : Holds(j, x)' <=> Holds(j, x)
         /\ Holds(i, x)' <=> s = "ALLOCATED" /\ x = k
  BY <1>10 DEF Holds, Key, ReleasesLast
<1>12. ASSUME NEW x \in Keys
       PROVE  /\ WritersOf(x)' = (WritersOf(x) \ {i})
                                   \cup (IF s = "ALLOCATED" /\ w /\ x = k THEN {i} ELSE {})
              /\ ReadersOf(x)' = (ReadersOf(x) \ {i})
                                   \cup (IF s = "ALLOCATED" /\ ~w /\ x = k THEN {i} ELSE {})
  <2>1. \A j \in Slots : j \in WritersOf(x)' <=>
          (j # i /\ j \in WritersOf(x)) \/ (j = i /\ s = "ALLOCATED" /\ w /\ x = k)
    BY <1>10, <1>11 DEF WritersOf
  <2>2. \A j \in Slots : j \in ReadersOf(x)' <=>
          (j # i /\ j \in ReadersOf(x)) \/ (j = i /\ s = "ALLOCATED" /\ ~w /\ x = k)
    BY <1>10, <1>11 DEF ReadersOf
  <2>3. /\ WritersOf(x)' \subseteq Slots /\ WritersOf(x) \subseteq Slots
        /\ ReadersOf(x)' \subseteq Slots /\ ReadersOf(x) \subseteq Slots
    BY DEF WritersOf, ReadersOf
  <2>. HIDE DEF k, w
  <2>. QED  BY <2>1, <2>2, <2>3
<1>. HIDE DEF k, w, old
<1>13. \A x \in Keys : /\ IsFiniteSet(WritersOf(x) \ {i}) /\ IsFiniteSet(ReadersOf(x) \ {i})
                       /\ wc[x] \in Nat /\ rc[x] \in Nat
  BY <1>3, HoldersFinite, FS_RemoveElement
<1>14. WriterCountsAreHolders'
  <2>1. ASSUME NEW x \in Keys PROVE writerCount'[x] = Cardinality(WritersOf(x)')
    <3>. DEFINE P == s = "ALLOCATED" /\ w /\ x = k
    <3>1. P \in BOOLEAN /\ i \notin WritersOf(x) \ {i}
      BY <1>1
    <3>2. writerCount'[x] = IF P THEN wc[x] + 1 ELSE wc[x]
      BY <1>1, <1>3, <1>9, <1>13
    <3>. HIDE DEF P
    <3>3. Cardinality((WritersOf(x) \ {i}) \cup (IF P THEN {i} ELSE {}))
            = IF P THEN wc[x] + 1 ELSE wc[x]
      <4>. DEFINE H == WritersOf(x) \ {i}
      <4>1. IsFiniteSet(H) /\ i \notin H /\ wc[x] = Cardinality(H)
        BY <1>7, <1>13, <3>1
      <4>. HIDE DEF H
      <4>2. Cardinality(H \cup (IF P THEN {i} ELSE {})) = IF P THEN wc[x] + 1 ELSE wc[x]
        BY <3>1, <4>1, AddCounts
      <4>. QED  BY <4>2 DEF H
    <3>. QED  BY <1>12, <3>2, <3>3 DEF P
  <2>. QED  BY <2>1, Zenon DEF WriterCountsAreHolders, WritersOf
<1>15. Following => ReaderCountsAreHolders'
  <2>1. ASSUME Following, NEW x \in Keys PROVE readerCount'[x] = Cardinality(ReadersOf(x)')
    <3>. DEFINE P == s = "ALLOCATED" /\ ~w /\ x = k
    <3>1. P \in BOOLEAN /\ i \notin ReadersOf(x) \ {i}
      BY <1>1
    <3>2. readerCount'[x] = IF P THEN rc[x] + 1 ELSE rc[x]
      BY <1>1, <1>3, <1>9, <1>13
    <3>. HIDE DEF P
    <3>3. Cardinality((ReadersOf(x) \ {i}) \cup (IF P THEN {i} ELSE {}))
            = IF P THEN rc[x] + 1 ELSE rc[x]
      <4>. DEFINE H == ReadersOf(x) \ {i}
      <4>1. IsFiniteSet(H) /\ i \notin H /\ rc[x] = Cardinality(H)
        BY <1>8, <1>13, <2>1, <3>1
      <4>. HIDE DEF H
      <4>2. Cardinality(H \cup (IF P THEN {i} ELSE {})) = IF P THEN rc[x] + 1 ELSE rc[x]
        BY <3>1, <4>1, AddCounts
      <4>. QED  BY <4>2 DEF H
    <3>. QED  BY <1>12, <3>2, <3>3 DEF P
  <2>. QED  BY <2>1, Zenon DEF ReaderCountsAreHolders, ReadersOf
<1>16. MappedIffCounted'
  <2>1. \A x \in Keys : x \in addrs' <=> writerCount'[x] + readerCount'[x] > 0
    <3>1. CASE s = "ALLOCATED" /\ w
      BY <1>1, <1>3, <1>5, <1>9, <1>13, <3>1
    <3>2. CASE s = "ALLOCATED" /\ ~w
      BY <1>1, <1>3, <1>5, <1>9, <1>13, <3>2
    <3>3. CASE s # "ALLOCATED"
      BY <1>1, <1>3, <1>5, <1>9, <1>13, <3>3
    <3>. QED  BY <1>1, <3>1, <3>2, <3>3
  <2>2. addrs' \subseteq Keys
    BY <1>1, <1>5, <1>9
  <2>. QED  BY <2>1, <2>2 DEF MappedIffCounted
<1>17. SlotsHaveOneOwner'
  BY <1>1, <1>2, <1>10, OwnersStay DEF JInv, Accounts
<1>18. Registered'
  BY <1>2 DEF JInv, Accounts, Registered, local
<1>19. UNCHANGED <<pc, op, svc, cur, expired, goal>>
  BY <1>2 DEF local
<1>20. Occupied'
  <2>1. ASSUME NEW d \in Clients, pc[d] \in {"occupied", "filling"}
        PROVE  msg'[svc[d][op[d]]].status = "OCCUPIED"
    <3>1. op[d] \in Units /\ svc[d][op[d]] # NoSlot
      BY <2>1, ClientAssumption
         DEF JInv, IInv, Exclusion, ClientsInOrder, ClientInOrder, InOperation
    <3>2. svc[d][op[d]] \in Slots /\ msg[svc[d][op[d]]].status = "OCCUPIED"
      BY <2>1, <3>1 DEF JInv, IInv, TypeOK, Accounts, Occupied
    <3>. QED  BY <1>1, <1>10, <3>2
  <2>. QED  BY <1>19, <2>1 DEF Occupied
<1>21. PICK c \in Clients : pc[c] = "spin" /\ svc[c][op[c]] = i
  BY <1>1 DEF JInv, IInv, Exclusion, RequestsWaited
<1>22. /\ op[c] \in UnitsOf[c] /\ op[c] \in Units /\ ClientInOrder(c) /\ Filled(c, op[c])
       /\ i \in users[c] /\ (w <=> c \in Writers)
       /\ c \in Writers => UnitsOf[c] = {op[c]}
       /\ \A d \in Clients \ {c} : i \notin users[d]
  <2>1. i \in users[c]
    BY <1>21, Spinning
  <2>. QED  BY <1>21, <2>1, Spinning DEF Filled, w, JInv, IInv, Exclusion, SlotsSeparate
<1>23. \A d \in Clients : SameClient(d) /\ (d # c => \A j \in users[d] : msg'[j] = msg[j])
  BY <1>2, <1>10, <1>19, <1>22 DEF SameClient, JInv, IInv, TypeOK
<1>24. WritersStand'
  <2>1. ASSUME c \in Writers, NEW u \in UnitsOf[c] PROVE WriterStands(c, u)'
    <3>1. u = op[c]
      BY <1>22, <2>1
    <3>. QED  BY <1>9, <1>10, <1>19, <1>21, <1>22, <2>1, <3>1 DEF WriterStands, Failures
  <2>2. \A d \in Writers \ {c} : \A u \in UnitsOf[d] : WriterStands(d, u)'
    BY <1>23, OtherStands DEF JInv, Accounts, Clients
  <2>. QED  BY <1>22, <2>1, <2>2 DEF WritersStand
<1>25. Accounts'
  BY <1>14, <1>16, <1>17, <1>18, <1>20, <1>24 DEF Accounts
<1>26. ASSUME Following PROVE Following'
  <2>1. SuccessorReady' /\ inited' = inited /\ inited \subseteq files'
    BY <1>2, <1>9, <1>26, SuccessorStays DEF Following
  <2>2. \A d \in Clients : pc'[d] = "loaded" => d \in Writers /\ GoalKey(d)' \in inited'
    BY <1>19, <1>26, <2>1 DEF Following, GoalKey
  <2>3. ASSUME c \in Readers, NEW u \in UnitsOf[c] PROVE ReaderInOrder(c, u)'
    <3>1. /\ ReaderInOrder(c, u) /\ ReaderInOrder(c, op[c]) /\ u \in Units
          /\ c \notin Writers /\ ~w
      BY <1>22, <1>26, <2>3, ClientAssumption DEF Following, ReadersInOrder
    <3>2. CASE u = op[c]
      <4>1. k = GoalKey(c)
        BY <1>21, <1>22, <3>1 DEF ReaderInOrder, GoalKey, Key, k, Filled
      <4>2. cur[c][u] \in -1 .. MaxPage /\ cur[c][u] # 0
        BY <1>21, <3>1, <3>2 DEF ReaderInOrder, JInv, IInv, TypeOK
      <4>3. cur[c][u] > 0 => k \in files
        BY <1>21, <1>26, <3>1, <3>2, <4>1 DEF ReaderInOrder, Follows, GoalKey, Following
      <4>4. s \in {"ALLOCATED", "NON_EXIST"} /\ (s = "NON_EXIST" => cur[c][u] = -1)
        BY <1>9, <3>1, <4>2, <4>3 DEF Failures
      <4>. QED  BY <1>10, <1>19, <1>21, <2>1, <3>1, <3>2, <4>4
                DEF ReaderInOrder, Follows, Before
    <3>3. CASE u # op[c]
      <4>1. svc[c][u] # i /\ svc[c][u] \in Slots
        <5>1. Filled(c, u)
          BY <1>21, <1>22, <2>3 DEF ClientInOrder, Opened
        <5>. QED  BY <1>21, <1>22, <3>1, <3>3, <5>1
                  DEF Filled, JInv, IInv, Exclusion, SlotsSeparate, Slots, NoSlot
      <4>. QED  BY <1>10, <1>19, <1>21, <3>1, <3>3, <4>1 DEF ReaderInOrder, Before
    <3>. QED  BY <3>2, <3>3
  <2>4. \A d \in Readers \ {c} : \A u \in UnitsOf[d] : ReaderInOrder(d, u)'
    BY <1>19, <1>23, <1>26, <2>1, OtherReads DEF JInv, Following, Clients
  <2>5. ReadersInOrder'
    BY <2>3, <2>4 DEF ReadersInOrder
  <2>. QED  BY <1>15, <1>26, <2>1, <2>2, <2>5 DEF Following
<1>. QED  BY <1>25, <1>26

-----------------------------------------------------------------------------
(* The theorems. *)

LEMMA InitCounts == Init => FInv
<1>. SUFFICES ASSUME Init PROVE Accounts /\ Following
  BY InitExclusion DEF FInv, JInv
<1>1. \A i \in Slots : \A k \in Keys : ~Holds(i, k)
  BY DEF Init, Holds
<1>2. \A k \in Keys : WritersOf(k) = {} /\ ReadersOf(k) = {}
  BY <1>1 DEF WritersOf, ReadersOf
<1>3. WriterCountsAreHolders /\ ReaderCountsAreHolders
  <2>1. \A k \in Keys : writerCount[k] = 0 /\ readerCount[k] = 0
    BY DEF Init
  <2>2. \A k \in Keys : /\ writerCount[k] = Cardinality(WritersOf(k))
                        /\ readerCount[k] = Cardinality(ReadersOf(k))
    BY <1>2, <2>1, FS_EmptySet
  <2>. QED  BY <2>2, Counting
<1>4. MappedIffCounted
  BY DEF Init, MappedIffCounted
<1>5. SlotsHaveOneOwner
  BY DEF Init, SlotsHaveOneOwner
<1>6. Registered /\ Occupied /\ WritersStand
  BY DEF Init, Registered, Occupied, WritersStand, WriterStands, Clients
<1>7. SuccessorReady
  <2>1. \A u \in Units : \A n \in Pages : <<u, n>> \in Keys
    BY BoundAssumption DEF Keys, Pages
  <2>. QED  BY <2>1 DEF Init, SuccessorReady
<1>8. ReadersInOrder
  BY DEF Init, ReadersInOrder, ReaderInOrder, Clients
<1>9. inited \subseteq files /\ \A c \in Clients : pc[c] # "loaded"
  BY DEF Init
<1>. QED  BY <1>3, <1>4, <1>5, <1>6, <1>7, <1>8, <1>9 DEF Accounts, Following

LEMMA NextCounts ==
  ASSUME JInv, Next
  PROVE  Accounts' /\ (Following /\ ~RenameMayFail => Following')
<1>1. ASSUME EngineStep PROVE Accounts' /\ (Following => Following')
  BY <1>1, PollCounts, ServeCounts, TempCounts, PidCounts DEF EngineStep
<1>2. ASSUME NEW c \in Clients, ClientStep(c)
      PROVE  Accounts' /\ (Following /\ ~RenameMayFail => Following')
  BY <1>2, CheckCounts, FillSlotCounts, RequestCounts, ReaderLoadCounts,
     WriterLoadCounts, FinishCounts, RefusedCounts, LosesCounts DEF ClientStep
<1>3. ASSUME NEW c \in Clients, UserStep(c) PROVE Accounts' /\ (Following => Following')
  BY <1>3, RegClientCounts, RegUnitCounts, SeekCounts, NextPageCounts, FillCounts,
     RetryCounts, ExitCounts, DieCounts DEF UserStep
<1>. QED  BY <1>1, <1>2, <1>3 DEF Next

LEMMA StillCounts ==
  ASSUME UNCHANGED vars
  PROVE  (Accounts => Accounts') /\ (Following => Following')
<1>. USE DEF vars, server, comm, disk, local
<1>1. Accounts => Accounts'
  BY DEF Accounts, Registered, Occupied, WritersStand, WriterStands,
         SlotsHaveOneOwner, MappedIffCounted, WriterCountsAreHolders, Holds, Key, ReleasesLast
<1>2. Following => Following'
  BY DEF Following, SuccessorReady, ReadersInOrder, ReaderInOrder, Follows, GoalKey,
         ReaderCountsAreHolders, Holds, Key, ReleasesLast
<1>. QED  BY <1>1, <1>2

LEMMA StepAccounts ==
  ASSUME "spin" \notin MayDie
  PROVE  JInv /\ [Next]_vars => JInv'
BY StepExclusion, NextCounts, StillCounts DEF JInv

LEMMA StepFollowing ==
  ASSUME "spin" \notin MayDie, ~RenameMayFail
  PROVE  FInv /\ [Next]_vars => FInv'
BY StepAccounts, NextCounts, StillCounts DEF FInv, JInv

(* A slot in use belongs to one client and no slot is lost (RegUnit,       *)
(* ExitClient), if no client is killed while it waits in GetPage: whatever *)
(* fails, and wherever else clients are killed.                            *)
THEOREM SlotsAreOwned ==
  ASSUME "spin" \notin MayDie
  PROVE  Spec => []SlotsHaveOneOwner
<1>1. JInv => SlotsHaveOneOwner
  BY DEF JInv, Accounts
<1>2. Init => JInv
  BY InitCounts DEF FInv
<1>. QED  BY <1>1, <1>2, StepAccounts, PTL DEF Spec

(* PageEngine counts exactly the writers that hold a page (GetPage,        *)
(* ReleasePage), under the same condition.                                 *)
THEOREM WritersAreCounted ==
  ASSUME "spin" \notin MayDie
  PROVE  Spec => []WriterCountsAreHolders
<1>1. JInv => WriterCountsAreHolders
  BY DEF JInv, Accounts
<1>2. Init => JInv
  BY InitCounts DEF FInv
<1>. QED  BY <1>1, <1>2, StepAccounts, PTL DEF Spec

(* A page is unmapped exactly when its last user has given it back         *)
(* (ReleasePage), under the same condition.                                *)
THEOREM MappedAreUsed ==
  ASSUME "spin" \notin MayDie
  PROVE  Spec => []MappedIffCounted
<1>1. JInv => MappedIffCounted
  BY DEF JInv, Accounts
<1>2. Init => JInv
  BY InitCounts DEF FInv
<1>. QED  BY <1>1, <1>2, StepAccounts, PTL DEF Spec

(* The readers of a page are those that are counted, if rename does not    *)
(* fail either: one that is refused a page would give back, with its next  *)
(* request, a use of that page that another reader has.                    *)
THEOREM ReadersAreCounted ==
  ASSUME "spin" \notin MayDie, ~RenameMayFail
  PROVE  Spec => []ReaderCountsAreHolders
<1>1. FInv => ReaderCountsAreHolders
  BY DEF FInv, Following
<1>. QED  BY <1>1, InitCounts, StepFollowing, PTL DEF Spec

(* A page is at its end only when the next one can be read (FinishPage).   *)
THEOREM PagesGoOn ==
  ASSUME "spin" \notin MayDie, ~RenameMayFail
  PROVE  Spec => []SuccessorReady
<1>1. FInv => SuccessorReady
  BY DEF FInv, Following
<1>. QED  BY <1>1, InitCounts, StepFollowing, PTL DEF Spec

(* Only ReaderLoad changes a reader's page, while it is alive. *)
LEMMA GoesForward ==
  ASSUME FInv, Next, NEW c \in Readers, NEW u \in Units, cur[c][u] > 0, Alive(c)'
  PROVE  cur'[c][u] >= cur[c][u]
<1>1. c \in Clients /\ c \notin Writers /\ cur[c][u] \in Int /\
        cur \in [Clients -> [Units -> -1 .. MaxPage]]
  BY ClientAssumption, BoundAssumption DEF Clients, FInv, JInv, IInv, TypeOK
<1>2. CASE cur'[c] = cur[c]
  BY <1>1, <1>2
<1>3. CASE ReaderLoad(c)
  <2>1. pc[c] = "spin" /\ op[c] \in UnitsOf[c] /\ op[c] \in Units
    BY <1>1, <1>3, Spinning DEF ReaderLoad, Answered, FInv
  <2>2. CASE u # op[c]
    BY <1>1, <1>2, <1>3, <2>1, <2>2 DEF ReaderLoad
  <2>3. CASE u = op[c]
    <3>1. ReaderInOrder(c, u)
      BY <2>1, <2>3 DEF FInv, Following, ReadersInOrder
    <3>2. /\ msg[svc[c][op[c]]].status \in {"REQUESTING", "ALLOCATED"}
          /\ GoalKey(c) \in inited /\ goal[c] = cur[c][u] + 1
      BY <1>1, <2>1, <2>3, <3>1 DEF ReaderInOrder, Follows, GoalKey
    <3>3. cur'[c][u] = goal[c]
      BY <1>1, <1>3, <2>3, <3>2 DEF ReaderLoad, Answered
    <3>. QED  BY <1>1, <3>2, <3>3
  <2>. QED  BY <2>2, <2>3
<1>4. ASSUME NEW d \in Clients, d # c, ClientStep(d) \/ UserStep(d) PROVE cur'[c] = cur[c]
  <2>1. ASSUME NEW l, Forget(d, l) PROVE cur'[c] = cur[c]
    BY <1>1, <1>4, <2>1 DEF Forget
  <2>2. CASE ClientStep(d)
    BY <1>1, <1>4, <2>1, <2>2
       DEF ClientStep, CheckSlot, FillSlot, Request, ReaderLoad, WriterLoad, FinishPage,
         Refused,
           WriterLosesPage
  <2>3. CASE UserStep(d)
    BY <1>1, <1>4, <2>1, <2>3
       DEF UserStep, RegClient, RegUnit, SeekTime, LoadNextPage, Choose, FillPage, Retry,
         Exit, Die,
           local
  <2>. QED  BY <1>4, <2>2, <2>3
<1>5. ASSUME ClientStep(c) PROVE ReaderLoad(c) \/ cur'[c] = cur[c]
  <2>1. ~FinishPage(c)
    BY <1>1 DEF FinishPage, FInv, Following
  <2>. QED  BY <1>1, <1>5, <2>1
            DEF ClientStep, CheckSlot, FillSlot, Request, WriterLoad, Refused, WriterLosesPage
<1>6. ASSUME UserStep(c) PROVE cur'[c] = cur[c]
  <2>1. ~Exit(c) /\ ~Die(c)
    BY <1>1 DEF Exit, Die, Forget, Alive, FInv, JInv, IInv, TypeOK
  <2>. QED  BY <1>1, <1>6, <2>1
            DEF UserStep, RegClient, RegUnit, SeekTime, LoadNextPage, Choose, FillPage,
              Retry, local
<1>7. ASSUME EngineStep PROVE cur'[c] = cur[c]
  BY <1>7 DEF EngineStep, CommPoll, CommServe, TempCheck, PidCheck, local
<1>. QED  BY <1>2, <1>3, <1>4, <1>5, <1>6, <1>7 DEF Next

(* UnitReader: no reader ever goes back to an earlier page of its unit.    *)
THEOREM ReadersGoForward ==
  ASSUME "spin" \notin MayDie, ~RenameMayFail
  PROVE  Spec => NoRewind
<1>. DEFINE Forward == \A c \in Readers : \A u \in Units :
                         cur[c][u] > 0 /\ Alive(c)' => cur'[c][u] >= cur[c][u]
<1>1. FInv /\ [Next]_vars => [Forward]_vars
  BY GoesForward
<1>2. NoRewind <=> [][Forward]_vars
  BY DEF NoRewind
<1>. HIDE DEF Forward
<1>. QED  BY <1>1, <1>2, InitCounts, StepFollowing, PTL DEF Spec
=============================================================================
