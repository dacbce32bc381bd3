---------------------------- MODULE PageService ----------------------------
(***************************************************************************)
(* The page service (yjj_paged): PageEngine with its communication thread, *)
(* socket thread and task thread, and the clients (UnitReader, UnitWriter) *)
(* that obtain journal pages from it through ClientPageProvider and Unit.  *)
(*                                                                         *)
(* A client registers over the socket, gets one slot of the shared memory  *)
(* buffer per unit it opens, writes a page number into the slot, sets its  *)
(* status to REQUESTING and busy-waits until the communication thread has  *)
(* answered.  Every handler of the engine runs under one mutex and is one  *)
(* action here; the communication thread's test of the status comes before *)
(* it takes the mutex and is an action of its own.  The slots are written  *)
(* by both sides without a lock.                                           *)
(***************************************************************************)
EXTENDS Integers, FiniteSets

CONSTANTS
  Writers,        \* names of the clients that write
  Readers,        \* names of the clients that read
  Revisers,       \* the readers that may change a page (mReviseAllowed)
  Units,          \* the journals (folder and name)
  NoUnit,         \* the zeroed folder and name of a slot never used
  UnitsOf,        \* the units a client opens
  MaxUser,        \* MAX_COMM_USER_NUMBER: the number of slots
  MaxPage,        \* bound: the highest page number of a unit
  MayDie,         \* where in its program a client process may be killed
  RenameMayFail   \* whether rename(TEMP_PAGE, path) may fail

Clients == Writers \cup Readers

(* Where a client process is in its program. *)
Locations == {"off", "named", "occupied", "filling", "ready", "scanned",
              "spin", "loaded", "thrown", "dead"}

ASSUME ClientAssumption ==
  /\ Writers \cap Readers = {} /\ Revisers \subseteq Readers
  /\ NoUnit \notin Units
  /\ UnitsOf \in [Clients -> SUBSET Units]
  /\ \A w \in Writers : \E u \in Units : UnitsOf[w] = {u}
ASSUME BoundAssumption ==
  /\ MaxUser \in Nat \ {0}
  /\ MaxPage \in Nat \ {0}
ASSUME FaultAssumption ==
  /\ MayDie \subseteq Locations \ {"off", "dead"}
  /\ RenameMayFail \in BOOLEAN

Slots == 0 .. MaxUser - 1
NoSlot == -1
Pages == 1 .. MaxPage
Keys == (Units \cup {NoUnit}) \X (0 .. MaxPage)

Failures == {"NON_EXIST", "MORE_THAN_ONE_WRITER", "CANNOT_RENAME"}
Statuses == {"RAW", "OCCUPIED", "HOLDING", "REQUESTING", "ALLOCATED"} \cup Failures

(* PageCommMsg: one slot of the shared buffer. *)
PageCommMsg == [status : Statuses, unit : Units \cup {NoUnit}, writer : BOOLEAN,
                page : 0 .. MaxPage, last : 0 .. MaxPage]

VARIABLES
  \* shared memory
  msg,          \* the slots: status, unit, writer, page, last
  \* PageEngine
  reg,          \* the keys of mClientUnits
  users,        \* UserIndexVec of each registered client
  maxIdx,       \* mMaxIdx
  writerCount,  \* mFileWriterCounts, 0 for a key that is absent
  readerCount,  \* mFileReaderCounts, 0 for a key that is absent
  addrs,        \* mFildAddrs without the temp page
  temp,         \* whether mFildAddrs holds the temp page
  commIdx,      \* the communication thread's index
  commPc,       \* "poll", or "serve" once it saw REQUESTING
  \* the page files
  files,        \* those that exist
  inited,       \* those whose header is INITED
  tail,         \* room left ("open"), none ("full"), PAGE_END written ("end")
  \* the client processes
  pc,           \* location
  op,           \* unit of the operation in progress
  svc,          \* mServiceIdx of each unit
  cur,          \* page number of mCurPage: -1 before SeekTime, 0 for nullptr
  expired,      \* units with mExpired
  goal          \* page number to request

server == <<reg, users, maxIdx, writerCount, readerCount, addrs, temp>>
comm == <<commIdx, commPc>>
disk == <<files, inited, tail>>
local == <<pc, op, svc, cur, expired, goal>>
vars == <<msg, server, comm, disk, local>>

(* Key of mFileWriterCounts, mFileReaderCounts: the slot's unit and page. *)
Key(i) == <<msg[i].unit, msg[i].page>>

Alive(c) == pc[c] \notin {"off", "dead"}

(***************************************************************************)
(* PageEngine                                                              *)
(***************************************************************************)

(* Mutant of Drop: the count is left as it is. *)
DropNothing(count, k) == count

(* One ReleasePage: a key that is absent stays absent. *)
Drop(count, k) == [count EXCEPT ![k] = IF @ > 0 THEN @ - 1 ELSE 0]

(* Mutant of DropAll: one use of each page is forgotten. *)
DropAllButOne(count, S) ==
  [k \in Keys |->
     LET n == Cardinality({i \in S : Key(i) = k})
     IN  IF n > 1 /\ count[k] >= n THEN count[k] - (n - 1) ELSE count[k]]

(* ReleasePage for each slot of S, which are all writers' or all readers'. *)
DropAll(count, S) ==
  [k \in Keys |->
     LET n == Cardinality({i \in S : Key(i) = k})
     IN  IF count[k] > n THEN count[k] - n ELSE 0]

(* The mappings left once the counts wc0, rc0 have become wc1, rc1: a page *)
(* whose last user has gone is unmapped.                                   *)
Unmapped(wc0, rc0, wc1, rc1) ==
  {k \in Keys : wc0[k] + rc0[k] > 0 /\ wc1[k] + rc1[k] = 0}

(* Mutant of ExitClient: only the slots of granted pages become free. *)
ExitFreesGranted(c) ==
  /\ msg' = [i \in Slots |-> IF i \in users[c] /\ msg[i].status = "ALLOCATED"
                             THEN [msg[i] EXCEPT !.status = "RAW"]
                             ELSE msg[i]]
  /\ users' = [users EXCEPT ![c] = {}]
  /\ reg' = reg \ {c}
  /\ UNCHANGED <<writerCount, readerCount, addrs, maxIdx, temp>>

(* ExitClient: the pages the client was granted are released, its slots    *)
(* and its name are free.                                                  *)
ExitClient(c) ==
  LET granted == {i \in users[c] : msg[i].status = "ALLOCATED"}
      wc == DropAll(writerCount, {i \in granted : msg[i].writer})
      rc == DropAll(readerCount, {i \in granted : ~msg[i].writer})
  IN  /\ writerCount' = wc
      /\ readerCount' = rc
      /\ addrs' = addrs \ Unmapped(writerCount, readerCount, wc, rc)
      /\ msg' = [i \in Slots |-> IF i \in users[c]
                                 THEN [msg[i] EXCEPT !.status = "RAW"]
                                 ELSE msg[i]]
      /\ users' = [users EXCEPT ![c] = {}]
      /\ reg' = reg \ {c}
      /\ UNCHANGED <<maxIdx, temp>>

(* Mutant of PidCheck: a client without a slot is overlooked. *)
PidCheckOfUsers(c) ==
  /\ pc[c] = "dead" /\ users[c] # {}
  /\ ExitClient(c)
  /\ pc' = [pc EXCEPT ![c] = "off"]
  /\ UNCHANGED <<comm, disk, op, svc, cur, expired, goal>>

(* PstPidCheck: a client whose process is gone is removed. *)
PidCheck(c) ==
  /\ pc[c] = "dead"
  /\ ExitClient(c)
  /\ pc' = [pc EXCEPT ![c] = "off"]
  /\ UNCHANGED <<comm, disk, op, svc, cur, expired, goal>>

(* PstTempPage: the temp page is created in advance. *)
TempCheck ==
  /\ ~temp
  /\ temp' = TRUE
  /\ UNCHANGED <<msg, reg, users, maxIdx, writerCount, readerCount, addrs,
                 comm, disk, local>>

(* Mutants of NextIdx: one slot too many, one too few. *)
NextIdxTooFar == (commIdx + 1) % (maxIdx + 2)
NextIdxTooShort == IF maxIdx = 0 THEN 0 ELSE (commIdx + 1) % maxIdx

NextIdx == (commIdx + 1) % (maxIdx + 1)

(* StartComm, up to AcquireMutex: one slot is looked at. *)
CommPoll ==
  /\ commPc = "poll"
  /\ IF msg[commIdx].status = "REQUESTING"
     THEN /\ commPc' = "serve"
          /\ UNCHANGED commIdx
     ELSE /\ commIdx' = NextIdx
          /\ UNCHANGED commPc
  /\ UNCHANGED <<msg, server, disk, local>>

(* InitiatePage for slot i, after the last page has been released (counts  *)
(* wc, rc; mappings ad): the answer is written into the slot.              *)
InitiatePage(i, wc, rc, ad) ==
  LET k == Key(i)
      absent == k \notin ad /\ k \notin files
      Answer(s) == msg' = [msg EXCEPT ![i] = [msg[i] EXCEPT !.status = s,
                                                    !.last = msg[i].page]]
      Load == /\ addrs' = ad \cup {k}
              /\ files' = files \cup {k}
              /\ temp' = (temp /\ ~absent)
  IN  \/ /\ absent /\ ~msg[i].writer
         /\ Answer("NON_EXIST")
         /\ writerCount' = wc /\ readerCount' = rc /\ addrs' = ad
         /\ UNCHANGED <<files, temp>>
      \/ /\ absent /\ msg[i].writer /\ temp /\ RenameMayFail
         /\ Answer("CANNOT_RENAME")
         /\ writerCount' = wc /\ readerCount' = rc /\ addrs' = ad
         /\ UNCHANGED <<files, temp>>
      \/ /\ ~absent /\ ~msg[i].writer
         /\ Load
         /\ Answer("ALLOCATED")
         /\ readerCount' = [rc EXCEPT ![k] = @ + 1] /\ writerCount' = wc
      \/ /\ msg[i].writer /\ wc[k] = 0
         /\ Load
         /\ Answer("ALLOCATED")
         /\ writerCount' = [wc EXCEPT ![k] = 1] /\ readerCount' = rc
      \/ /\ msg[i].writer /\ wc[k] # 0
         /\ Load
         /\ Answer("MORE_THAN_ONE_WRITER")
         /\ writerCount' = wc /\ readerCount' = rc

(* Mutant of ReleasesLast: also if it is the page asked for. *)
ReleasesAnyLast(i) == msg[i].last > 0

(* The page the slot was answered for last is given back first. *)
ReleasesLast(i) == msg[i].last > 0 /\ msg[i].last # msg[i].page

(* StartComm, between AcquireMutex and ReleaseMutex.  The status is not    *)
(* looked at again.                                                        *)
CommServe ==
  /\ commPc = "serve"
  /\ LET i == commIdx
         old == <<msg[i].unit, msg[i].last>>
         wc == IF ReleasesLast(i) /\ msg[i].writer
               THEN Drop(writerCount, old) ELSE writerCount
         rc == IF ReleasesLast(i) /\ ~msg[i].writer
               THEN Drop(readerCount, old) ELSE readerCount
     IN  InitiatePage(i, wc, rc,
                      addrs \ Unmapped(writerCount, readerCount, wc, rc))
  /\ commPc' = "poll"
  /\ commIdx' = NextIdx
  /\ UNCHANGED <<reg, users, maxIdx, inited, tail, local>>

(***************************************************************************)
(* Clients: registration                                                   *)
(***************************************************************************)

(* ClientPageProvider's constructor and RegClient; a name in use is        *)
(* refused and nothing changes.                                            *)
RegClient(c) ==
  /\ pc[c] = "off"
  /\ c \notin reg
  /\ reg' = reg \cup {c}
  /\ users' = [users EXCEPT ![c] = {}]
  /\ pc' = [pc EXCEPT ![c] = "named"]
  /\ UNCHANGED <<msg, maxIdx, writerCount, readerCount, addrs, temp, comm,
                 disk, op, svc, cur, expired, goal>>

(* Mutant of RegUnit: LastPageNum is not reset. *)
RegUnitKeepsLast(c, u) ==
  /\ pc[c] = "named"
  /\ u \in UnitsOf[c] /\ svc[c][u] = NoSlot
  /\ op' = [op EXCEPT ![c] = u]
  /\ \E i \in Slots :
       /\ msg[i].status = "RAW"
       /\ \A j \in Slots : j < i => msg[j].status # "RAW"
       /\ msg' = [msg EXCEPT ![i].status = "OCCUPIED"]
       /\ maxIdx' = IF i > maxIdx THEN i ELSE maxIdx
       /\ users' = [users EXCEPT ![c] = @ \cup {i}]
       /\ svc' = [svc EXCEPT ![c][u] = i]
       /\ pc' = [pc EXCEPT ![c] = "occupied"]
  /\ UNCHANGED <<reg, writerCount, readerCount, addrs, temp, comm, disk, cur,
                 expired, goal>>

(* RegUnit: the first RAW slot is the client's, if there is one. *)
RegUnit(c, u) ==
  /\ pc[c] = "named"
  /\ u \in UnitsOf[c] /\ svc[c][u] = NoSlot
  /\ op' = [op EXCEPT ![c] = u]
  /\ \/ /\ \A i \in Slots : msg[i].status # "RAW"
        /\ pc' = [pc EXCEPT ![c] = "thrown"]
        /\ UNCHANGED <<msg, users, maxIdx, svc>>
     \/ \E i \in Slots :
        /\ msg[i].status = "RAW"
        /\ \A j \in Slots : j < i => msg[j].status # "RAW"
        /\ msg' = [msg EXCEPT ![i] = [@ EXCEPT !.status = "OCCUPIED", !.last = 0]]
        /\ maxIdx' = IF i > maxIdx THEN i ELSE maxIdx
        /\ users' = [users EXCEPT ![c] = @ \cup {i}]
        /\ svc' = [svc EXCEPT ![c][u] = i]
        /\ pc' = [pc EXCEPT ![c] = "occupied"]
  /\ UNCHANGED <<reg, writerCount, readerCount, addrs, temp, comm, disk, cur,
                 expired, goal>>

(* RegisterUnit, the test of the slot's status on the client's side. *)
CheckSlot(c) ==
  /\ pc[c] = "occupied"
  /\ pc' = [pc EXCEPT ![c] = IF msg[svc[c][op[c]]].status = "OCCUPIED"
                             THEN "filling" ELSE "thrown"]
  /\ UNCHANGED <<msg, server, comm, disk, op, svc, cur, expired, goal>>

(* RegisterUnit: folder, name and role are written, then HOLDING. *)
FillSlot(c) ==
  /\ pc[c] = "filling"
  /\ msg' = [msg EXCEPT ![svc[c][op[c]]] =
                [@ EXCEPT !.status = "HOLDING", !.unit = op[c],
                          !.writer = (c \in Writers)]]
  /\ pc' = [pc EXCEPT ![c] = IF \A u \in UnitsOf[c] : svc[c][u] # NoSlot
                             THEN "ready" ELSE "named"]
  /\ UNCHANGED <<server, comm, disk, op, svc, cur, expired, goal>>

(***************************************************************************)
(* Clients: pages                                                          *)
(***************************************************************************)

Existing(u) == {n \in Pages : <<u, n>> \in files}

(* The page numbers SeekTime may choose: TIME_TO_LAST (the only one a      *)
(* writer uses), TIME_FROM_FIRST or the page of some time; 1 if none.      *)
SeekPages(c, u) ==
  IF Existing(u) = {} THEN {1}
  ELSE {n \in Existing(u) : c \in Writers => \A m \in Existing(u) : m <= n}
       \cup (IF c \in Readers THEN {1} ELSE {})

Choose(c, u, n) ==
  /\ pc' = [pc EXCEPT ![c] = "scanned"]
  /\ op' = [op EXCEPT ![c] = u]
  /\ goal' = [goal EXCEPT ![c] = n]
  /\ UNCHANGED <<msg, server, comm, disk, svc, cur, expired>>

(* SeekTime: the directory is listed and the page chosen. *)
SeekTime(c, u) ==
  /\ pc[c] = "ready"
  /\ u \in UnitsOf[c] /\ cur[c][u] = -1
  /\ \E n \in SeekPages(c, u) : Choose(c, u, n)

(* Mutant of LoadNextPage: a reader does not wait for PAGE_END. *)
LoadNextPageEarly(c, u) ==
  /\ pc[c] = "ready"
  /\ u \in UnitsOf[c] /\ u \notin expired[c]
  /\ cur[c][u] >= 0 /\ cur[c][u] < MaxPage
  /\ cur[c][u] > 0 => tail[<<u, cur[c][u]>>] # "open"
  /\ Choose(c, u, cur[c][u] + 1)

(* LoadNextPage: a writer goes on when its page is full, a reader when it  *)
(* is at PAGE_END; a reader that has no page starts again at page 1.       *)
LoadNextPage(c, u) ==
  /\ pc[c] = "ready"
  /\ u \in UnitsOf[c] /\ u \notin expired[c]
  /\ cur[c][u] >= 0 /\ cur[c][u] < MaxPage
  /\ cur[c][u] > 0 => IF c \in Writers THEN tail[<<u, cur[c][u]>>] # "open"
                                       ELSE tail[<<u, cur[c][u]>>] = "end"
  /\ Choose(c, u, cur[c][u] + 1)

(* GetPage: the page number, then REQUESTING. *)
Request(c) ==
  /\ pc[c] = "scanned"
  /\ msg' = [msg EXCEPT ![svc[c][op[c]]] =
                [@ EXCEPT !.page = goal[c], !.status = "REQUESTING"]]
  /\ pc' = [pc EXCEPT ![c] = "spin"]
  /\ UNCHANGED <<server, comm, disk, op, svc, cur, expired, goal>>

Answered(c, s) == pc[c] = "spin" /\ msg[svc[c][op[c]]].status = s
GoalKey(c) == <<op[c], goal[c]>>
OldKey(c) == <<op[c], cur[c][op[c]]>>

(* A page was granted to a reader: Page::Load gives nullptr while the      *)
(* header is RAW, unless the reader is a revisable one (CreateRevisable-   *)
(* Reader), which initialises the header itself.                           *)
ReaderLoad(c) ==
  /\ c \in Readers
  /\ \E s \in Statuses \ {"REQUESTING"} :
     /\ Answered(c, s) /\ s # "MORE_THAN_ONE_WRITER"
     /\ LET n == IF s = "ALLOCATED" /\ (GoalKey(c) \in inited \/ c \in Revisers)
                 THEN goal[c] ELSE 0
        IN  /\ inited' = IF n > 0 THEN inited \cup {GoalKey(c)} ELSE inited
            /\ cur' = [cur EXCEPT ![c][op[c]] = n]
            /\ expired' = [expired EXCEPT ![c] =
                             IF cur[c][op[c]] = -1 /\ n = 0
                             THEN @ \cup {op[c]} ELSE @]
  /\ pc' = [pc EXCEPT ![c] = "ready"]
  /\ goal' = [goal EXCEPT ![c] = 0]
  /\ UNCHANGED <<msg, server, comm, files, tail, op, svc>>

(* A page was granted to a writer: Page::Load initialises a RAW header.    *)
(* SeekTime is then done; LoadNextPage still has to finish the old page.   *)
WriterLoad(c) ==
  /\ c \in Writers
  /\ Answered(c, "ALLOCATED")
  /\ inited' = inited \cup {GoalKey(c)}
  /\ IF cur[c][op[c]] = -1
     THEN /\ cur' = [cur EXCEPT ![c][op[c]] = goal[c]]
          /\ goal' = [goal EXCEPT ![c] = 0]
          /\ pc' = [pc EXCEPT ![c] = "ready"]
     ELSE /\ pc' = [pc EXCEPT ![c] = "loaded"]
          /\ UNCHANGED <<cur, goal>>
  /\ UNCHANGED <<msg, server, comm, files, tail, op, svc, expired>>

(* LoadNextPage: FinishPage marks the old page, the new one is current. *)
FinishPage(c) ==
  /\ pc[c] = "loaded"
  /\ tail' = [tail EXCEPT ![OldKey(c)] = "end"]
  /\ cur' = [cur EXCEPT ![c][op[c]] = goal[c]]
  /\ goal' = [goal EXCEPT ![c] = 0]
  /\ pc' = [pc EXCEPT ![c] = "ready"]
  /\ UNCHANGED <<msg, server, comm, files, inited, op, svc, expired>>

(* Mutant of FillPage: PAGE_END is written before the next page is loaded. *)
FillPageEnds(c, u) ==
  /\ c \in Writers /\ pc[c] = "ready"
  /\ u \in UnitsOf[c] /\ cur[c][u] > 0
  /\ tail[<<u, cur[c][u]>>] = "open"
  /\ tail' = [tail EXCEPT ![<<u, cur[c][u]>>] = "end"]
  /\ UNCHANGED <<msg, server, comm, files, inited, local>>

(* The page is full: less than PAGE_MIN_HEADROOM is left. *)
FillPage(c, u) ==
  /\ c \in Writers /\ pc[c] = "ready"
  /\ u \in UnitsOf[c] /\ cur[c][u] > 0
  /\ tail[<<u, cur[c][u]>>] = "open"
  /\ tail' = [tail EXCEPT ![<<u, cur[c][u]>>] = "full"]
  /\ UNCHANGED <<msg, server, comm, files, inited, local>>

(* GetPage throws: another writer has the page. *)
Refused(c) ==
  /\ Answered(c, "MORE_THAN_ONE_WRITER")
  /\ pc' = [pc EXCEPT ![c] = "thrown"]
  /\ goal' = [goal EXCEPT ![c] = 0]
  /\ UNCHANGED <<msg, server, comm, disk, op, svc, cur, expired>>

(* The caller of WriteFrame caught the exception and writes again. *)
Retry(c) ==
  /\ pc[c] = "thrown"
  /\ c \in Writers /\ cur[c][op[c]] > 0
  /\ pc' = [pc EXCEPT ![c] = "ready"]
  /\ UNCHANGED <<msg, server, comm, disk, op, svc, cur, expired, goal>>

(***************************************************************************)
(* Clients: the end of a handler, and of a process                         *)
(***************************************************************************)

Forget(c, l) ==
  /\ pc' = [pc EXCEPT ![c] = l]
  /\ svc' = [svc EXCEPT ![c] = [u \in Units |-> NoSlot]]
  /\ cur' = [cur EXCEPT ![c] = [u \in Units |-> -1]]
  /\ expired' = [expired EXCEPT ![c] = {}]
  /\ goal' = [goal EXCEPT ![c] = 0]
  /\ op' = [op EXCEPT ![c] = NoUnit]

(* A writer got no page at all: SeekTime leaves it expired and the next    *)
(* WriteFrame dereferences nullptr; LoadNextPage finishes the old page and *)
(* dereferences nullptr itself.                                            *)
WriterLosesPage(c) ==
  /\ c \in Writers
  /\ \E s \in Statuses \ {"REQUESTING", "ALLOCATED", "MORE_THAN_ONE_WRITER"} :
       Answered(c, s)
  /\ IF cur[c][op[c]] > 0 THEN tail' = [tail EXCEPT ![OldKey(c)] = "end"]
                          ELSE UNCHANGED tail
  /\ Forget(c, "dead")
  /\ UNCHANGED <<msg, server, comm, files, inited>>

(* ~UnitHandler: ExitClient over the socket. *)
Exit(c) ==
  /\ pc[c] \in {"ready", "thrown"}
  /\ ExitClient(c)
  /\ Forget(c, "off")
  /\ UNCHANGED <<comm, disk>>

(* The process is killed. *)
Die(c) ==
  /\ pc[c] \in MayDie
  /\ Forget(c, "dead")
  /\ UNCHANGED <<msg, server, comm, disk>>

(***************************************************************************)
(* Specification                                                           *)
(***************************************************************************)

(* PageEngine::Start: the buffer is zeroed.  Page files are left over from *)
(* earlier runs or not; the runs start with none.                          *)
Init ==
  /\ msg = [i \in Slots |-> [status |-> "RAW", unit |-> NoUnit,
                             writer |-> FALSE, page |-> 0, last |-> 0]]
  /\ reg = {} /\ users = [c \in Clients |-> {}] /\ maxIdx = 0
  /\ writerCount = [k \in Keys |-> 0] /\ readerCount = [k \in Keys |-> 0]
  /\ addrs = {} /\ temp = FALSE
  /\ commIdx = 0 /\ commPc = "poll"
  /\ files = {} /\ inited = {} /\ tail = [k \in Keys |-> "open"]
  /\ pc = [c \in Clients |-> "off"] /\ op = [c \in Clients |-> NoUnit]
  /\ svc = [c \in Clients |-> [u \in Units |-> NoSlot]]
  /\ cur = [c \in Clients |-> [u \in Units |-> -1]]
  /\ expired = [c \in Clients |-> {}]
  /\ goal = [c \in Clients |-> 0]

EngineStep == \/ CommPoll
              \/ CommServe
              \/ TempCheck
              \/ \E c \in Clients : PidCheck(c)

(* What a client does without being asked to by its user. *)
ClientStep(c) == \/ CheckSlot(c)
                 \/ FillSlot(c)
                 \/ Request(c)
                 \/ ReaderLoad(c)
                 \/ WriterLoad(c)
                 \/ FinishPage(c)
                 \/ Refused(c)
                 \/ WriterLosesPage(c)

UserStep(c) == \/ RegClient(c)
               \/ \E u \in Units : RegUnit(c, u)
               \/ \E u \in Units : SeekTime(c, u)
               \/ \E u \in Units : LoadNextPage(c, u)
               \/ \E u \in Units : FillPage(c, u)
               \/ Retry(c)
               \/ Exit(c)
               \/ Die(c)

Next == EngineStep \/ \E c \in Clients : ClientStep(c) \/ UserStep(c)

Spec == Init /\ [][Next]_vars

(* Each engine thread and each client that is not killed keeps running. *)
Fairness ==
  /\ WF_vars(CommPoll) /\ WF_vars(CommServe) /\ WF_vars(TempCheck)
  /\ \A c \in Clients : WF_vars(PidCheck(c)) /\ WF_vars(ClientStep(c))

FairSpec == Spec /\ Fairness

(***************************************************************************)
(* Properties                                                              *)
(***************************************************************************)

(* Every variable has its type. *)
TypeOK ==
  /\ msg \in [Slots -> PageCommMsg]
  /\ reg \subseteq Clients
  /\ users \in [Clients -> SUBSET Slots]
  /\ maxIdx \in Slots
  /\ writerCount \in [Keys -> Nat] /\ readerCount \in [Keys -> Nat]
  /\ addrs \subseteq Keys /\ temp \in BOOLEAN
  /\ commIdx \in Slots /\ commPc \in {"poll", "serve"}
  /\ files \subseteq Keys /\ inited \subseteq Keys
  /\ tail \in [Keys -> {"open", "full", "end"}]
  /\ pc \in [Clients -> Locations]
  /\ op \in [Clients -> Units \cup {NoUnit}]
  /\ svc \in [Clients -> [Units -> Slots \cup {NoSlot}]]
  /\ cur \in [Clients -> [Units -> -1 .. MaxPage]]
  /\ expired \in [Clients -> SUBSET (Units \cup {NoUnit})]
  /\ goal \in [Clients -> 0 .. MaxPage]

(* The client is able to put a frame into the unit. *)
CanWrite(c, u) ==
  /\ c \in Writers /\ pc[c] = "ready"
  /\ cur[c][u] > 0 /\ tail[<<u, cur[c][u]>>] = "open"

(* A unit that one writer can append to cannot be appended to by another,  *)
(* although the engine only keeps two writers off the same page, not off   *)
(* the same unit (InitiatePage, SeekTime, LoadNextPage).                   *)
OneWriterPerUnit ==
  \A c, d \in Writers : \A u \in Units :
    CanWrite(c, u) /\ CanWrite(d, u) => c = d

(* Slot i stands for a use of page k: it was granted, or was granted and   *)
(* has not been given back yet while the slot asks for another page.       *)
Holds(i, k) ==
  \/ msg[i].status = "ALLOCATED" /\ Key(i) = k
  \/ /\ msg[i].status = "REQUESTING" /\ ReleasesLast(i)
     /\ <<msg[i].unit, msg[i].last>> = k

(* mFileWriterCounts counts the writers that hold a page: no count is left *)
(* behind by a client that is gone, and none is taken from one that is not *)
(* (InitiatePage, ReleasePage, ExitClient).                                *)
WriterCountsAreHolders ==
  \A k \in Keys :
    writerCount[k] = Cardinality({i \in Slots : msg[i].writer /\ Holds(i, k)})

(* mFileReaderCounts counts the readers that hold a page. *)
ReaderCountsAreHolders ==
  \A k \in Keys :
    readerCount[k] = Cardinality({i \in Slots : ~msg[i].writer /\ Holds(i, k)})

(* The engine keeps exactly those pages mapped that have a reader or a     *)
(* writer: no mapping leaks and none is removed too early.                 *)
MappedIffCounted == addrs = {k \in Keys : writerCount[k] + readerCount[k] > 0}

(* A slot is in use exactly if it belongs to a client, and to one only:    *)
(* no slot is lost to the clients that come later (RegUnit, ExitClient).   *)
SlotsHaveOneOwner ==
  \A i \in Slots :
    IF msg[i].status = "RAW" THEN \A c \in Clients : i \notin users[c]
    ELSE \E c \in reg : i \in users[c]
                        /\ \A d \in Clients \ {c} : i \notin users[d]

(* A page is marked PAGE_END only when the next one can be loaded by the   *)
(* readers that will then ask for it (LoadNextPage gets the new page       *)
(* before it finishes the old one).                                        *)
SuccessorReady ==
  \A u \in Units : \A n \in Pages :
    tail[<<u, n>>] = "end" => <<u, n + 1>> \in inited

(* Pages of a unit are filled in order: before the last page there is none *)
(* with room left, so that a writer that starts at the last page           *)
(* (TIME_TO_LAST) appends to the unit.                                     *)
FilledInOrder ==
  \A u \in Units : \A n \in Pages : \A m \in 1 .. n - 1 :
    <<u, n>> \in files => <<u, m>> \in files /\ tail[<<u, m>>] # "open"

(* A reader never goes back to an earlier page of a unit (LoadNextPage     *)
(* restarts at page 1 when it has lost its page).                          *)
NoRewind ==
  [][\A c \in Readers : \A u \in Units :
       cur[c][u] > 0 /\ Alive(c)' => cur'[c][u] >= cur[c][u]]_vars

(* Every GetPage returns: the busy wait in the client ends. *)
RequestAnswered == \A c \in Clients : pc[c] = "spin" ~> pc[c] # "spin"

(* The name and the slots of a killed client become free again. *)
DeadReclaimed ==
  \A c \in Clients : pc[c] = "dead" ~> c \notin reg /\ users[c] = {}
=============================================================================
