--------------------------- MODULE PageServiceInv ---------------------------
(***************************************************************************)
(* The inductive invariants of the page service.  Exclusion is behind      *)
(* OneWriterPerUnit: who owns a slot, what a slot's status says of its     *)
(* owner's location, which slots hold which page and where each writer     *)
(* stands in its unit.  It and Accounts, which is about the engine's       *)
(* tables, hold when no client is killed while it waits in GetPage;        *)
(* Following, about readers, when rename does not fail either.             *)
(***************************************************************************)
EXTENDS PageService

(* Where the client has an operation on the unit op[c]. *)
InOperation == {"occupied", "filling", "scanned", "spin", "loaded", "thrown"}
(* Where the client has no page yet. *)
Before == {"off", "named", "occupied", "filling", "dead"}
(* Where every unit of the client has a slot that was filled in. *)
Opened == {"ready", "scanned", "spin", "loaded"}

(* Slots belong to at most one client and to one unit of it. *)
SlotsSeparate ==
  /\ \A c, d \in Clients : c # d => users[c] \cap users[d] = {}
  /\ \A c \in Clients : \A i \in users[c] : msg[i].status # "RAW"
  /\ \A c \in Clients : \A u \in Units :
       svc[c][u] # NoSlot => svc[c][u] \in users[c]
  /\ \A c \in Clients : \A u, v \in Units :
       svc[c][u] # NoSlot /\ svc[c][u] = svc[c][v] => u = v

(* The slot of u bears what c wrote into it. *)
Filled(c, u) ==
  /\ svc[c][u] \in Slots
  /\ msg[svc[c][u]].unit = u
  /\ msg[svc[c][u]].writer <=> c \in Writers

ClientInOrder(c) ==
  /\ pc[c] \in InOperation => op[c] \in UnitsOf[c]
  /\ pc[c] \in {"off", "dead"} => \A u \in Units : svc[c][u] = NoSlot
  /\ pc[c] \in Before => \A u \in Units : cur[c][u] = -1
  /\ pc[c] \in Opened => \A u \in UnitsOf[c] : Filled(c, u)
  /\ pc[c] = "thrown" /\ c \in Writers =>
       \A u \in UnitsOf[c] : cur[c][u] > 0 => Filled(c, u)
  /\ pc[c] \in {"named", "occupied", "filling"} =>
       \A u \in UnitsOf[c] : svc[c][u] # NoSlot =>
         Filled(c, u) \/ (pc[c] # "named" /\ op[c] = u)
  /\ pc[c] \in {"occupied", "filling"} => svc[c][op[c]] # NoSlot
  /\ \A u \in Units \ UnitsOf[c] : cur[c][u] = -1

ClientsInOrder == \A c \in Clients : ClientInOrder(c)

(* A request is waited for by the client whose slot it is, and only the    *)
(* communication thread ends it.                                           *)
RequestsWaited ==
  /\ \A i \in Slots : msg[i].status = "REQUESTING" =>
       \E c \in Clients : pc[c] = "spin" /\ svc[c][op[c]] = i
  /\ commPc = "serve" => msg[commIdx].status = "REQUESTING"

(* A page that a writer's slot stands for is counted, and no other         *)
(* writer's slot stands for it.                                            *)
HeldOnce ==
  /\ \A i \in Slots : msg[i].status = "ALLOCATED" =>
       msg[i].last = msg[i].page /\ Key(i) \in files
  /\ \A i \in Slots : \A k \in Keys :
       msg[i].writer /\ Holds(i, k) => writerCount[k] > 0
  /\ \A i, j \in Slots : \A k \in Keys :
       msg[i].writer /\ Holds(i, k) /\ msg[j].writer /\ Holds(j, k) => i = j

(* The writer has filled its page and wants the next. *)
GoesOn(c, u) == /\ cur[c][u] > 0 /\ goal[c] = cur[c][u] + 1
                /\ tail[<<u, cur[c][u]>>] # "open"

WriterInOrder(c, u) ==
  LET s == msg[svc[c][u]]
      n == cur[c][u]
      g == goal[c]
  IN  /\ n # 0
      /\ n > 0 => <<u, n>> \in files
      /\ pc[c] \in {"named", "occupied", "filling"} => n = -1
      /\ pc[c] \in {"occupied", "filling"} => s.last = 0
      /\ pc[c] = "ready" =>
           \/ n = -1 /\ s.last = 0
           \/ n > 0 /\ s.status = "ALLOCATED" /\ s.page = n
           \/ n > 0 /\ s.last = n + 1 /\ tail[<<u, n>>] # "open"
      /\ pc[c] = "scanned" =>
           \/ n = -1 /\ s.last = 0
           \/ GoesOn(c, u) /\ s.status = "ALLOCATED" /\ s.page = n
           \/ GoesOn(c, u) /\ s.last = g
      /\ pc[c] = "spin" =>
           /\ s.page = g /\ (n = -1 \/ GoesOn(c, u))
           /\ s.status # "REQUESTING" => s.last = g
      /\ pc[c] \in {"scanned", "spin"} /\ n = -1 => g = 1 \/ <<u, g>> \in files
      /\ pc[c] \in {"scanned", "spin", "loaded"} => g > 0
      /\ pc[c] = "loaded" =>
           GoesOn(c, u) /\ s.status = "ALLOCATED" /\ s.page = g
      /\ pc[c] = "thrown" /\ n > 0 =>
           tail[<<u, n>>] # "open" /\ s.last = n + 1

WritersInOrder == \A c \in Writers : \A u \in UnitsOf[c] : WriterInOrder(c, u)

Exclusion ==
  /\ SlotsSeparate
  /\ ClientsInOrder
  /\ RequestsWaited
  /\ HeldOnce
  /\ WritersInOrder
  /\ FilledInOrder
  /\ addrs \subseteq files

-----------------------------------------------------------------------------
(* What makes the engine's counts and slots right, besides Exclusion.      *)

(* A client is registered until it has left or is found dead. *)
Registered == \A c \in Clients : pc[c] # "off" => c \in reg

(* Nobody touches a slot between RegUnit and its owner's FillSlot. *)
Occupied ==
  \A c \in Clients :
    pc[c] \in {"occupied", "filling"} => msg[svc[c][op[c]]].status = "OCCUPIED"

(* A granted page is the writer's current one, until it is asked for       *)
(* another; what was refused was not granted.                              *)
WriterStands(c, u) ==
  LET s == msg[svc[c][u]]
      n == cur[c][u]
  IN  /\ pc[c] \in {"ready", "scanned"} /\ s.status = "ALLOCATED" => n > 0 /\ s.page = n
      /\ pc[c] = "spin" => s.status \in {"REQUESTING", "ALLOCATED", "MORE_THAN_ONE_WRITER"}
                                        \cup (IF RenameMayFail THEN {"CANNOT_RENAME"} ELSE {})
      /\ pc[c] = "thrown" /\ n > 0 => s.status = "MORE_THAN_ONE_WRITER"

WritersStand == \A c \in Writers : \A u \in UnitsOf[c] : WriterStands(c, u)

Accounts ==
  /\ Registered /\ Occupied /\ WritersStand
  /\ SlotsHaveOneOwner /\ MappedIffCounted /\ WriterCountsAreHolders

(* A reader that goes on finds the page it asks for written to: if rename  *)
(* does not fail.  One that found no page at first is expired.             *)
Follows(c, u) ==
  cur[c][u] > 0 => goal[c] = cur[c][u] + 1 /\ <<u, goal[c]>> \in inited

ReaderInOrder(c, u) ==
  LET s == msg[svc[c][u]]
      n == cur[c][u]
      waits == pc[c] = "spin" /\ op[c] = u
  IN  /\ pc[c] \in Before => u \notin expired[c]
      /\ pc[c] \in {"named", "occupied", "filling"} /\ svc[c][u] # NoSlot =>
           s.last = 0 /\ (s.status = "HOLDING" \/ (pc[c] # "named" /\ op[c] = u))
      /\ pc[c] \in {"ready", "scanned", "spin"} /\ ~waits =>
           \/ n = -1 /\ s.status = "HOLDING" /\ s.last = 0 /\ u \notin expired[c]
           \/ n > 0 /\ s.status = "ALLOCATED" /\ s.page = n
           \/ n = 0 /\ u \in expired[c]
      /\ (pc[c] = "scanned" /\ op[c] = u) \/ waits =>
           n # 0 /\ goal[c] > 0 /\ Follows(c, u)
      /\ waits =>
           /\ s.page = goal[c]
           /\ s.status \in {"REQUESTING", "ALLOCATED"} \cup (IF n = -1 THEN {"NON_EXIST"} ELSE {})

ReadersInOrder == \A c \in Readers : \A u \in UnitsOf[c] : ReaderInOrder(c, u)

Following ==
  /\ inited \subseteq files
  /\ \A c \in Clients : pc[c] = "loaded" => c \in Writers /\ GoalKey(c) \in inited
  /\ SuccessorReady /\ ReadersInOrder /\ ReaderCountsAreHolders
=============================================================================
