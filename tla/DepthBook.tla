----------------------------- MODULE DepthBook -----------------------------
(***************************************************************************)
(* The order book of a symbol at Binance (BinaMGApi).  The exchange        *)
(* numbers the changes of its book and sends them in messages, each with   *)
(* the numbers of its first and its last change.  The gateway asks for a   *)
(* snapshot over REST after it has connected and whenever changes are      *)
(* missing; its reader thread and the websocket's thread work on the same  *)
(* maps.                                                                   *)
(***************************************************************************)
EXTENDS Integers, Sequences, FiniteSets, FiniteSetsExt

CONSTANTS
  Bids, Asks,     \* prices
  Volumes,
  MaxDepth,       \* MAX_DEPTH_NUM
  MaxId,          \* bound: changes of the book
  MaxDepthSubs,   \* bound: subscriptions, one after the other
  SnapshotFails   \* whether a request for a snapshot may fail

(* The price of a bid is negated: the lower of two levels of a side is the *)
(* better one.                                                             *)
Levels == Asks \cup {-p : p \in Bids}

(* Stated as an assumption by the modules that give these values. *)
DepthAssumption ==
  /\ Bids \cup Asks \subseteq Nat \ {0} /\ IsFiniteSet(Levels)
  /\ MaxDepth \in Nat \ {0}
  /\ 0 \in Volumes /\ Volumes \subseteq Nat
  /\ {MaxId, MaxDepthSubs} \subseteq Nat /\ SnapshotFails \in BOOLEAN

VARIABLES
  changes,    \* the exchange: every change of its book, in order
  emitted,    \* the last change it has sent
  stream,     \* messages the gateway has not read
  connected,  \* mSubDepthClient
  subscribed, \* subscriptions made
  last,       \* mLastUpdateIdMap
  book,       \* mBidDepth, mAskDepth: the volume of each level that is there
  snap,       \* where each thread is in GetDepthSnapShot
  published,  \* the last levels handed on, and their number
  failed      \* whether a snapshot has failed

exchange == <<changes, emitted, stream>>
gateway == <<connected, subscribed, last, book, snap, failed>>
vars == <<exchange, gateway, published>>

Threads == {"reader", "websocket"}
None == -1
NotThere == [p \in {} |-> 0]
Idle == [pc |-> "idle", id |-> 0]

(* Levels of the side of p that are better than it. *)
Better(levels, p) == {q \in levels : (q > 0 <=> p > 0) /\ q < p}

(* The first MaxDepth of each side. *)
Best(levels) == {p \in levels : Cardinality(Better(levels, p)) < MaxDepth}

(***************************************************************************)
(* The exchange                                                            *)
(***************************************************************************)

ChangesOf(p, n) == {i \in 1 .. n : changes[i].level = p}

(* The volume of a level after the first n changes. *)
VolumeAt(p, n) ==
  IF ChangesOf(p, n) = {} THEN 0 ELSE changes[Max(ChangesOf(p, n))].volume

There(n) == {p \in Levels : VolumeAt(p, n) # 0}

Change(p, v) ==
  /\ Len(changes) < MaxId /\ VolumeAt(p, Len(changes)) # v
  /\ changes' = Append(changes, [level |-> p, volume |-> v])
  /\ UNCHANGED <<emitted, stream, gateway, published>>

(* One message for all changes since the last; nobody gets it if nobody is *)
(* connected.                                                              *)
Emit ==
  /\ emitted < Len(changes)
  /\ emitted' = Len(changes)
  /\ stream' = IF connected
               THEN Append(stream, [first |-> emitted + 1, final |-> Len(changes)])
               ELSE stream
  /\ UNCHANGED <<changes, gateway, published>>

(***************************************************************************)
(* GetDepthSnapShot, by either thread                                      *)
(***************************************************************************)

Erase == last' = None /\ book' = NotThere

GetDepthSnapShot(t) ==
  /\ Erase
  /\ snap' = [snap EXCEPT ![t] = [pc |-> "asked", id |-> 0]]

(* The exchange answers with its book of that moment. *)
Answer(t) ==
  /\ snap[t].pc = "asked"
  /\ snap' = [snap EXCEPT ![t] = [pc |-> "answered", id |-> Len(changes)]]
  /\ UNCHANGED <<exchange, connected, subscribed, last, book, failed, published>>

(* It has sent the best levels only.  They are inserted, which leaves those *)
(* alone that are there.                                                   *)
Fill(t) ==
  /\ snap[t].pc = "answered"
  /\ LET n == snap[t].id IN
     /\ book' = [p \in DOMAIN book \cup Best(There(n)) |->
                   IF p \in DOMAIN book THEN book[p] ELSE VolumeAt(p, n)]
     /\ last' = n
  /\ snap' = [snap EXCEPT ![t] = Idle]
  /\ UNCHANGED <<exchange, connected, subscribed, failed, published>>

(* The request fails: the maps stay empty. *)
Fail(t) ==
  /\ SnapshotFails /\ snap[t].pc = "asked"
  /\ snap' = [snap EXCEPT ![t] = Idle]
  /\ failed' = TRUE
  /\ UNCHANGED <<exchange, connected, subscribed, last, book, published>>

(***************************************************************************)
(* The reader thread: ReqSubDepth, ReqUnSubDepth                           *)
(***************************************************************************)

ReqSubDepth ==
  /\ ~connected /\ snap["reader"] = Idle /\ subscribed < MaxDepthSubs
  /\ connected' = TRUE /\ subscribed' = subscribed + 1
  /\ snap' = [snap EXCEPT !["reader"].pc = "connected"]
  /\ UNCHANGED <<exchange, last, book, failed, published>>

FirstSnapShot ==
  /\ snap["reader"].pc = "connected"
  /\ GetDepthSnapShot("reader")
  /\ UNCHANGED <<exchange, connected, subscribed, failed, published>>

(* The connection is closed when its thread is out of its handler; the     *)
(* book stays.                                                             *)
ReqUnSubDepth ==
  /\ connected /\ snap = [t \in Threads |-> Idle]
  /\ connected' = FALSE /\ stream' = <<>>
  /\ UNCHANGED <<changes, emitted, subscribed, last, book, snap, failed, published>>

(***************************************************************************)
(* The websocket's thread: OnWsDepth                                       *)
(***************************************************************************)

Read == /\ snap["websocket"] = Idle /\ stream # <<>>
        /\ stream' = Tail(stream)
m == Head(stream)

(* Mutant of Old: the first change is compared. *)
OldByFirst == m.first <= last
Old == m.final <= last

(* Mutant of Missing: one missing change is not seen. *)
MissingTwo == m.first > last + 2
Missing == m.first > last + 1

(* No book yet, or nothing new. *)
Pass ==
  /\ Read
  /\ last = None \/ Old
  /\ UNCHANGED <<changes, emitted, gateway, published>>

SnapShotAgain ==
  /\ Read /\ last # None /\ ~Old /\ Missing
  /\ GetDepthSnapShot("websocket")
  /\ UNCHANGED <<changes, emitted, connected, subscribed, failed, published>>

(* The changes are applied, and the best levels handed on.  A level whose  *)
(* volume has become zero stays, for it is the price that is compared with *)
(* zero, and counts as a level.                                            *)
Apply ==
  /\ Read /\ last # None /\ ~Old /\ ~Missing
  /\ last' = m.final
  /\ LET changed == {changes[i].level : i \in m.first .. m.final} IN
     book' = [p \in DOMAIN book \cup changed |->
                IF p \in changed THEN VolumeAt(p, m.final) ELSE book[p]]
  /\ published' = [id |-> m.final, book |-> [p \in Best(DOMAIN book') |-> book'[p]]]
  /\ UNCHANGED <<changes, emitted, connected, subscribed, snap, failed>>

(***************************************************************************)
(* Specification                                                           *)
(***************************************************************************)

Init ==
  /\ changes = <<>> /\ emitted = 0 /\ stream = <<>>
  /\ connected = FALSE /\ subscribed = 0
  /\ last = None /\ book = NotThere
  /\ snap = [t \in Threads |-> Idle]
  /\ published = [id |-> 0, book |-> NotThere] /\ failed = FALSE

SnapShotStep(t) == Answer(t) \/ Fill(t) \/ Fail(t)
OnWsDepth == Pass \/ SnapShotAgain \/ Apply

Next ==
  \/ \E p \in Levels, v \in Volumes : Change(p, v)
  \/ Emit \/ ReqSubDepth \/ FirstSnapShot \/ ReqUnSubDepth \/ OnWsDepth
  \/ \E t \in Threads : SnapShotStep(t)

Spec == Init /\ [][Next]_vars

(* Both threads run, and requests for snapshots are answered or fail. *)
FairSpec ==
  /\ Spec
  /\ WF_vars(FirstSnapShot) /\ WF_vars(OnWsDepth)
  /\ \A t \in Threads : WF_vars(SnapShotStep(t))

(***************************************************************************)
(* Properties                                                              *)
(***************************************************************************)

(* Every variable has its type; without a number there is no book, and no  *)
(* book is ahead of the exchange.                                          *)
TypeOK ==
  /\ emitted \in 0 .. Len(changes) /\ Len(changes) <= MaxId
  /\ connected \in BOOLEAN /\ subscribed \in 0 .. MaxDepthSubs /\ failed \in BOOLEAN
  /\ last \in None .. Len(changes)
  /\ DOMAIN book \subseteq Levels /\ \A p \in DOMAIN book : book[p] \in Volumes
  /\ last = None => book = NotThere
  /\ snap \in [Threads -> [pc : {"idle", "connected", "asked", "answered"}, id : 0 .. MaxId]]

(* A level handed on has the volume it has at the exchange after that      *)
(* number of changes, and a level of the exchange that is not handed on is *)
(* worse than MaxDepth that are, whatever came while a snapshot was under  *)
(* way and although neither the snapshot nor the book is whole (OnWsDepth, *)
(* GetDepthSnapShot).                                                      *)
PublishedIsTrue ==
  LET told == DOMAIN published.book IN
  /\ \A p \in told : published.book[p] = VolumeAt(p, published.id)
  /\ \A p \in There(published.id) \ told : Cardinality(Better(told, p)) >= MaxDepth

(* A change that reaches a gateway that has a book gets into the book,     *)
(* with a new snapshot if others are missing, unless a snapshot fails      *)
(* (OnWsDepth).                                                            *)
Waiting(n) == last # None /\ \E i \in DOMAIN stream : stream[i].final >= n
GetsIntoBook ==
  \A n \in 1 .. MaxId : Waiting(n) ~> last >= n \/ failed \/ ~connected

(* The same if a snapshot fails (GetDepthSnapShot). *)
AlwaysGetsIntoBook == \A n \in 1 .. MaxId : Waiting(n) ~> last >= n \/ ~connected

(* The best levels of the exchange are handed on: no level that is empty   *)
(* takes the place of one that is not (OnWsDepth).                         *)
BestAreTold == Best(There(published.id)) \subseteq DOMAIN published.book

(* No level handed on is empty (OnWsDepth). *)
NoEmptyLevels == \A p \in DOMAIN published.book : published.book[p] # 0

(* Two threads are never in GetDepthSnapShot, which erases and fills the   *)
(* maps of the symbol without a lock.                                      *)
OneSnapShotAtATime ==
  \E t \in Threads : snap[t].pc \in {"idle", "connected"}
=============================================================================
