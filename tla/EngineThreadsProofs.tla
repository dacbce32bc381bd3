------------------------ MODULE EngineThreadsProofs ------------------------
(***************************************************************************)
(* Proofs about EngineThreads, for every set of clients, every size and    *)
(* number of pages and every number of frames: the type invariant, and     *)
(* that a frame whose write has returned is in the system unit, if clients *)
(* connect only after Start has finished.                                  *)
(***************************************************************************)
EXTENDS EngineThreads, FiniteSetTheorems, TLAPS

-----------------------------------------------------------------------------
(* The inductive invariant.                                                *)

(* The mutex belongs to the thread that is between Lock and Unlock. *)
MutexHeld ==
  /\ mutex = "socket" <=> socket.pc \in {"process", "reply"}
  /\ mutex = "task" <=> task = "run"
  /\ mutex = "comm" <=> comm.pc = "serve"

(* The task thread is started by the main thread, late in Start. *)
TaskStarts == main \in {"launched", "asked", "seek", "locating"} => task = "off"

(* A thread that writes does so where its own program says. *)
Writes(t) == wr[t].pc # "none"
WritesWhere ==
  /\ Writes("socket") => socket.pc = "reply"
  /\ Writes("task") => task = "run"
  /\ Writes("main") => main \in {"locating", "writing"}

(* Who waits for the next page with the mutex is not granted it. *)
SpinsHeld ==
  /\ \A t \in Threads : wr[t].pc = "spin" => page < MaxPage
  /\ \A t \in {"socket", "task"} : wr[t].pc = "spin" => slot[Paged] = "requesting"

(* Before Start has finished nobody asks for a frame. *)
StartAlone ==
  main # "started" => /\ dead = {} /\ ~Writes("socket") /\ ~Writes("task")
                      /\ \A c \in Clients : ask[c] = "none"
PagedAsks == ask[Paged] # "frame"
Answers == socket.pc # "accept" => ask[socket.of] # "none"

(* At most one thread writes. *)
OneWriter == \A t, u \in Threads : Writes(t) /\ Writes(u) => t = u

(* What is written lies before the place of the engine's writer, and a     *)
(* thread that is about to store a frame has that place.                   *)
Before(x) == x[1] < page \/ (x[1] = page /\ x[2] < pos)
WrittenBefore == \A x \in Places : unit[x] # Free => Before(x)
StoresAtPlace ==
  \A t \in Threads :
    wr[t].pc = "store" /\ wr[t].frame # 0 => wr[t].place = <<page, pos>> /\ HasRoom
NothingYet ==
  main \in {"launched", "asked", "seek", "locating"} => issued = 0 /\ told = {}

(* Frames are written only for what was asked for, and PAGED_START. *)
Owed == {c \in Clients : ask[c] = "frame" /\ ~ (socket.pc = "reply" /\ socket.of = c)}
StartOwed == IF main \in {"writing", "started"} THEN 0 ELSE 1
Balanced ==
  /\ IsFiniteSet(Owed) /\ IsFiniteSet(dead)
  /\ issued + Cardinality(Owed) + Cardinality(dead) + StartOwed <= due + 1
FramesIssued == \A t \in Threads : wr[t].frame <= issued

Control == MutexHeld /\ TaskStarts /\ WritesWhere /\ SpinsHeld /\ PagedAsks /\ Answers
Order == StartAlone /\ WrittenBefore /\ StoresAtPlace /\ NothingYet /\ WrittenIsThere
IInv == TypeOK /\ Control /\ Balanced /\ FramesIssued /\ (~EarlyClients => Order)
-----------------------------------------------------------------------------
(* What the steps of WriteFrame do to the place of a thread in it.         *)

LEMMA BeginSets ==
  ASSUME TypeOK, NEW t \in Threads, NEW f \in Int, Begin(t, f)
  PROVE  /\ wr'[t].pc = "locate" /\ wr'[t].place = wr[t].place /\ wr'[t].frame = f
         /\ \A r \in Threads : r # t => wr'[r] = wr[r]
         /\ f \in 0 .. MaxFrames + 1 => wr' \in [Threads -> Calls]
<1>1. wr \in [Threads -> Calls]
  BY DEF TypeOK
<1>2. wr' = [wr EXCEPT ![t] = [wr[t] EXCEPT !.pc = "locate", !.frame = f]]
  BY DEF Begin
<1>3. wr'[t] = [wr[t] EXCEPT !.pc = "locate", !.frame = f]
  BY <1>1, <1>2
<1>4. wr[t] \in Calls
  BY <1>1
<1>5. wr'[t] = [pc |-> "locate", place |-> wr[t].place, frame |-> f]
  BY <1>3, <1>4 DEF Calls
<1>6. f \in 0 .. MaxFrames + 1 => wr'[t] \in Calls
  BY <1>3, <1>4 DEF Calls
<1> QED BY <1>1, <1>2, <1>5, <1>6

LEMMA LocateSets ==
  ASSUME TypeOK, NEW t \in Threads, Locate(t)
  PROVE  /\ \/ /\ HasRoom /\ UNCHANGED slot
               /\ wr'[t].pc = "store" /\ wr'[t].place = <<page, pos>>
            \/ /\ ~HasRoom /\ page < MaxPage
               /\ slot' = [slot EXCEPT ![Paged] = "requesting"]
               /\ wr'[t].pc = "spin" /\ wr'[t].place = wr[t].place
         /\ wr'[t].frame = wr[t].frame
         /\ wr' \in [Threads -> Calls]
         /\ \A r \in Threads : r # t => wr'[r] = wr[r]
<1>1. wr \in [Threads -> Calls]
  BY DEF TypeOK
<1>2. wr[t] \in Calls
  BY <1>1
<1>3. CASE /\ HasRoom /\ UNCHANGED slot
           /\ wr' = [wr EXCEPT ![t] = [wr[t] EXCEPT !.pc = "store", !.place = <<page, pos>>]]
  <2>1. wr'[t] = [wr[t] EXCEPT !.pc = "store", !.place = <<page, pos>>]
    BY <1>1, <1>3
  <2>2. wr'[t] = [pc |-> "store", place |-> <<page, pos>>, frame |-> wr[t].frame]
    BY <1>2, <2>1 DEF Calls
  <2>3. <<page, pos>> \in Places
    BY <1>3, ThreadAssumption DEF HasRoom, TypeOK, Places
  <2>4. wr'[t] \in Calls
    BY <1>2, <2>1, <2>3 DEF Calls
  <2> QED BY <1>1, <1>3, <2>2, <2>4
<1>4. CASE /\ ~HasRoom /\ page < MaxPage
           /\ wr' = [wr EXCEPT ![t] = [wr[t] EXCEPT !.pc = "spin"]]
           /\ slot' = [slot EXCEPT ![Paged] = "requesting"]
  <2>1. wr'[t] = [wr[t] EXCEPT !.pc = "spin"]
    BY <1>1, <1>4
  <2>2. wr'[t] = [pc |-> "spin", place |-> wr[t].place, frame |-> wr[t].frame]
    BY <1>2, <2>1 DEF Calls
  <2>3. wr'[t] \in Calls
    BY <1>2, <2>1 DEF Calls
  <2> QED BY <1>1, <1>4, <2>2, <2>3
<1> QED BY <1>3, <1>4 DEF Locate

LEMMA NextPageSets ==
  ASSUME TypeOK, NEW t \in Threads, NextPage(t), page < MaxPage
  PROVE  /\ wr'[t].pc = "store" /\ wr'[t].place = <<page + 1, 0>>
         /\ wr'[t].frame = wr[t].frame
         /\ wr' \in [Threads -> Calls]
         /\ \A r \in Threads : r # t => wr'[r] = wr[r]
<1>1. wr \in [Threads -> Calls]
  BY DEF TypeOK
<1>2. wr[t] \in Calls
  BY <1>1
<1>3. wr' = [wr EXCEPT ![t] = [wr[t] EXCEPT !.pc = "store", !.place = <<page + 1, 0>>]]
  BY DEF NextPage
<1>4. wr'[t] = [wr[t] EXCEPT !.pc = "store", !.place = <<page + 1, 0>>]
  BY <1>1, <1>3
<1>5. wr'[t] = [pc |-> "store", place |-> <<page + 1, 0>>, frame |-> wr[t].frame]
  BY <1>2, <1>4 DEF Calls
<1>6. <<page + 1, 0>> \in Places
  BY ThreadAssumption DEF TypeOK, Places
<1>7. wr'[t] \in Calls
  BY <1>2, <1>4, <1>6 DEF Calls
<1> QED BY <1>1, <1>3, <1>5, <1>7

LEMMA StoreSets ==
  ASSUME TypeOK, NEW t \in Threads, Store(t)
  PROVE  /\ wr'[t] = NotWriting
         /\ wr' \in [Threads -> Calls]
         /\ \A r \in Threads : r # t => wr'[r] = wr[r]
<1>1. wr \in [Threads -> Calls] /\ wr' = [wr EXCEPT ![t] = NotWriting]
  BY DEF TypeOK, Store
<1>2. NotWriting \in Calls
  BY ThreadAssumption DEF NotWriting, Calls, Places
<1> QED BY <1>1, <1>2
-----------------------------------------------------------------------------
(* The threads keep to the mutex and to their own programs. *)
LEMMA ControlStep ==
  ASSUME TypeOK, Control, [Next]_vars
  PROVE  Control'
<1> USE ThreadAssumption DEF Users, Threads, Nobody, threads, writer, TypeOK, Control,
      MutexHeld, TaskStarts, WritesWhere, Writes, SpinsHeld, PagedAsks, Answers
<1>1. CASE Register
  BY <1>1 DEF Register
<1>2. CASE RequestLast
  BY <1>2 DEF RequestLast
<1>3. CASE SeekToEnd
  <2>1. Begin("main", 0)
    BY <1>3 DEF SeekToEnd
  <2>2. /\ wr'["main"].pc = "locate"
        /\ wr'["socket"] = wr["socket"] /\ wr'["task"] = wr["task"]
    BY <2>1, BeginSets
  <2> QED BY <1>3, <2>2 DEF SeekToEnd
<1>4. CASE WriteStart
  <2>1. Begin("main", issued + 1)
    BY <1>4 DEF WriteStart
  <2>2. /\ wr'["main"].pc = "locate"
        /\ wr'["socket"] = wr["socket"] /\ wr'["task"] = wr["task"]
    BY <2>1, BeginSets
  <2> QED BY <1>4, <2>2 DEF WriteStart
<1>5. CASE Started
  BY <1>5 DEF Started
<1>6. CASE SocketLock
  BY <1>6 DEF SocketLock, Unlocked
<1>7. CASE ProcessMsg
  <2>1. \/ /\ wr'["socket"].pc = "locate"
           /\ wr'["main"] = wr["main"] /\ wr'["task"] = wr["task"]
        \/ UNCHANGED wr
    BY <1>7, BeginSets DEF ProcessMsg
  <2> QED BY <1>7, <2>1 DEF ProcessMsg
<1>8. CASE Reply
  BY <1>8 DEF Reply
<1>9. CASE TaskLock
  BY <1>9 DEF TaskLock, Unlocked
<1>10. ASSUME NEW c \in Clients, Remove(c) PROVE Control'
  <2>1. /\ wr'["task"].pc = "locate"
        /\ wr'["main"] = wr["main"] /\ wr'["socket"] = wr["socket"]
    BY <1>10, BeginSets DEF Remove
  <2> QED BY <1>10, <2>1 DEF Remove
<1>11. CASE TaskUnlock
  BY <1>11 DEF TaskUnlock
<1>12. CASE CommLock
  BY <1>12 DEF CommLock, Unlocked
<1>13. CASE CommServe
  BY <1>13 DEF CommServe
<1>14. ASSUME NEW t \in Threads, Locate(t) PROVE Control'
  <2>1. wr[t].pc = "locate" /\ UNCHANGED <<mutex, threads, ask, page>>
    BY <1>14 DEF Locate
  <2> QED BY <1>14, <2>1, LocateSets
<1>15. ASSUME NEW t \in Threads, NextPage(t) PROVE Control'
  <2>1. /\ wr[t].pc = "spin" /\ slot[Paged] = "allocated"
        /\ page' = page + 1
        /\ UNCHANGED <<mutex, threads, ask, slot>>
    BY <1>15 DEF NextPage
  <2>2. page < MaxPage /\ \A r \in Threads : wr'[r].pc # "spin"
    BY <2>1, <1>15, NextPageSets
  <2> QED BY <2>1, <2>2, <1>15, NextPageSets
<1>16. ASSUME NEW t \in Threads, Store(t) PROVE Control'
  BY <1>16, StoreSets DEF Store, NotWriting
<1>17. ASSUME NEW u \in Users, Accept(u) PROVE Control'
  BY <1>17 DEF Accept
<1>18. ASSUME NEW u \in Users, CommSee(u) PROVE Control'
  BY <1>18 DEF CommSee
<1>19. ASSUME NEW c \in Clients, NEW k \in {"plain", "frame"}, Ask(c, k) PROVE
   Control'
  BY <1>19 DEF Ask
<1>20. ASSUME NEW c \in Clients, RequestPage(c) PROVE Control'
  BY <1>20 DEF RequestPage
<1>21. ASSUME NEW c \in Clients, Die(c) PROVE Control'
  BY <1>21 DEF Die
<1>22. CASE UNCHANGED vars
  BY <1>22 DEF vars
<1> QED BY <1>1, <1>2, <1>3, <1>4, <1>5, <1>6, <1>7, <1>8, <1>9, <1>10, <1>11,
   <1>12, <1>13, <1>14, <1>15, <1>16, <1>17, <1>18, <1>19, <1>20, <1>21, <1>22
   DEF Next, Start, HandleAccept, RunTasks, StartComm, WriteFrame, UserStep

(* Frames are written only for what was asked for. *)
LEMMA BalanceStep ==
  ASSUME TypeOK, Control, Balanced, [Next]_vars
  PROVE  Balanced'
<1> USE ThreadAssumption DEF Users, Threads, Nobody, threads, writer, TypeOK
<1> DEFINE Same == /\ Owed' = Owed /\ StartOwed' = StartOwed
                   /\ UNCHANGED <<dead, issued, due>>
<1>a. ASSUME Same PROVE Balanced'
  BY <1>a DEF Balanced
<1>b. /\ IsFiniteSet(Owed) /\ Cardinality(Owed) \in Nat
      /\ IsFiniteSet(dead) /\ Cardinality(dead) \in Nat
      /\ StartOwed \in {0, 1} /\ issued \in Int /\ due \in Int
      /\ issued + Cardinality(Owed) + Cardinality(dead) + StartOwed <= due + 1
  BY FS_CardinalityType DEF Balanced, StartOwed
<1>1. CASE Register
  <2>1. Same
    BY <1>1 DEF Register, Owed, StartOwed
  <2> QED BY <1>a, <2>1
<1>2. CASE RequestLast
  <2>1. Same
    BY <1>2 DEF RequestLast, Owed, StartOwed
  <2> QED BY <1>a, <2>1
<1>3. CASE SeekToEnd
  <2>1. Same
    BY <1>3 DEF SeekToEnd, Owed, StartOwed
  <2> QED BY <1>a, <2>1
<1>4. CASE WriteStart
  <2>1. Owed' = Owed
    BY <1>4 DEF WriteStart, Owed
  <2>2. UNCHANGED <<dead, due>> /\ issued' = issued + 1 /\ StartOwed' = StartOwed - 1
    BY <1>4 DEF WriteStart, StartOwed
  <2> QED BY <1>b, <2>1, <2>2 DEF Balanced
<1>5. CASE Started
  <2>1. Same
    BY <1>5 DEF Started, Owed, StartOwed
  <2> QED BY <1>a, <2>1
<1>6. CASE SocketLock
  <2>1. Same
    BY <1>6 DEF SocketLock, Owed, StartOwed
  <2> QED BY <1>a, <2>1
<1>7. CASE ProcessMsg
  <2>1. UNCHANGED <<dead, due>> /\ StartOwed' = StartOwed
    BY <1>7 DEF ProcessMsg, StartOwed
  <2>2. CASE ask[socket.of] = "frame"
    <3>1. socket.of \in Owed /\ Owed' = Owed \ {socket.of}
      BY <1>7, <2>2 DEF ProcessMsg, Owed, Control, PagedAsks
    <3>2. /\ IsFiniteSet(Owed') /\ Cardinality(Owed') = Cardinality(Owed) - 1
      BY <1>b, <3>1, FS_RemoveElement
    <3>3. issued' \in {issued, issued + 1}
      BY <1>7 DEF ProcessMsg
    <3> QED BY <1>b, <2>1, <3>2, <3>3 DEF Balanced
  <2>3. CASE ask[socket.of] # "frame"
    <3>1. Owed' = Owed /\ issued' = issued
      BY <1>7, <2>3 DEF ProcessMsg, Owed
    <3> QED BY <1>a, <2>1, <3>1
  <2> QED BY <2>2, <2>3
<1>8. CASE Reply
  <2>1. Same
    BY <1>8 DEF Reply, Owed, StartOwed
  <2> QED BY <1>a, <2>1
<1>9. CASE TaskLock
  <2>1. Same
    BY <1>9 DEF TaskLock, Owed, StartOwed
  <2> QED BY <1>a, <2>1
<1>10. ASSUME NEW c \in Clients, Remove(c) PROVE Balanced'
  <2>1. Owed' = Owed
    BY <1>10 DEF Remove, Owed
  <2>2. /\ StartOwed' = StartOwed /\ due' = due /\ issued' = issued + 1
        /\ c \in dead /\ dead' = dead \ {c}
    BY <1>10 DEF Remove, StartOwed
  <2>3. IsFiniteSet(dead') /\ Cardinality(dead') = Cardinality(dead) - 1
    BY <1>b, <2>2, FS_RemoveElement
  <2> QED BY <1>b, <2>1, <2>2, <2>3 DEF Balanced
<1>11. CASE TaskUnlock
  <2>1. Same
    BY <1>11 DEF TaskUnlock, Owed, StartOwed
  <2> QED BY <1>a, <2>1
<1>12. CASE CommLock
  <2>1. Same
    BY <1>12 DEF CommLock, Owed, StartOwed
  <2> QED BY <1>a, <2>1
<1>13. CASE CommServe
  <2>1. Same
    BY <1>13 DEF CommServe, Owed, StartOwed
  <2> QED BY <1>a, <2>1
<1>14. ASSUME NEW t \in Threads, Locate(t) PROVE Balanced'
  <2>1. Same
    BY <1>14 DEF Locate, Owed, StartOwed
  <2> QED BY <1>a, <2>1
<1>15. ASSUME NEW t \in Threads, NextPage(t) PROVE Balanced'
  <2>1. Same
    BY <1>15 DEF NextPage, Owed, StartOwed
  <2> QED BY <1>a, <2>1
<1>16. ASSUME NEW t \in Threads, Store(t) PROVE Balanced'
  <2>1. Same
    BY <1>16 DEF Store, Owed, StartOwed
  <2> QED BY <1>a, <2>1
<1>17. ASSUME NEW u \in Users, Accept(u) PROVE Balanced'
  <2>1. Same
    BY <1>17 DEF Accept, Owed, StartOwed
  <2> QED BY <1>a, <2>1
<1>18. ASSUME NEW u \in Users, CommSee(u) PROVE Balanced'
  <2>1. Same
    BY <1>18 DEF CommSee, Owed, StartOwed
  <2> QED BY <1>a, <2>1
<1>19. ASSUME NEW c \in Clients, NEW k \in {"plain", "frame"}, Ask(c, k) PROVE
   Balanced'
  <2>1. UNCHANGED <<dead, issued>> /\ StartOwed' = StartOwed
    BY <1>19 DEF Ask, StartOwed
  <2>2. CASE k = "frame"
    <3>1. c \notin Owed /\ Owed' = Owed \cup {c}
      BY <1>19, <2>2 DEF Ask, Idle, Owed, Control, Answers
    <3>2. IsFiniteSet(Owed') /\ Cardinality(Owed') = Cardinality(Owed) + 1
      BY <1>b, <3>1, FS_AddElement
    <3>3. due' = due + 1
      BY <1>19, <2>2 DEF Ask
    <3> QED BY <1>b, <2>1, <3>2, <3>3 DEF Balanced
  <2>3. CASE k # "frame"
    <3>1. Owed' = Owed /\ due' = due
      BY <1>19, <2>3 DEF Ask, Idle, Owed
    <3> QED BY <1>a, <2>1, <3>1
  <2> QED BY <2>2, <2>3
<1>20. ASSUME NEW c \in Clients, RequestPage(c) PROVE Balanced'
  <2>1. Same
    BY <1>20 DEF RequestPage, Owed, StartOwed
  <2> QED BY <1>a, <2>1
<1>21. ASSUME NEW c \in Clients, Die(c) PROVE Balanced'
  <2>1. Owed' = Owed
    BY <1>21 DEF Die, Owed
  <2>2. /\ StartOwed' = StartOwed /\ due' = due + 1 /\ issued' = issued
        /\ c \notin dead /\ dead' = dead \cup {c}
    BY <1>21 DEF Die, Idle, StartOwed
  <2>3. IsFiniteSet(dead') /\ Cardinality(dead') = Cardinality(dead) + 1
    BY <1>b, <2>2, FS_AddElement
  <2> QED BY <1>b, <2>1, <2>2, <2>3 DEF Balanced
<1>22. CASE UNCHANGED vars
  <2>1. Same
    BY <1>22 DEF vars, Owed, StartOwed
  <2> QED BY <1>a, <2>1
<1> QED BY <1>1, <1>2, <1>3, <1>4, <1>5, <1>6, <1>7, <1>8, <1>9, <1>10, <1>11,
   <1>12, <1>13, <1>14, <1>15, <1>16, <1>17, <1>18, <1>19, <1>20, <1>21, <1>22
   DEF Next, Start, HandleAccept, RunTasks, StartComm, WriteFrame, UserStep

(* Every step keeps the types. *)
LEMMA TypeStep ==
  ASSUME TypeOK, Control, Balanced, FramesIssued, [Next]_vars
  PROVE  TypeOK'
<1> USE ThreadAssumption DEF Users, Threads, Nobody, threads, writer, TypeOK
<1>c. /\ IsFiniteSet(Owed) /\ Cardinality(Owed) \in Nat
      /\ IsFiniteSet(dead) /\ Cardinality(dead) \in Nat
      /\ issued + Cardinality(Owed) + Cardinality(dead) + StartOwed <= due + 1
      /\ StartOwed \in {0, 1} /\ due <= MaxFrames
  BY FS_CardinalityType DEF Balanced, StartOwed
<1>1. CASE Register
  BY <1>1 DEF Register
<1>2. CASE RequestLast
  BY <1>2 DEF RequestLast
<1>3. CASE SeekToEnd
  <2>1. wr' \in [Threads -> Calls]
    BY <1>3, BeginSets, 0 \in 0 .. MaxFrames + 1 DEF SeekToEnd
  <2>2. unit' \in [Places -> Old .. MaxFrames + 1] /\ pos' \in 0 .. PageFrames
    BY <1>3 DEF SeekToEnd, Old, Free
  <2> QED BY <1>3, <2>1, <2>2 DEF SeekToEnd
<1>4. CASE WriteStart
  <2>1. issued + 1 <= MaxFrames + 1
    BY <1>4, <1>c DEF WriteStart, StartOwed
  <2>2. wr' \in [Threads -> Calls]
    BY <1>4, <2>1, BeginSets DEF WriteStart
  <2> QED BY <1>4, <2>1, <2>2 DEF WriteStart
<1>5. CASE Started
  BY <1>5 DEF Started
<1>6. CASE SocketLock
  BY <1>6 DEF SocketLock, Unlocked
<1>7. CASE ProcessMsg
  <2>1. CASE ask[socket.of] = "frame" /\ mWriter
    <3>1. socket.of \in Owed
      BY <1>7, <2>1 DEF ProcessMsg, Owed, Control, PagedAsks
    <3>2. Cardinality(Owed) > 0
      BY <1>c, <3>1, FS_EmptySet
    <3>3. issued + 1 <= MaxFrames + 1
      BY <1>c, <3>2
    <3>4. wr' \in [Threads -> Calls] /\ issued' = issued + 1
      BY <1>7, <2>1, <3>3, BeginSets DEF ProcessMsg
    <3> QED BY <1>7, <3>3, <3>4 DEF ProcessMsg
  <2>2. CASE ~ (ask[socket.of] = "frame" /\ mWriter)
    BY <1>7, <2>2 DEF ProcessMsg
  <2> QED BY <2>1, <2>2
<1>8. CASE Reply
  BY <1>8 DEF Reply
<1>9. CASE TaskLock
  BY <1>9 DEF TaskLock, Unlocked
<1>10. ASSUME NEW c \in Clients, Remove(c) PROVE TypeOK'
  <2>1. Cardinality(dead) > 0
    BY <1>10, <1>c, FS_EmptySet DEF Remove
  <2>2. issued + 1 <= MaxFrames + 1
    BY <1>c, <2>1
  <2>3. wr' \in [Threads -> Calls]
    BY <1>10, <2>2, BeginSets DEF Remove
  <2> QED BY <1>10, <2>2, <2>3 DEF Remove
<1>11. CASE TaskUnlock
  BY <1>11 DEF TaskUnlock
<1>12. CASE CommLock
  BY <1>12 DEF CommLock, Unlocked
<1>13. CASE CommServe
  BY <1>13 DEF CommServe
<1>14. ASSUME NEW t \in Threads, Locate(t) PROVE TypeOK'
  <2>1. /\ slot' \in [Users -> {"free", "requesting", "allocated"}]
        /\ wr' \in [Threads -> Calls]
    BY <1>14, LocateSets
  <2>2. UNCHANGED <<mutex, threads, ask, dead, mWriter, page, pos, unit, issued, due, told>>
    BY <1>14 DEF Locate
  <2> QED BY <2>1, <2>2
<1>15. ASSUME NEW t \in Threads, NextPage(t) PROVE TypeOK'
  <2>1. page < MaxPage
    BY <1>15 DEF NextPage, Control, SpinsHeld
  <2>2. wr' \in [Threads -> Calls]
    BY <1>15, <2>1, NextPageSets
  <2> QED BY <1>15, <2>1, <2>2 DEF NextPage
<1>16. ASSUME NEW t \in Threads, Store(t) PROVE TypeOK'
  <2>1. wr[t].place \in Places /\ wr[t].frame \in 0 .. MaxFrames + 1
    BY DEF Calls
  <2>2. wr' \in [Threads -> Calls]
    BY <1>16, StoreSets
  <2>3. unit' \in [Places -> Old .. MaxFrames + 1]
    BY <1>16, <2>1 DEF Store, Old
  <2>4. pos' \in 0 .. PageFrames
    BY <1>16 DEF Store, HasRoom
  <2>5. told' \subseteq 1 .. issued
    <3>1. wr[t].frame <= issued
      BY DEF FramesIssued
    <3>2. told' = told \/ (wr[t].frame # 0 /\ told' = told \cup {wr[t].frame})
      BY <1>16 DEF Store
    <3>3. wr[t].frame # 0 => wr[t].frame \in 1 .. issued
      BY <2>1, <3>1
    <3>4. told \subseteq 1 .. issued
      OBVIOUS
    <3> HIDE DEF TypeOK
    <3> QED BY <3>2, <3>3, <3>4
  <2> QED BY <1>16, <2>2, <2>3, <2>4, <2>5 DEF Store
<1>17. ASSUME NEW u \in Users, Accept(u) PROVE TypeOK'
  BY <1>17 DEF Accept
<1>18. ASSUME NEW u \in Users, CommSee(u) PROVE TypeOK'
  BY <1>18 DEF CommSee
<1>19. ASSUME NEW c \in Clients, NEW k \in {"plain", "frame"}, Ask(c, k) PROVE
   TypeOK'
  BY <1>19 DEF Ask
<1>20. ASSUME NEW c \in Clients, RequestPage(c) PROVE TypeOK'
  BY <1>20 DEF RequestPage
<1>21. ASSUME NEW c \in Clients, Die(c) PROVE TypeOK'
  BY <1>21 DEF Die
<1>22. CASE UNCHANGED vars
  BY <1>22 DEF vars
<1> QED BY <1>1, <1>2, <1>3, <1>4, <1>5, <1>6, <1>7, <1>8, <1>9, <1>10, <1>11,
   <1>12, <1>13, <1>14, <1>15, <1>16, <1>17, <1>18, <1>19, <1>20, <1>21, <1>22
   DEF Next, Start, HandleAccept, RunTasks, StartComm, WriteFrame, UserStep

(* A thread writes no frame that was not issued. *)
LEMMA FramesStep ==
  ASSUME TypeOK, Control, FramesIssued, [Next]_vars
  PROVE  FramesIssued'
<1> USE ThreadAssumption DEF Users, Threads, Nobody, threads, writer, TypeOK, FramesIssued
<1>a. \A r \in Threads : wr[r].frame \in Int
  BY DEF Calls
<1>1. CASE Register
  BY <1>1 DEF Register
<1>2. CASE RequestLast
  BY <1>2 DEF RequestLast
<1>3. CASE SeekToEnd
  BY <1>3, BeginSets, 0 \in 0 .. MaxFrames + 1 DEF SeekToEnd
<1>4. CASE WriteStart
  <2>1. \A r \in Threads : wr'[r].frame \in {wr[r].frame, issued + 1}
    BY <1>4, BeginSets DEF WriteStart
  <2> QED BY <1>4, <2>1, <1>a DEF WriteStart
<1>5. CASE Started
  BY <1>5 DEF Started
<1>6. CASE SocketLock
  BY <1>6 DEF SocketLock
<1>7. CASE ProcessMsg
  <2>1. CASE UNCHANGED <<wr, issued>>
    BY <2>1
  <2>2. CASE issued' = issued + 1 /\ Begin("socket", issued + 1)
    <3>1. \A r \in Threads : wr'[r].frame \in {wr[r].frame, issued + 1}
      BY <2>2, BeginSets
    <3> QED BY <2>2, <3>1, <1>a
  <2> QED BY <1>7, <2>1, <2>2 DEF ProcessMsg
<1>8. CASE Reply
  BY <1>8 DEF Reply
<1>9. CASE TaskLock
  BY <1>9 DEF TaskLock
<1>10. ASSUME NEW c \in Clients, Remove(c) PROVE FramesIssued'
  <2>1. \A r \in Threads : wr'[r].frame \in {wr[r].frame, issued + 1}
    BY <1>10, BeginSets DEF Remove
  <2> QED BY <1>10, <2>1, <1>a DEF Remove
<1>11. CASE TaskUnlock
  BY <1>11 DEF TaskUnlock
<1>12. CASE CommLock
  BY <1>12 DEF CommLock
<1>13. CASE CommServe
  BY <1>13 DEF CommServe
<1>14. ASSUME NEW t \in Threads, Locate(t) PROVE FramesIssued'
  BY <1>14, LocateSets DEF Locate
<1>15. ASSUME NEW t \in Threads, NextPage(t) PROVE FramesIssued'
  <2>1. page < MaxPage
    BY <1>15 DEF NextPage, Control, SpinsHeld
  <2> QED BY <1>15, <2>1, NextPageSets DEF NextPage
<1>16. ASSUME NEW t \in Threads, Store(t) PROVE FramesIssued'
  BY <1>16, StoreSets DEF Store, NotWriting
<1>17. ASSUME NEW u \in Users, Accept(u) PROVE FramesIssued'
  BY <1>17 DEF Accept
<1>18. ASSUME NEW u \in Users, CommSee(u) PROVE FramesIssued'
  BY <1>18 DEF CommSee
<1>19. ASSUME NEW c \in Clients, NEW k \in {"plain", "frame"}, Ask(c, k) PROVE
   FramesIssued'
  BY <1>19 DEF Ask
<1>20. ASSUME NEW c \in Clients, RequestPage(c) PROVE FramesIssued'
  BY <1>20 DEF RequestPage
<1>21. ASSUME NEW c \in Clients, Die(c) PROVE FramesIssued'
  BY <1>21 DEF Die
<1>22. CASE UNCHANGED vars
  BY <1>22 DEF vars
<1> QED BY <1>1, <1>2, <1>3, <1>4, <1>5, <1>6, <1>7, <1>8, <1>9, <1>10, <1>11,
   <1>12, <1>13, <1>14, <1>15, <1>16, <1>17, <1>18, <1>19, <1>20, <1>21, <1>22
   DEF Next, Start, HandleAccept, RunTasks, StartComm, WriteFrame, UserStep

(* Nobody asks the engine to write before Start has finished. *)
LEMMA StartAloneStep ==
  ASSUME TypeOK, Control, StartAlone, ~EarlyClients, [Next]_vars
  PROVE  StartAlone'
<1> USE ThreadAssumption DEF Users, Threads, Nobody, threads, writer, TypeOK, StartAlone, Writes
<1>1. CASE Register
  BY <1>1 DEF Register
<1>2. CASE RequestLast
  BY <1>2 DEF RequestLast
<1>3. CASE SeekToEnd
  <2>1. \A r \in Threads : r # "main" => wr'[r] = wr[r]
    BY <1>3, BeginSets, 0 \in 0 .. MaxFrames + 1 DEF SeekToEnd
  <2> QED BY <1>3, <2>1 DEF SeekToEnd
<1>4. CASE WriteStart
  <2>1. \A r \in Threads : r # "main" => wr'[r] = wr[r]
    BY <1>4, BeginSets DEF WriteStart
  <2> QED BY <1>4, <2>1 DEF WriteStart
<1>5. CASE Started
  BY <1>5 DEF Started
<1>6. CASE SocketLock
  BY <1>6 DEF SocketLock
<1>7. CASE ProcessMsg
  <2>1. main = "started" \/ ask[socket.of] # "frame"
    BY DEF Control, PagedAsks
  <2> QED BY <1>7, <2>1 DEF ProcessMsg
<1>8. CASE Reply
  BY <1>8 DEF Reply
<1>9. CASE TaskLock
  BY <1>9 DEF TaskLock
<1>10. ASSUME NEW c \in Clients, Remove(c) PROVE StartAlone'
  BY <1>10 DEF Remove
<1>11. CASE TaskUnlock
  BY <1>11 DEF TaskUnlock
<1>12. CASE CommLock
  BY <1>12 DEF CommLock
<1>13. CASE CommServe
  BY <1>13 DEF CommServe
<1>14. ASSUME NEW t \in Threads, Locate(t) PROVE StartAlone'
  <2>1. wr[t].pc # "none" /\ \A r \in Threads : r # t => wr'[r] = wr[r]
    BY <1>14, LocateSets DEF Locate
  <2> QED BY <1>14, <2>1 DEF Locate
<1>15. ASSUME NEW t \in Threads, NextPage(t) PROVE StartAlone'
  <2>1. page < MaxPage
    BY <1>15 DEF NextPage, Control, SpinsHeld
  <2>2. wr[t].pc # "none" /\ \A r \in Threads : r # t => wr'[r] = wr[r]
    BY <1>15, <2>1, NextPageSets DEF NextPage
  <2> QED BY <1>15, <2>2 DEF NextPage
<1>16. ASSUME NEW t \in Threads, Store(t) PROVE StartAlone'
  <2>1. wr[t].pc # "none" /\ \A r \in Threads : r # t => wr'[r] = wr[r]
    BY <1>16, StoreSets DEF Store
  <2> QED BY <1>16, <2>1 DEF Store
<1>17. ASSUME NEW u \in Users, Accept(u) PROVE StartAlone'
  BY <1>17 DEF Accept
<1>18. ASSUME NEW u \in Users, CommSee(u) PROVE StartAlone'
  BY <1>18 DEF CommSee
<1>19. ASSUME NEW c \in Clients, NEW k \in {"plain", "frame"}, Ask(c, k) PROVE
   StartAlone'
  BY <1>19 DEF Ask, Idle
<1>20. ASSUME NEW c \in Clients, RequestPage(c) PROVE StartAlone'
  BY <1>20 DEF RequestPage, Idle
<1>21. ASSUME NEW c \in Clients, Die(c) PROVE StartAlone'
  BY <1>21 DEF Die, Idle
<1>22. CASE UNCHANGED vars
  BY <1>22 DEF vars
<1> QED BY <1>1, <1>2, <1>3, <1>4, <1>5, <1>6, <1>7, <1>8, <1>9, <1>10, <1>11,
   <1>12, <1>13, <1>14, <1>15, <1>16, <1>17, <1>18, <1>19, <1>20, <1>21, <1>22
   DEF Next, Start, HandleAccept, RunTasks, StartComm, WriteFrame, UserStep

(* No frame is issued before the writer is there. *)
LEMMA NothingYetStep ==
  ASSUME TypeOK, Control, FramesIssued, StartAlone, NothingYet, [Next]_vars
  PROVE  NothingYet'
<1> USE ThreadAssumption DEF Users, Threads, Nobody, threads, writer, TypeOK, NothingYet
<1>1. CASE Register
  BY <1>1 DEF Register
<1>2. CASE RequestLast
  BY <1>2 DEF RequestLast
<1>3. CASE SeekToEnd
  BY <1>3 DEF SeekToEnd
<1>4. CASE WriteStart
  BY <1>4 DEF WriteStart
<1>5. CASE Started
  BY <1>5 DEF Started
<1>6. CASE SocketLock
  BY <1>6 DEF SocketLock
<1>7. CASE ProcessMsg
  <2>1. main = "started" \/ ask[socket.of] # "frame"
    BY DEF Control, PagedAsks, StartAlone
  <2> QED BY <1>7, <2>1 DEF ProcessMsg
<1>8. CASE Reply
  BY <1>8 DEF Reply
<1>9. CASE TaskLock
  BY <1>9 DEF TaskLock
<1>10. ASSUME NEW c \in Clients, Remove(c) PROVE NothingYet'
  BY <1>10 DEF Remove, StartAlone
<1>11. CASE TaskUnlock
  BY <1>11 DEF TaskUnlock
<1>12. CASE CommLock
  BY <1>12 DEF CommLock
<1>13. CASE CommServe
  BY <1>13 DEF CommServe
<1>14. ASSUME NEW t \in Threads, Locate(t) PROVE NothingYet'
  BY <1>14 DEF Locate
<1>15. ASSUME NEW t \in Threads, NextPage(t) PROVE NothingYet'
  BY <1>15 DEF NextPage
<1>16. ASSUME NEW t \in Threads, Store(t) PROVE NothingYet'
  <2>1. wr[t].frame \in Nat /\ wr[t].frame <= issued
    BY DEF Calls, FramesIssued
  <2>2. issued = 0 => wr[t].frame = 0
    BY <2>1
  <2> QED BY <1>16, <2>2 DEF Store
<1>17. ASSUME NEW u \in Users, Accept(u) PROVE NothingYet'
  BY <1>17 DEF Accept
<1>18. ASSUME NEW u \in Users, CommSee(u) PROVE NothingYet'
  BY <1>18 DEF CommSee
<1>19. ASSUME NEW c \in Clients, NEW k \in {"plain", "frame"}, Ask(c, k) PROVE
   NothingYet'
  BY <1>19 DEF Ask
<1>20. ASSUME NEW c \in Clients, RequestPage(c) PROVE NothingYet'
  BY <1>20 DEF RequestPage
<1>21. ASSUME NEW c \in Clients, Die(c) PROVE NothingYet'
  BY <1>21 DEF Die
<1>22. CASE UNCHANGED vars
  BY <1>22 DEF vars
<1> QED BY <1>1, <1>2, <1>3, <1>4, <1>5, <1>6, <1>7, <1>8, <1>9, <1>10, <1>11,
   <1>12, <1>13, <1>14, <1>15, <1>16, <1>17, <1>18, <1>19, <1>20, <1>21, <1>22
   DEF Next, Start, HandleAccept, RunTasks, StartComm, WriteFrame, UserStep

(* Whoever writes is alone: after Start by the mutex, before by being the    *)
(* only thread that has something to write.                                *)
LEMMA Alone ==
  ASSUME TypeOK, Control, StartAlone
  PROVE  OneWriter
<1>1. ~ (Writes("socket") /\ Writes("task"))
  BY DEF Control, MutexHeld, WritesWhere
<1>2. Writes("main") => ~Writes("socket") /\ ~Writes("task")
  BY DEF Control, WritesWhere, StartAlone
<1> QED BY <1>1, <1>2 DEF OneWriter, Threads

(* What is written stays, and is before the place of the writer. *)
LEMMA PlacesStep ==
  ASSUME TypeOK, TypeOK', Control, FramesIssued, Order, [Next]_vars
  PROVE  WrittenBefore' /\ StoresAtPlace' /\ WrittenIsThere'
<1> USE ThreadAssumption DEF Order, threads, writer
<1>a. ASSUME UNCHANGED <<page, pos, unit, told>>,
             \A r \in Threads : wr'[r] = wr[r] \/ wr'[r].pc = "locate"
      PROVE  WrittenBefore' /\ StoresAtPlace' /\ WrittenIsThere'
  BY <1>a DEF WrittenBefore, StoresAtPlace, WrittenIsThere, Before, HasRoom
<1>b. /\ page \in 1 .. MaxPage /\ pos \in 0 .. PageFrames /\ pos' \in 0 .. PageFrames
      /\ issued \in Int /\ told \subseteq 1 .. issued
      /\ unit \in [Places -> Old .. MaxFrames + 1]
      /\ unit' \in [Places -> Old .. MaxFrames + 1]
      /\ wr \in [Threads -> Calls]
      /\ \A x \in Places : x[1] \in 1 .. MaxPage /\ x[2] \in 0 .. PageFrames - 1 /\
           x = <<x[1], x[2]>>
  BY DEF TypeOK, Places
<1>c. \A r, u \in Threads : Writes(r) /\ Writes(u) => r = u
  BY Alone DEF OneWriter
<1>1. CASE Register
  BY <1>1, <1>a DEF Register
<1>2. CASE RequestLast
  BY <1>2, <1>a DEF RequestLast
<1>3. CASE SeekToEnd
  <2>1. told = {} /\ told' = {}
    BY <1>3 DEF SeekToEnd, NothingYet
  <2>2. PICK n \in OldFrames :
          /\ pos' = n /\ page' = page
          /\ unit' = [x \in Places |-> IF x[1] = 1 /\ x[2] < n THEN Old ELSE Free]
    BY <1>3 DEF SeekToEnd
  <2>3. WrittenBefore'
    <3> SUFFICES ASSUME NEW x \in Places, unit'[x] # Free PROVE Before(x)'
      BY DEF WrittenBefore
    <3>1. x[1] = 1 /\ x[2] < n
      BY <2>2
    <3> QED BY <2>2, <3>1, <1>b DEF Before
  <2>4. StoresAtPlace'
    <3>1. \A r \in Threads : wr'[r].pc # "store"
      BY <1>3, BeginSets, 0 \in 0 .. MaxFrames + 1
         DEF SeekToEnd, Control, WritesWhere, StartAlone, Writes, Threads
    <3> QED BY <3>1 DEF StoresAtPlace
  <2> QED BY <2>1, <2>3, <2>4 DEF WrittenIsThere
<1>4. CASE WriteStart
  <2>1. \A r \in Threads : wr'[r] = wr[r] \/ wr'[r].pc = "locate"
    BY <1>4, <1>b, BeginSets DEF WriteStart, Threads
  <2> QED BY <1>4, <2>1, <1>a DEF WriteStart
<1>5. CASE Started
  BY <1>5, <1>a DEF Started
<1>6. CASE SocketLock
  BY <1>6, <1>a DEF SocketLock
<1>7. CASE ProcessMsg
  <2>1. \A r \in Threads : wr'[r] = wr[r] \/ wr'[r].pc = "locate"
    BY <1>7, <1>b, BeginSets DEF ProcessMsg, Threads
  <2> QED BY <1>7, <2>1, <1>a DEF ProcessMsg
<1>8. CASE Reply
  BY <1>8, <1>a DEF Reply
<1>9. CASE TaskLock
  BY <1>9, <1>a DEF TaskLock
<1>10. ASSUME NEW c \in Clients, Remove(c) PROVE WrittenBefore' /\
   StoresAtPlace' /\ WrittenIsThere'
  <2>1. \A r \in Threads : wr'[r] = wr[r] \/ wr'[r].pc = "locate"
    BY <1>10, <1>b, BeginSets DEF Remove, Threads
  <2> QED BY <1>10, <2>1, <1>a DEF Remove
<1>11. CASE TaskUnlock
  BY <1>11, <1>a DEF TaskUnlock
<1>12. CASE CommLock
  BY <1>12, <1>a DEF CommLock
<1>13. CASE CommServe
  BY <1>13, <1>a DEF CommServe
<1>14. ASSUME NEW t \in Threads, Locate(t) PROVE WrittenBefore' /\
   StoresAtPlace' /\ WrittenIsThere'
  <2>1. UNCHANGED <<page, pos, unit, told>>
    BY <1>14 DEF Locate
  <2>2. StoresAtPlace'
    BY <2>1, <1>14, LocateSets DEF StoresAtPlace, HasRoom
  <2> QED BY <2>1, <2>2 DEF WrittenBefore, WrittenIsThere, Before
<1>15. ASSUME NEW t \in Threads, NextPage(t) PROVE WrittenBefore' /\
   StoresAtPlace' /\ WrittenIsThere'
  <2>1. /\ page < MaxPage /\ page' = page + 1 /\ pos' = 0
        /\ UNCHANGED <<unit, told>>
    BY <1>15 DEF NextPage, Control, SpinsHeld
  <2>2. StoresAtPlace'
    <3>1. \A r \in Threads : r # t => ~Writes(r)'
      BY <2>1, <1>15, <1>c, NextPageSets DEF NextPage, Writes
    <3> QED BY <2>1, <1>15, <3>1, NextPageSets DEF StoresAtPlace, HasRoom, Writes
  <2>3. WrittenBefore'
    BY <2>1, <1>b DEF WrittenBefore, Before
  <2> QED BY <2>1, <2>2, <2>3 DEF WrittenIsThere
<1>16. ASSUME NEW t \in Threads, Store(t) PROVE WrittenBefore' /\
   StoresAtPlace' /\ WrittenIsThere'
  <2>1. StoresAtPlace'
    <3>1. \A r \in Threads : r # t => ~Writes(r)
      BY <1>16, <1>c DEF Store, Writes
    <3>2. \A r \in Threads : wr'[r].pc # "store"
      BY <1>16, <3>1, StoreSets DEF Writes, NotWriting
    <3> QED BY <3>2 DEF StoresAtPlace
  <2>2. CASE wr[t].frame = 0
    <3>1. UNCHANGED <<unit, page, pos, told>>
      BY <1>16, <2>2 DEF Store
    <3> QED BY <3>1, <2>1 DEF WrittenBefore, WrittenIsThere, Before
  <2>3. CASE wr[t].frame # 0
    <3> DEFINE here == <<page, pos>>
               f == wr[t].frame
    <3>1. wr[t].place = here /\ HasRoom /\ here \in Places /\ f \in Nat \ {0}
      BY <1>16, <2>3, <1>b DEF Store, StoresAtPlace, HasRoom, Places, Calls
    <3>2. unit[here] = Free
      BY <3>1, <1>b DEF WrittenBefore, Before
    <3>3. /\ unit' = [unit EXCEPT ![here] = f] /\ told' = told \cup {f}
          /\ page' = page
      BY <1>16, <2>3, <3>1 DEF Store
    <3>4. unit'[here] = f /\ \A x \in Places : x # here => unit'[x] = unit[x]
      BY <3>1, <3>3, <1>b
    <3>5. pos' = pos + 1
      BY <1>16, <2>3, <3>1, <3>4 DEF Store, Free
    <3> HIDE DEF f
    <3>6. WrittenBefore'
      <4> SUFFICES ASSUME NEW x \in Places, unit'[x] # Free PROVE Before(x)'
        BY DEF WrittenBefore
      <4>1. CASE x = here
        BY <4>1, <3>3, <3>5, <1>b DEF Before
      <4>2. CASE x # here
        <5>1. Before(x)
          BY <4>2, <3>4 DEF WrittenBefore
        <5> QED BY <5>1, <3>3, <3>5, <1>b DEF Before, Places
      <4> QED BY <4>1, <4>2
    <3>7. WrittenIsThere'
      <4> SUFFICES ASSUME NEW g \in told' PROVE \E x \in Places : unit'[x] = g
        BY <1>b DEF WrittenIsThere, Range
      <4>1. CASE g = f
        BY <4>1, <3>1, <3>4
      <4>2. CASE g # f
        <5>1. PICK x \in Places : unit[x] = g
          BY <4>2, <3>3, <1>b DEF WrittenIsThere, Range
        <5>2. g # Free
          BY <4>2, <3>3, <1>b DEF Free
        <5> QED BY <5>1, <5>2, <3>2, <3>4
      <4> QED BY <4>1, <4>2
    <3> QED BY <2>1, <3>6, <3>7
  <2> QED BY <2>2, <2>3
<1>17. ASSUME NEW u \in Users, Accept(u) PROVE WrittenBefore' /\
   StoresAtPlace' /\ WrittenIsThere'
  BY <1>17, <1>a DEF Accept
<1>18. ASSUME NEW u \in Users, CommSee(u) PROVE WrittenBefore' /\
   StoresAtPlace' /\ WrittenIsThere'
  BY <1>18, <1>a DEF CommSee
<1>19. ASSUME NEW c \in Clients, NEW k \in {"plain", "frame"}, Ask(c, k) PROVE
   WrittenBefore' /\ StoresAtPlace' /\ WrittenIsThere'
  BY <1>19, <1>a DEF Ask
<1>20. ASSUME NEW c \in Clients, RequestPage(c) PROVE WrittenBefore' /\
   StoresAtPlace' /\ WrittenIsThere'
  BY <1>20, <1>a DEF RequestPage
<1>21. ASSUME NEW c \in Clients, Die(c) PROVE WrittenBefore' /\ StoresAtPlace'
   /\ WrittenIsThere'
  BY <1>21, <1>a DEF Die
<1>22. CASE UNCHANGED vars
  BY <1>22, <1>a DEF vars
<1> QED BY <1>1, <1>2, <1>3, <1>4, <1>5, <1>6, <1>7, <1>8, <1>9, <1>10, <1>11,
   <1>12, <1>13, <1>14, <1>15, <1>16, <1>17, <1>18, <1>19, <1>20, <1>21, <1>22
   DEF Next, Start, HandleAccept, RunTasks, StartComm, WriteFrame, UserStep

-----------------------------------------------------------------------------
(* The theorems.                                                           *)

LEMMA InitHolds == ASSUME Init PROVE IInv
<1> USE ThreadAssumption DEF Init, Users
<1>1. TypeOK
  <2>1. <<1, 0>> \in Places
    BY DEF Places
  <2>2. NotWriting \in Calls
    BY <2>1 DEF NotWriting, Calls
  <2>3. unit \in [Places -> Old .. MaxFrames + 1]
    BY DEF Old, Free
  <2>4. wr \in [Threads -> Calls]
    BY <2>2
  <2>5. /\ ask \in [Users -> {"none", "plain", "frame"}]
        /\ slot \in [Users -> {"free", "requesting", "allocated"}]
    BY DEF Users
  <2>6. /\ socket \in [pc : {"accept", "wait", "process", "reply"}, of : Users]
        /\ comm \in [pc : {"poll", "wait", "serve"}, of : Users]
    BY DEF Users
  <2>7. /\ page \in 1 .. MaxPage /\ pos \in 0 .. PageFrames /\ issued \in 0 .. MaxFrames + 1
        /\ due \in 0 .. MaxFrames /\ told \subseteq 1 .. issued
    OBVIOUS
  <2> QED BY <2>3, <2>4, <2>5, <2>6, <2>7 DEF TypeOK, Nobody
<1>2. Control
  BY DEF Control, MutexHeld, TaskStarts, WritesWhere, Writes, SpinsHeld, PagedAsks,
         Answers, NotWriting, Threads, Nobody
<1>3. Balanced
  <2>1. Owed = {}
    BY DEF Owed
  <2> QED BY <2>1, FS_EmptySet DEF Balanced, StartOwed
<1>4. FramesIssued
  BY DEF FramesIssued, NotWriting
<1>5. Order
  BY DEF Order, StartAlone, Writes, WrittenBefore, StoresAtPlace, NothingYet,
         WrittenIsThere, NotWriting, Threads, Free
<1> QED BY <1>1, <1>2, <1>3, <1>4, <1>5 DEF IInv

LEMMA StepHolds == ASSUME IInv, [Next]_vars PROVE IInv'
<1> USE DEF IInv
<1>1. TypeOK' /\ Control' /\ Balanced' /\ FramesIssued'
  BY TypeStep, ControlStep, BalanceStep, FramesStep
<1>2. ASSUME ~EarlyClients PROVE Order'
  <2>1. StartAlone' /\ NothingYet'
    BY <1>2, StartAloneStep, NothingYetStep DEF Order
  <2>2. WrittenBefore' /\ StoresAtPlace' /\ WrittenIsThere'
    BY <1>1, <1>2, PlacesStep
  <2> QED BY <2>1, <2>2 DEF Order
<1> QED BY <1>1, <1>2

LEMMA Invariant == Spec => []IInv
<1>1. Init => IInv
  BY InitHolds
<1>2. IInv /\ [Next]_vars => IInv'
  BY StepHolds
<1> QED BY <1>1, <1>2, PTL DEF Spec

(* Every variable of the engine's threads keeps its type, whether clients  *)
(* connect before Start has finished or not: no thread locates a frame     *)
(* outside of a page (LocateFrame, GetPage), and the engine writes no more *)
(* frames than it was asked for.                                           *)
THEOREM TypeCorrect == Spec => []TypeOK
<1>1. IInv => TypeOK
  BY DEF IInv
<1> QED BY <1>1, Invariant, PTL

(* If clients connect only after Start has finished, at most one thread of *)
(* the engine is in UnitWriter::WriteFrame, though Start writes without    *)
(* gPagedMutex.                                                            *)
THEOREM OneThreadWrites == ~EarlyClients => (Spec => []OneWriter)
<1> SUFFICES ASSUME ~EarlyClients PROVE Spec => []OneWriter
  OBVIOUS
<1>1. IInv => OneWriter
  BY Alone DEF IInv, Order
<1> QED BY <1>1, Invariant, PTL

(* If clients connect only after Start has finished, every frame whose     *)
(* PageEngine::Write has returned true is in the system unit.              *)
THEOREM WrittenFramesStay == ~EarlyClients => (Spec => []WrittenIsThere)
<1> SUFFICES ASSUME ~EarlyClients PROVE Spec => []WrittenIsThere
  OBVIOUS
<1>1. IInv => WrittenIsThere
  BY DEF IInv, Order
<1> QED BY <1>1, Invariant, PTL
=============================================================================
