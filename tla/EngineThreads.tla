--------------------------- MODULE EngineThreads ---------------------------
(***************************************************************************)
(* The threads of the page engine and its own writer.  The engine appends  *)
(* a frame to the system unit for each login, subscription, start and end  *)
(* of a strategy; it does so through a UnitWriter that is a client of the  *)
(* engine itself.  The socket thread and the task thread write under       *)
(* gPagedMutex, and the communication thread takes the same mutex to grant *)
(* the pages, those of the system unit included.                           *)
(***************************************************************************)
EXTENDS Integers, FiniteSets, Functions

CONSTANTS
  Clients,       \* the other clients of the engine
  Paged,         \* the engine as a client of itself ("paged")
  PageFrames,    \* frames that fit in a page of the system unit
  OldFrames,     \* how many there may be in the last page at the start
  MaxPage,       \* bound: pages of the system unit, from the last one on
  MaxFrames,     \* bound: frames to be written after the first
  EarlyClients   \* whether clients connect before Start has finished

ASSUME ThreadAssumption ==
  /\ Paged \notin Clients
  /\ PageFrames \in Nat \ {0} /\ MaxPage \in Nat \ {0} /\ MaxFrames \in Nat
  /\ OldFrames \subseteq 0 .. PageFrames /\ OldFrames # {}
  /\ EarlyClients \in BOOLEAN

Users == Clients \cup {Paged}
Nobody == "nobody"
Threads == {"main", "socket", "task"}   \* those that write
Places == (1 .. MaxPage) \X (0 .. PageFrames - 1)
Free == 0     \* nothing written there
Old == -1     \* a frame from before the start

VARIABLES
  mutex,     \* gPagedMutex: the thread that holds it
  main,      \* where PageEngine::Start is
  socket,    \* where HandleAccept is, and whose connection it deals with
  task,      \* where StartTask is
  comm,      \* where StartComm is, and whose slot it deals with
  ask,       \* the unanswered socket request of each user
  slot,      \* the status of each user's slot
  dead,      \* clients whose process is gone, not yet removed
  mWriter,   \* whether mWriter is set
  wr,        \* where each thread is in WriteFrame, its place and its frame
  page, pos, \* the place of the engine's writer in the system unit
  unit,      \* the system unit: the frame at each place
  issued,    \* frames begun so far
  due,       \* frames that were asked for (bounds the model)
  told       \* frames whose WriteFrame has returned

threads == <<main, socket, task, comm>>
writer == <<mWriter, wr, page, pos, unit, issued, told>>
vars == <<mutex, threads, ask, slot, dead, writer, due>>

Calls == [pc : {"none", "locate", "spin", "store"}, place : Places,
          frame : 0 .. MaxFrames + 1]
NotWriting == [pc |-> "none", place |-> <<1, 0>>, frame |-> 0]

(***************************************************************************)
(* UnitWriter::WriteFrame, by one of the engine's threads                  *)
(***************************************************************************)

Begin(t, f) == wr' = [wr EXCEPT ![t] = [@ EXCEPT !.pc = "locate", !.frame = f]]

(* Mutant of HasRoom: one frame too many. *)
HasRoomAtLimit == pos <= PageFrames
HasRoom == pos < PageFrames

(* LocateFrame: the place is there, or the next page is asked for. *)
Locate(t) ==
  /\ wr[t].pc = "locate"
  /\ \/ /\ HasRoom
        /\ wr' = [wr EXCEPT ![t] = [@ EXCEPT !.pc = "store", !.place = <<page, pos>>]]
        /\ UNCHANGED slot
     \/ /\ ~HasRoom /\ page < MaxPage
        /\ wr' = [wr EXCEPT ![t].pc = "spin"]
        /\ slot' = [slot EXCEPT ![Paged] = "requesting"]
  /\ UNCHANGED <<mutex, threads, ask, dead, mWriter, page, pos, unit, issued, due, told>>

(* GetPage: the busy wait is over. *)
NextPage(t) ==
  /\ wr[t].pc = "spin" /\ slot[Paged] = "allocated"
  /\ page' = page + 1 /\ pos' = 0
  /\ wr' = [wr EXCEPT ![t] = [@ EXCEPT !.pc = "store", !.place = <<page + 1, 0>>]]
  /\ UNCHANGED <<mutex, threads, ask, slot, dead, mWriter, unit, issued, due, told>>

(* The frame is written and passed; a frame without a length (nothing was  *)
(* written there) is not passed.  SeekToEnd only locates.                  *)
Store(t) ==
  /\ wr[t].pc = "store"
  /\ IF wr[t].frame = 0
     THEN UNCHANGED <<unit, pos, told>>
     ELSE /\ unit' = [unit EXCEPT ![wr[t].place] = wr[t].frame]
          /\ pos' = IF HasRoom /\ unit'[<<page, pos>>] # Free THEN pos + 1 ELSE pos
          /\ told' = told \cup {wr[t].frame}
  /\ wr' = [wr EXCEPT ![t] = NotWriting]
  /\ UNCHANGED <<mutex, threads, ask, slot, dead, mWriter, page, issued, due>>

(***************************************************************************)
(* The main thread: PageEngine::Start                                      *)
(***************************************************************************)

(* UnitWriter::Create: client and unit are registered over the socket. *)
Register ==
  /\ main = "launched"
  /\ main' = "asked"
  /\ ask' = [ask EXCEPT ![Paged] = "plain"]
  /\ UNCHANGED <<mutex, socket, task, comm, slot, dead, writer, due>>

(* SeekToEnd: the last page is asked for ... *)
RequestLast ==
  /\ main = "asked" /\ ask[Paged] = "none"
  /\ main' = "seek"
  /\ slot' = [slot EXCEPT ![Paged] = "requesting"]
  /\ UNCHANGED <<mutex, socket, task, comm, ask, dead, writer, due>>

(* ... it may hold frames, and a place behind them is located. *)
SeekToEnd ==
  /\ main = "seek" /\ slot[Paged] = "allocated"
  /\ main' = "locating"
  /\ \E n \in OldFrames :
       /\ pos' = n
       /\ unit' = [x \in Places |-> IF x[1] = 1 /\ x[2] < n THEN Old ELSE Free]
  /\ Begin("main", 0)
  /\ UNCHANGED <<mutex, socket, task, comm, ask, slot, dead, mWriter, page, issued,
                 due, told>>

(* The writer is there, the task thread is started, and PAGED_START is     *)
(* written, without the mutex.                                             *)
WriteStart ==
  /\ main = "locating" /\ wr["main"].pc = "none"
  /\ main' = "writing" /\ task' = "sleep"
  /\ mWriter' = TRUE
  /\ issued' = issued + 1
  /\ Begin("main", issued + 1)
  /\ UNCHANGED <<mutex, socket, comm, ask, slot, dead, page, pos, unit, due, told>>

Started ==
  /\ main = "writing" /\ wr["main"].pc = "none"
  /\ main' = "started"
  /\ UNCHANGED <<mutex, socket, task, comm, ask, slot, dead, writer, due>>

(***************************************************************************)
(* The mutex                                                               *)
(***************************************************************************)

(* Mutant of Unlocked: AcquireMutex does not wait. *)
NeverLocked == TRUE
Unlocked == mutex = Nobody

(***************************************************************************)
(* The socket thread: HandleAccept, ProcessMsg                             *)
(***************************************************************************)

Accept(u) ==
  /\ socket.pc = "accept" /\ ask[u] # "none"
  /\ socket' = [pc |-> "wait", of |-> u]
  /\ UNCHANGED <<mutex, main, task, comm, ask, slot, dead, writer, due>>

SocketLock ==
  /\ socket.pc = "wait" /\ Unlocked
  /\ mutex' = "socket"
  /\ socket' = [socket EXCEPT !.pc = "process"]
  /\ UNCHANGED <<main, task, comm, ask, slot, dead, writer, due>>

(* A request that only registers, or a request that writes a frame:        *)
(* RegStrategy, LoginTd, SubTicker and the like, ExitClient of a strategy. *)
ProcessMsg ==
  /\ socket.pc = "process"
  /\ socket' = [socket EXCEPT !.pc = "reply"]
  /\ IF ask[socket.of] = "frame" /\ mWriter
     THEN issued' = issued + 1 /\ Begin("socket", issued + 1)
     ELSE UNCHANGED <<issued, wr>>
  /\ UNCHANGED <<mutex, main, task, comm, ask, slot, dead, mWriter, page, pos, unit,
                 due, told>>

(* Mutant of Reply: the mutex is not released. *)
ReplyLocked ==
  /\ socket.pc = "reply" /\ wr["socket"].pc = "none"
  /\ ask' = [ask EXCEPT ![socket.of] = "none"]
  /\ socket' = [socket EXCEPT !.pc = "accept"]
  /\ UNCHANGED <<mutex, main, task, comm, slot, dead, writer, due>>

(* The response is sent and the mutex released. *)
Reply ==
  /\ socket.pc = "reply" /\ wr["socket"].pc = "none"
  /\ ask' = [ask EXCEPT ![socket.of] = "none"]
  /\ mutex' = Nobody
  /\ socket' = [socket EXCEPT !.pc = "accept"]
  /\ UNCHANGED <<main, task, comm, slot, dead, writer, due>>

(***************************************************************************)
(* The task thread: StartTask, PstPidCheck                                 *)
(***************************************************************************)

TaskLock ==
  /\ task = "sleep" /\ Unlocked
  /\ task' = "run" /\ mutex' = "task"
  /\ UNCHANGED <<main, socket, comm, ask, slot, dead, writer, due>>

(* ExitClient of a strategy whose process is gone. *)
Remove(c) ==
  /\ task = "run" /\ c \in dead /\ wr["task"].pc = "none"
  /\ dead' = dead \ {c}
  /\ slot' = [slot EXCEPT ![c] = "free"]
  /\ issued' = issued + 1
  /\ Begin("task", issued + 1)
  /\ UNCHANGED <<mutex, threads, ask, mWriter, page, pos, unit, due, told>>

TaskUnlock ==
  /\ task = "run" /\ dead = {} /\ wr["task"].pc = "none"
  /\ task' = "sleep" /\ mutex' = Nobody
  /\ UNCHANGED <<main, socket, comm, ask, slot, dead, writer, due>>

(***************************************************************************)
(* The communication thread: StartComm                                     *)
(***************************************************************************)

CommSee(u) ==
  /\ comm.pc = "poll" /\ slot[u] = "requesting"
  /\ comm' = [pc |-> "wait", of |-> u]
  /\ UNCHANGED <<mutex, main, socket, task, ask, slot, dead, writer, due>>

CommLock ==
  /\ comm.pc = "wait" /\ Unlocked
  /\ mutex' = "comm"
  /\ comm' = [comm EXCEPT !.pc = "serve"]
  /\ UNCHANGED <<main, socket, task, ask, slot, dead, writer, due>>

(* Mutant of CommServe: the mutex is not released. *)
CommServeLocked ==
  /\ comm.pc = "serve"
  /\ slot' = [slot EXCEPT ![comm.of] = "allocated"]
  /\ comm' = [comm EXCEPT !.pc = "poll"]
  /\ UNCHANGED <<mutex, main, socket, task, ask, dead, writer, due>>

CommServe ==
  /\ comm.pc = "serve"
  /\ slot' = [slot EXCEPT ![comm.of] = "allocated"]
  /\ mutex' = Nobody
  /\ comm' = [comm EXCEPT !.pc = "poll"]
  /\ UNCHANGED <<main, socket, task, ask, dead, writer, due>>

(***************************************************************************)
(* The clients: each waits for one answer at a time                        *)
(***************************************************************************)

Idle(c) == /\ EarlyClients \/ main = "started"
           /\ c \notin dead /\ ask[c] = "none" /\ slot[c] # "requesting"

(* GetSocketRsp *)
Ask(c, kind) ==
  /\ Idle(c)
  /\ kind = "frame" => due < MaxFrames
  /\ due' = IF kind = "frame" THEN due + 1 ELSE due
  /\ ask' = [ask EXCEPT ![c] = kind]
  /\ UNCHANGED <<mutex, threads, slot, dead, writer>>

(* GetPage *)
RequestPage(c) ==
  /\ Idle(c)
  /\ slot' = [slot EXCEPT ![c] = "requesting"]
  /\ UNCHANGED <<mutex, threads, ask, dead, writer, due>>

(* A strategy's process ends without ExitClient. *)
Die(c) ==
  /\ Idle(c) /\ due < MaxFrames
  /\ due' = due + 1
  /\ dead' = dead \cup {c}
  /\ UNCHANGED <<mutex, threads, ask, slot, writer>>

(***************************************************************************)
(* Specification                                                           *)
(***************************************************************************)

Init ==
  /\ mutex = Nobody
  /\ main = "launched" /\ task = "off"
  /\ socket = [pc |-> "accept", of |-> Paged] /\ comm = [pc |-> "poll", of |-> Paged]
  /\ ask = [u \in Users |-> "none"] /\ slot = [u \in Users |-> "free"] /\ dead = {}
  /\ mWriter = FALSE /\ wr = [t \in Threads |-> NotWriting]
  /\ page = 1 /\ pos = 0 /\ unit = [x \in Places |-> Free]
  /\ issued = 0 /\ due = 0 /\ told = {}

WriteFrame(t) == Locate(t) \/ NextPage(t) \/ Store(t)
Start == Register \/ RequestLast \/ SeekToEnd \/ WriteStart \/ Started
HandleAccept == SocketLock \/ ProcessMsg \/ Reply
RunTasks == (\E c \in Clients : Remove(c)) \/ TaskUnlock
StartComm == CommLock \/ CommServe
UserStep(c) == (\E k \in {"plain", "frame"} : Ask(c, k)) \/ RequestPage(c) \/ Die(c)

Next ==
  \/ Start \/ HandleAccept \/ TaskLock \/ RunTasks \/ StartComm
  \/ \E t \in Threads : WriteFrame(t)
  \/ \E u \in Users : Accept(u) \/ CommSee(u)
  \/ \E c \in Clients : UserStep(c)

Spec == Init /\ [][Next]_vars

(* Every thread runs.  A thread that waits for the mutex gets it if it is  *)
(* free again and again, for the others sleep or wait for input between    *)
(* two uses; connections and slots are dealt with in turn.                 *)
Fairness ==
  /\ WF_vars(Start) /\ WF_vars(RunTasks)
  /\ WF_vars(ProcessMsg \/ Reply) /\ WF_vars(CommServe)
  /\ \A t \in Threads : WF_vars(WriteFrame(t))
  /\ SF_vars(SocketLock) /\ SF_vars(TaskLock) /\ SF_vars(CommLock)
  /\ \A u \in Users : SF_vars(Accept(u)) /\ SF_vars(CommSee(u))

FairSpec == Spec /\ Fairness

(***************************************************************************)
(* Properties                                                              *)
(***************************************************************************)

(* Every variable has its type; no frame is located outside of a page. *)
TypeOK ==
  /\ mutex \in {Nobody, "socket", "task", "comm"}
  /\ main \in {"launched", "asked", "seek", "locating", "writing", "started"}
  /\ socket \in [pc : {"accept", "wait", "process", "reply"}, of : Users]
  /\ task \in {"off", "sleep", "run"}
  /\ comm \in [pc : {"poll", "wait", "serve"}, of : Users]
  /\ ask \in [Users -> {"none", "plain", "frame"}]
  /\ slot \in [Users -> {"free", "requesting", "allocated"}]
  /\ dead \subseteq Clients /\ mWriter \in BOOLEAN
  /\ wr \in [Threads -> Calls]
  /\ page \in 1 .. MaxPage /\ pos \in 0 .. PageFrames
  /\ unit \in [Places -> Old .. MaxFrames + 1]
  /\ issued \in 0 .. MaxFrames + 1 /\ due \in 0 .. MaxFrames
  /\ told \subseteq 1 .. issued

(* A frame whose Write has returned true is in the system unit, whichever  *)
(* threads wrote at the same time (PageEngine::Write).                     *)
WrittenIsThere == told \subseteq Range(unit)

(* Every socket request is answered and every page a client waits for is  *)
(* granted, whatever frames the engine writes meanwhile (GetSocketRsp,     *)
(* ProcessMsg, GetPage, StartComm).                                        *)
ClientsServed ==
  \A u \in Users : /\ ask[u] # "none" ~> ask[u] = "none"
                   /\ slot[u] = "requesting" ~> slot[u] = "allocated"

(* Every Write of the engine returns. *)
WriteReturns == \A t \in Threads : wr[t].pc # "none" ~> wr[t].pc = "none"
=============================================================================
