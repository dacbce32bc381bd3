------------------------------ MODULE DataPath ------------------------------
(***************************************************************************)
(* The way of market data and answers from the gateways to a strategy.     *)
(* Threads of the gateways write frames into units, each with the time of  *)
(* its process's clock; the strategy's data thread merges the units, the   *)
(* oldest frame first, and hands on what the strategy has subscribed.      *)
(* What a unit is made of, and its pages, are in UnitJournal.              *)
(***************************************************************************)
EXTENDS Integers, Sequences, FiniteSets

CONSTANTS
  MdThreads,   \* threads of a market gateway's websockets
  TgThreads,   \* threads of a trade gateway that write answers and updates
  Symbols,     \* what a strategy may subscribe the ticker of
  Second,      \* ticks in a second
  Boot,        \* the time of day when the monotonic clock was zero
  MaxTime,     \* bound: the monotonic clock
  MaxFrames    \* bound: frames of each unit

Units == {"md", "tg"}

ASSUME DataPathAssumption ==
  /\ MdThreads \cap TgThreads = {}
  /\ Second \in Nat \ {0} /\ {Boot, MaxTime} \subseteq Nat
  /\ MaxFrames \in [Units -> Nat]

VARIABLES
  now,      \* the monotonic clock
  diff,     \* secDiff of each gateway's process
  frames,   \* what is in each place of a unit
  wpos,     \* where the unit's writer is: mPosition
  flag,     \* gSl, the spin lock of the trade gateway's process
  thread,   \* what each thread of the gateways is doing
  returned, \* history: calls of WriteFrameFull that have returned
  rpos,     \* where the strategy's reader is in each unit
  scan,     \* GetNextFrame: the next unit to look at, and the oldest so far
  seen,     \* history: frames there were when GetNextFrame was called
  subs      \* tickers: not subscribed, asked for, or entered in mSubedTicker

writers == <<frames, wpos, flag, thread, returned>>
reader == <<rpos, scan, seen>>
vars == <<now, diff, writers, reader, subs>>

Threads == MdThreads \cup TgThreads
UnitOf(t) == IF t \in MdThreads THEN "md" ELSE "tg"
Order == <<"md", "tg">>
Places(u) == 1 .. MaxFrames[u] + 1
Raw == [status |-> "raw"]
Idle == [pc |-> "idle"]
Called == [next |-> 1, found |-> "none"]

Written(u, i) == i \in Places(u) /\ frames[u][i].status = "written"

(***************************************************************************)
(* NanoTimer: the clock of a process is the monotonic one, moved by the    *)
(* whole seconds of the time of day less those of the monotonic clock,     *)
(* which are read one after the other when the process begins.             *)
(***************************************************************************)

(* Mutant of GetLocalDiff: the clock's seconds are not taken off. *)
GetLocalDiffOfDay(t1, t2) == ((Boot + t1) \div Second) * Second
GetLocalDiff(t1, t2) == ((Boot + t1) \div Second - t2 \div Second) * Second
GetNano(u) == now + diff[u]

Tick == now < MaxTime /\ now' = now + 1 /\ UNCHANGED <<diff, writers, reader, subs>>

(***************************************************************************)
(* WriteFrameFull, of UnitWriter and UnitSafeWriter                        *)
(***************************************************************************)

At(t, pc) == thread[t].pc = pc
Goes(t, r) == thread' = [thread EXCEPT ![t] = r]

(* Mutant of Free: the flag is not looked at. *)
FreeOrNot == flag \in BOOLEAN
Free == ~flag

(* The place to write is the first from the position on that is not        *)
(* written.                                                                *)
Locate(u) == CHOOSE i \in wpos[u] .. MaxFrames[u] + 1 :
               ~Written(u, i) /\ \A j \in wpos[u] .. i - 1 : Written(u, j)

(* A ticker of a symbol that was asked for, which a websocket's thread     *)
(* writes as it comes...                                                   *)
OnRtnTicker(t, s) == t \in MdThreads /\ subs[s] # "no" /\ flag' = flag

(* ...or an answer or update of the trade gateway, with gSl locked. *)
Lock(t) == t \in TgThreads /\ Free /\ flag' = TRUE

Begin(t, s) ==
  LET u == UnitOf(t) IN
  /\ At(t, "idle")
  /\ wpos[u] + Cardinality({x \in Threads : UnitOf(x) = u /\ ~At(x, "idle")}) <= MaxFrames[u]
  /\ OnRtnTicker(t, s) \/ Lock(t)
  /\ wpos' = [wpos EXCEPT ![u] = Locate(u)]
  /\ Goes(t, [pc |-> "stamp", symbol |-> s, to |-> Locate(u)])
  /\ UNCHANGED <<now, diff, frames, returned, reader, subs>>

(* The fields, and the time last. *)
Stamp(t) ==
  LET u == UnitOf(t) s == thread[t].symbol IN
  /\ At(t, "stamp")
  /\ frames' = [frames EXCEPT ![u][thread[t].to] =
       [status |-> "raw", by |-> t, symbol |-> s, nano |-> GetNano(u), at |-> now,
        handed |-> FALSE, awaited |-> t \in TgThreads \/ subs[s] = "added"]]
  /\ Goes(t, [thread[t] EXCEPT !.pc = "publish"])
  /\ UNCHANGED <<now, diff, wpos, flag, returned, reader, subs>>

(* SetStatusWritten: the status of the next place, then its own;           *)
(* PassFrame; and the lock is given back.                                  *)
Publish(t) ==
  LET u == UnitOf(t) p == thread[t].to IN
  /\ At(t, "publish")
  /\ frames' = [frames EXCEPT ![u] = [i \in Places(u) |->
       IF i = p + 1 THEN Raw ELSE IF i = p THEN [@[i] EXCEPT !.status = "written"] ELSE @[i]]]
  /\ wpos' = [wpos EXCEPT ![u] = @ + 1]
  /\ flag' = (flag /\ t \in MdThreads)
  /\ returned' = [returned EXCEPT ![t] = @ + 1]
  /\ Goes(t, Idle)
  /\ UNCHANGED <<now, diff, reader, subs>>

(***************************************************************************)
(* The strategy: UnitReader and DCSSDataWrapper                            *)
(***************************************************************************)

Chosen(u) == frames[u][rpos[u]]
Readable(u) == rpos[u] \in Places(u) /\ Written(u, rpos[u])

(* Mutant of Older: the newest comes first. *)
NewerOf(u, v) == Chosen(u).nano > Chosen(v).nano
Older(u, v) == Chosen(u).nano < Chosen(v).nano

There == UNION {{u} \X {i \in rpos[u] .. MaxFrames[u] : Written(u, i)} : u \in Units}

(* GetNextFrame looks at one unit after the other... *)
LocateFrame ==
  LET u == Order[scan.next] IN
  /\ scan.next <= Len(Order)
  /\ scan' = [next |-> scan.next + 1,
              found |-> IF Readable(u) /\ (scan.found = "none" \/ Older(u, scan.found))
                        THEN u ELSE scan.found]
  /\ seen' = IF scan.next = 1 THEN There ELSE seen
  /\ UNCHANGED <<now, diff, writers, rpos, subs>>

(* Mutant of PassFrame: two frames are passed. *)
PassTwoFrames == rpos' = [rpos EXCEPT ![scan.found] = @ + 2]
PassFrame == rpos' = [rpos EXCEPT ![scan.found] = @ + 1]

(* ...and takes the oldest; Run hands it on, tickers if they are           *)
(* subscribed.                                                             *)
Hand ==
  LET u == scan.found IN
  /\ scan.next > Len(Order) /\ scan.found # "none"
  /\ PassFrame
  /\ frames' = [frames EXCEPT ![u][rpos[u]].handed =
                  u = "tg" \/ subs[Chosen(u).symbol] = "added"]
  /\ scan' = Called /\ seen' = {}
  /\ UNCHANGED <<now, diff, wpos, flag, thread, returned, subs>>

NoFrame ==
  /\ scan.next > Len(Order) /\ scan.found = "none"
  /\ scan' = Called /\ seen' = {}
  /\ UNCHANGED <<now, diff, writers, rpos, subs>>

(* SubscribeTicker, on the main thread: the market gateway has been asked  *)
(* when the page engine answers, and then the symbol is entered.           *)
MdSubscribeTicker(s) ==
  /\ subs[s] = "no" /\ subs' = [subs EXCEPT ![s] = "asked"]
  /\ UNCHANGED <<now, diff, writers, reader>>

AddTicker(s) ==
  /\ subs[s] = "asked" /\ subs' = [subs EXCEPT ![s] = "added"]
  /\ UNCHANGED <<now, diff, writers, reader>>

(***************************************************************************)
(* Specification                                                           *)
(***************************************************************************)

(* The gateways' processes began in the two seconds before. *)
Init ==
  /\ now = 2 * Second
  /\ \E t \in [Units -> 0 .. 2 * Second], s \in [Units -> 0 .. 1] :
       diff = [u \in Units |-> GetLocalDiff(t[u], t[u] + s[u])]
  /\ frames = [u \in Units |-> [i \in Places(u) |-> Raw]]
  /\ wpos = [u \in Units |-> 1] /\ flag = FALSE
  /\ thread = [t \in Threads |-> Idle] /\ returned = [t \in Threads |-> 0]
  /\ rpos = [u \in Units |-> 1] /\ scan = Called /\ seen = {}
  /\ subs = [s \in Symbols |-> "no"]

WriteFrameFull(t) ==
  \/ \E s \in Symbols : Begin(t, s)
  \/ Stamp(t) \/ Publish(t)

GetNextFrame == LocateFrame \/ Hand \/ NoFrame
SubscribeTicker(s) == MdSubscribeTicker(s) \/ AddTicker(s)

Next ==
  \/ Tick \/ GetNextFrame
  \/ \E t \in Threads : WriteFrameFull(t)
  \/ \E s \in Symbols : SubscribeTicker(s)

Spec == Init /\ [][Next]_vars

(* The data thread runs. *)
FairSpec == Spec /\ WF_vars(GetNextFrame)

(***************************************************************************)
(* Properties                                                              *)
(***************************************************************************)

(* Every frame whose write has returned is in the unit, in a place of its  *)
(* own, however the threads of the gateway went (UnitSafeWriter; the       *)
(* market gateway's writer takes no lock).                                 *)
FramesKept ==
  \A t \in Threads :
    Cardinality({i \in Places(UnitOf(t)) : Written(UnitOf(t), i) /\ frames[UnitOf(t)][i].by = t})
      >= returned[t]

(* A frame is not handed on before one that was written more than a second *)
(* before it and that was there when GetNextFrame was called, in whichever *)
(* unit and by whichever process (GetNextFrame, GetLocalDiff).             *)
OldestFirst ==
  [][Hand => \A x \in seen : Chosen(scan.found).at <= frames[x[1]][x[2]].at + Second]_vars

(* The same, without the second. *)
StrictlyOldestFirst ==
  [][Hand => \A x \in seen : Chosen(scan.found).at <= frames[x[1]][x[2]].at]_vars

(* What is written for the strategy is handed to it in the end: answers,   *)
(* and tickers of symbols for which SubscribeTicker had returned           *)
(* (GetNextFrame, Run).                                                    *)
Delivered ==
  \A u \in Units : \A i \in 1 .. MaxFrames[u] :
    Written(u, i) /\ frames[u][i].awaited ~> frames[u][i].status = "written"
                                              /\ frames[u][i].handed

(* Every ticker is: also the first after the subscription. *)
AllDelivered ==
  \A u \in Units : \A i \in 1 .. MaxFrames[u] :
    Written(u, i) ~> frames[u][i].status = "written" /\ frames[u][i].handed
=============================================================================
