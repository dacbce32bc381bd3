--------------------------- MODULE DataPathProofs ---------------------------
(***************************************************************************)
(* Proofs about DataPath, for every set of threads of the trade gateway,   *)
(* one thread of the market gateway (UnitWriter takes no lock), every      *)
(* length of a second, every time of day and every number of frames: no    *)
(* frame is lost, and frames come the oldest first to within a second.     *)
(***************************************************************************)
EXTENDS DataPath, FiniteSetTheorems, TLAPS

(* What the proofs suppose: the market gateway writes on one thread. *)
OneMdThread == \A m, n \in MdThreads : m = n

-----------------------------------------------------------------------------
(* The inductive invariant.                                                *)

Stamped == [status : {"raw", "written"}, by : Threads, symbol : Symbols, nano : Int,
            at : Nat, handed : BOOLEAN, awaited : BOOLEAN]
Cells == {Raw} \cup Stamped
Jobs == {Idle} \cup [pc : {"stamp", "publish"}, symbol : Symbols, to : Nat]

TypeOK ==
  /\ now \in Nat /\ diff \in [Units -> Int] /\ flag \in BOOLEAN
  /\ frames = [u \in Units |-> frames[u]]
  /\ \A u \in Units : frames[u] \in [Places(u) -> Cells]
  /\ wpos \in [Units -> Nat] /\ rpos \in [Units -> Nat]
  /\ \A u \in Units : /\ wpos[u] \in 1 .. MaxFrames[u] + 1
                      /\ rpos[u] \in 1 .. wpos[u]
  /\ thread \in [Threads -> Jobs] /\ returned \in [Threads -> Nat]
  /\ scan \in [next : 1 .. 3, found : Units \cup {"none"}]
  /\ subs \in [Symbols -> {"no", "asked", "added"}]

(* A thread that writes has its unit to itself: the trade gateway's by the *)
(* lock.                                                                   *)
Busy(t) == thread[t].pc # "idle"
Alone ==
  /\ \A t \in TgThreads : Busy(t) => flag
  /\ \A t, r \in Threads : Busy(t) /\ Busy(r) /\ UnitOf(t) = UnitOf(r) => t = r

(* What is before the writer's position is written and nothing else is; a  *)
(* thread writes at that position.                                         *)
Prefix == \A u \in Units : \A i \in Places(u) : Written(u, i) <=> i < wpos[u]
AtTip ==
  \A t \in Threads : Busy(t) =>
    /\ thread[t].to = wpos[UnitOf(t)] /\ wpos[UnitOf(t)] <= MaxFrames[UnitOf(t)]
    /\ thread[t].pc = "publish" => LET f == frames[UnitOf(t)][thread[t].to] IN
                                   f \in Stamped /\ f.by = t

(* A frame has the time of its process's clock, and frames of a unit are   *)
(* in the order of the monotonic clock.                                    *)
Stamps ==
  \A u \in Units : \A i \in Places(u) : frames[u][i] \in Stamped =>
    /\ frames[u][i].nano = frames[u][i].at + diff[u] /\ frames[u][i].at <= now
    /\ \A j \in Places(u) : j < i /\ i <= wpos[u] => frames[u][j].at <= frames[u][i].at
AllStamped == \A u \in Units : \A i \in Places(u) : Written(u, i) => frames[u][i] \in Stamped
Clocks == diff["md"] - diff["tg"] \in -Second .. Second

(* Every call that has returned has its frame. *)
Of(t) == {i \in Places(UnitOf(t)) :
            Written(UnitOf(t), i) /\ frames[UnitOf(t)][i].by = t}
Kept == \A t \in Threads : Cardinality(Of(t)) = returned[t]

(* Of the units it has looked at, GetNextFrame has found the one with the  *)
(* oldest frame.                                                           *)
FoundThere == scan.found # "none" => Readable(scan.found)
SeenThere == \A x \in seen : /\ x \in Units \X Nat
                             /\ rpos[x[1]] <= x[2] /\ x[2] < wpos[x[1]]
NotCalled == scan.next = 1 => seen = {} /\ scan.found = "none"
Scanned == {Order[k] : k \in 1 .. scan.next - 1}
FoundOldest ==
  \A x \in seen : x[1] \in Scanned =>
    scan.found # "none" /\ Chosen(scan.found).nano <= frames[x[1]][x[2]].nano

Writers == Alone /\ Prefix /\ AtTip /\ AllStamped /\ Stamps
Reader == FoundThere /\ SeenThere /\ NotCalled /\ FoundOldest
IInv == TypeOK /\ Writers /\ Clocks /\ Kept /\ Reader

-----------------------------------------------------------------------------
(* What the steps of WriteFrameFull do.                                    *)

LEMMA UnitOfType == \A t \in Threads : UnitOf(t) \in Units
BY DEF UnitOf, Units

(* The place located is the writer's position, which is the thread's own.  *)
LEMMA BeginSets ==
  ASSUME OneMdThread, TypeOK, Writers, NEW t \in Threads, NEW s \in Symbols, Begin(t, s)
  PROVE  /\ wpos[UnitOf(t)] <= MaxFrames[UnitOf(t)] /\ wpos' = wpos
         /\ \A r \in Threads : UnitOf(r) = UnitOf(t) => ~Busy(r)
         /\ thread' = [thread EXCEPT ![t] =
                         [pc |-> "stamp", symbol |-> s, to |-> wpos[UnitOf(t)]]]
<1> DEFINE u == UnitOf(t)
<1> USE DataPathAssumption
<1>1. u \in Units /\ wpos[u] \in 1 .. MaxFrames[u] + 1 /\ MaxFrames[u] \in Nat
  BY UnitOfType DEF TypeOK
<1>2. \A r \in Threads : UnitOf(r) = u => ~Busy(r)
  <2> SUFFICES ASSUME NEW r \in Threads, UnitOf(r) = u, Busy(r) PROVE FALSE
    OBVIOUS
  <2>1. ~Busy(t)
    BY DEF Begin, At, Busy
  <2>2. CASE t \in MdThreads
    BY <2>1, <2>2 DEF OneMdThread, UnitOf, Threads
  <2>3. CASE t \in TgThreads
    <3>1. ~flag
      BY <2>3 DEF Begin, OnRtnTicker, Lock, Free
    <3>2. r \in TgThreads
      BY <2>3 DEF UnitOf, Threads
    <3> QED BY <3>1, <3>2 DEF Writers, Alone
  <2> QED BY <2>2, <2>3 DEF Threads
<1>3. wpos[u] <= MaxFrames[u]
  <2> DEFINE S == {x \in Threads : UnitOf(x) = u /\ ~At(x, "idle")}
  <2>1. wpos[u] + Cardinality(S) <= MaxFrames[u]
    BY DEF Begin
  <2>2. S = {}
    BY <1>2 DEF Busy, At
  <2>3. Cardinality(S) = 0
    BY <2>2, FS_EmptySet
  <2> QED BY <1>1, <2>1, <2>3
<1>4. Locate(u) = wpos[u]
  <2> DEFINE P(i) == ~Written(u, i) /\ \A j \in wpos[u] .. i - 1 : Written(u, j)
  <2>1. wpos[u] \in wpos[u] .. MaxFrames[u] + 1 /\ wpos[u] \in Places(u)
    BY <1>1 DEF Places
  <2>2. ~Written(u, wpos[u])
    BY <1>1, <2>1 DEF Writers, Prefix
  <2>3. P(wpos[u])
    BY <1>1, <2>2
  <2>4. \A i \in wpos[u] .. MaxFrames[u] + 1 : P(i) => i = wpos[u]
    BY <1>1, <2>2
  <2> QED BY <2>1, <2>3, <2>4 DEF Locate
<1>5. wpos' = wpos
  BY <1>4 DEF Begin, TypeOK
<1> QED BY <1>2, <1>3, <1>4, <1>5 DEF Begin, Goes

(* The frame is stamped at the writer's position, and nowhere else. *)
LEMMA StampSets ==
  ASSUME TypeOK, Writers, NEW t \in Threads, Stamp(t)
  PROVE  LET u == UnitOf(t) p == wpos[u] IN
         /\ p \in Places(u) /\ p <= MaxFrames[u]
         /\ frames' = [v \in Units |-> frames'[v]]
         /\ \A v \in Units : frames'[v] \in [Places(v) -> Cells]
         /\ \A v \in Units : \A i \in Places(v) :
              v # u \/ i # p => frames'[v][i] = frames[v][i]
         /\ frames'[u][p] \in Stamped /\ frames'[u][p].status = "raw"
         /\ frames'[u][p].by = t /\ frames'[u][p].at = now
         /\ frames'[u][p].nano = now + diff[u]
         /\ thread' = [thread EXCEPT ![t] = [thread[t] EXCEPT !.pc = "publish"]]
<1> DEFINE u == UnitOf(t)
           p == wpos[u]
           a == t \in TgThreads \/ subs[thread[t].symbol] = "added"
           F == [status |-> "raw", by |-> t, symbol |-> thread[t].symbol,
                 nano |-> now + diff[u], at |-> now, handed |-> FALSE, awaited |-> a]
<1>1. /\ u \in Units /\ p \in Nat /\ p \in 1 .. MaxFrames[u] + 1
      /\ thread[t] \in [pc : {"stamp", "publish"}, symbol : Symbols, to : Nat]
      /\ thread[t].to = p /\ p <= MaxFrames[u]
  <2>1. u \in Units /\ wpos[u] \in Nat /\ wpos[u] \in 1 .. MaxFrames[u] + 1
    BY UnitOfType DEF TypeOK
  <2>2. thread[t].pc = "stamp" /\ thread[t] \in Jobs
    BY DEF Stamp, At, TypeOK
  <2>3. thread[t].to = p /\ p <= MaxFrames[u]
    BY <2>2 DEF Writers, AtTip, Busy
  <2> QED BY <2>1, <2>2, <2>3 DEF Jobs, Idle
<1>2. p \in Places(u)
  BY <1>1 DEF Places
<1>3. frames' = [frames EXCEPT ![u] = [frames[u] EXCEPT ![p] = F]]
  BY <1>1 DEF Stamp, GetNano
<1>4. F \in Stamped
  BY <1>1 DEF Stamped, TypeOK
<1>5. /\ F.status = "raw" /\ F.by = t /\ F.at = now /\ F.nano = now + diff[u]
  OBVIOUS
<1> HIDE DEF F
<1>6. /\ frames = [v \in Units |-> frames[v]]
      /\ \A v \in Units : frames[v] \in [Places(v) -> Cells]
  BY DEF TypeOK
<1>7. frames'[u] = [frames[u] EXCEPT ![p] = F] /\ \A v \in Units : v # u => frames'[v] = frames[v]
  BY <1>1, <1>3, <1>6
<1>8. frames'[u][p] = F /\ \A i \in Places(u) : i # p => frames'[u][i] = frames[u][i]
  BY <1>1, <1>2, <1>6, <1>7
<1>9. frames'[u] \in [Places(u) -> Cells]
  BY <1>1, <1>2, <1>4, <1>6, <1>7 DEF Cells
<1>10. frames' = [v \in Units |-> frames'[v]]
  BY <1>1, <1>3, <1>6
<1> QED BY <1>1, <1>2, <1>4, <1>5, <1>6, <1>7, <1>8, <1>9, <1>10 DEF Stamp, Goes

(* The frame at the writer's position is written, and the place behind it  *)
(* is not.                                                                 *)
LEMMA PublishSets ==
  ASSUME TypeOK, Writers, NEW t \in Threads, Publish(t)
  PROVE  LET u == UnitOf(t) p == wpos[u] IN
         /\ p \in Places(u) /\ p <= MaxFrames[u]
         /\ frames' = [v \in Units |-> frames'[v]]
         /\ \A v \in Units : frames'[v] \in [Places(v) -> Cells]
         /\ \A v \in Units : \A i \in Places(v) :
              v # u \/ (i # p /\ i # p + 1) => frames'[v][i] = frames[v][i]
         /\ frames'[u][p + 1] = Raw
         /\ frames[u][p] \in Stamped /\ frames[u][p].by = t
         /\ frames'[u][p] \in Stamped /\ frames'[u][p].status = "written"
         /\ frames'[u][p].by = t /\ frames'[u][p].at = frames[u][p].at
         /\ frames'[u][p].nano = frames[u][p].nano
         /\ wpos' = [wpos EXCEPT ![u] = p + 1]
<1> DEFINE u == UnitOf(t)
           p == wpos[u]
           F == [frames[u][p] EXCEPT !.status = "written"]
<1>1. /\ u \in Units /\ p \in Nat /\ p \in 1 .. MaxFrames[u] + 1
      /\ thread[t].to = p /\ p <= MaxFrames[u]
      /\ frames[u][p] \in Stamped /\ frames[u][p].by = t
  BY UnitOfType DEF TypeOK, Writers, AtTip, Busy, Publish, At
<1>2. p \in Places(u) /\ p + 1 \in Places(u) /\ p + 1 # p
  BY <1>1, DataPathAssumption DEF Places
<1>3. frames' = [frames EXCEPT ![u] = [i \in Places(u) |->
                   IF i = p + 1 THEN Raw ELSE IF i = p THEN [frames[u][i] EXCEPT !.status = "written"]
                   ELSE frames[u][i]]]
  BY <1>1 DEF Publish
<1>4. /\ frames = [v \in Units |-> frames[v]]
      /\ \A v \in Units : frames[v] \in [Places(v) -> Cells]
  BY DEF TypeOK
<1>5. /\ F \in Stamped /\ F.status = "written" /\ F.by = t /\ F.at = frames[u][p].at
      /\ F.nano = frames[u][p].nano
  BY <1>1 DEF Stamped
<1>6. /\ frames'[u] = [i \in Places(u) |->
                   IF i = p + 1 THEN Raw ELSE IF i = p THEN F ELSE frames[u][i]]
      /\ \A v \in Units : v # u => frames'[v] = frames[v]
  BY <1>1, <1>3, <1>4
<1> HIDE DEF F
<1>7. /\ frames'[u][p + 1] = Raw /\ frames'[u][p] = F
      /\ \A i \in Places(u) : i # p /\ i # p + 1 => frames'[u][i] = frames[u][i]
  BY <1>2, <1>6
<1>8. frames'[u] \in [Places(u) -> Cells]
  BY <1>1, <1>4, <1>5, <1>6 DEF Cells
<1>9. frames' = [v \in Units |-> frames'[v]]
  BY <1>1, <1>3, <1>4
<1>10. wpos' = [wpos EXCEPT ![u] = p + 1]
  BY DEF Publish
<1> QED BY <1>1, <1>2, <1>4, <1>5, <1>6, <1>7, <1>8, <1>9, <1>10

-----------------------------------------------------------------------------
(* Steps that do not write.                                                *)

(* The writers' part holds while only the clock moves. *)
LEMMA WritersKept ==
  ASSUME TypeOK, Writers, Clocks, Kept,
         UNCHANGED <<diff, frames, wpos, flag, thread, returned>>,
         now' \in Nat, now' >= now
  PROVE  Writers' /\ Clocks' /\ Kept'
<1> USE DEF Written
<1>1. Alone' /\ Prefix' /\ AtTip' /\ AllStamped'
  BY DEF Writers, Alone, Prefix, AtTip, AllStamped, Busy
<1>2. Stamps'
  <2>1. \A u \in Units : \A i \in Places(u) :
          frames[u][i] \in Stamped => frames[u][i].at \in Nat
    BY DEF Stamped
  <2> QED BY <2>1 DEF Writers, Stamps, TypeOK
<1>3. \A t \in Threads : Of(t)' = Of(t)
  BY DEF Of
<1> QED BY <1>1, <1>2, <1>3 DEF Writers, Clocks, Kept

(* The reader's part holds while writers add behind what there is. *)
LEMMA ReaderKept ==
  ASSUME TypeOK, TypeOK', Prefix, Prefix', Reader, UNCHANGED reader,
         \A u \in Units : wpos'[u] >= wpos[u],
         \A u \in Units : \A i \in Places(u) :
           i < wpos[u] => frames'[u][i] = frames[u][i]
  PROVE  Reader'
<1> USE DEF reader
<1>1. /\ \A u \in Units : /\ wpos[u] \in Nat /\ wpos'[u] \in Nat /\ rpos[u] \in Nat
                          /\ wpos[u] <= MaxFrames[u] + 1 /\ MaxFrames[u] \in Nat
                          /\ rpos[u] >= 1 /\ wpos'[u] >= wpos[u]
      /\ scan.found \in Units \cup {"none"}
  BY DataPathAssumption DEF TypeOK
<1>2. FoundThere' /\ (scan.found # "none" => Chosen(scan.found)' = Chosen(scan.found))
  <2> SUFFICES ASSUME scan.found # "none"
               PROVE  Readable(scan.found)' /\ Chosen(scan.found)' = Chosen(scan.found)
    BY DEF FoundThere
  <2> DEFINE u == scan.found
  <2>1. u \in Units /\ rpos[u] \in Places(u) /\ rpos[u] < wpos[u]
    BY <1>1 DEF Reader, FoundThere, Readable, Prefix
  <2>2. Written(u, rpos[u])'
    BY <1>1, <2>1 DEF Prefix
  <2> QED BY <2>1, <2>2 DEF Readable, Chosen, Written
<1>3. SeenThere'
  BY <1>1 DEF Reader, SeenThere
<1>4. NotCalled'
  BY DEF Reader, NotCalled
<1>5. FoundOldest'
  <2> SUFFICES ASSUME NEW x \in seen, x[1] \in Scanned
               PROVE  /\ scan.found # "none"
                      /\ (Chosen(scan.found).nano)' <= frames'[x[1]][x[2]].nano
    BY DEF FoundOldest, Scanned
  <2>1. x[1] \in Units /\ x[2] \in Places(x[1]) /\ x[2] < wpos[x[1]]
    BY <1>1 DEF Reader, SeenThere, Places
  <2>2. frames'[x[1]][x[2]] = frames[x[1]][x[2]]
    BY <2>1
  <2> QED BY <1>2, <2>2 DEF Reader, FoundOldest
<1> QED BY <1>2, <1>3, <1>4, <1>5 DEF Reader

-----------------------------------------------------------------------------
(* The steps of WriteFrameFull.                                            *)

LEMMA BeginStep ==
  ASSUME OneMdThread, IInv, NEW t \in Threads, NEW s \in Symbols, Begin(t, s)
  PROVE  IInv'
<1> DEFINE u == UnitOf(t)
<1>1. TypeOK /\ Writers /\ Clocks /\ Kept /\ Reader
  BY DEF IInv
<1>2. /\ wpos[u] <= MaxFrames[u] /\ wpos' = wpos /\ u \in Units /\ wpos[u] \in Nat
      /\ \A r \in Threads : UnitOf(r) = u => ~Busy(r)
      /\ thread' = [thread EXCEPT ![t] = [pc |-> "stamp", symbol |-> s, to |-> wpos[u]]]
  BY <1>1, BeginSets, UnitOfType DEF TypeOK
<1>3. UNCHANGED <<now, diff, frames, returned, reader, subs>>
  BY DEF Begin
<1>4. flag' \in BOOLEAN /\ (t \in TgThreads => flag') /\ (flag => flag')
  BY <1>1, DataPathAssumption DEF Begin, OnRtnTicker, Lock, TypeOK
<1>5. /\ thread'[t] = [pc |-> "stamp", symbol |-> s, to |-> wpos[u]]
      /\ \A r \in Threads : r # t => thread'[r] = thread[r]
      /\ thread' \in [Threads -> Jobs]
  BY <1>1, <1>2 DEF TypeOK, Jobs
<1>6. TypeOK'
  BY <1>1, <1>2, <1>3, <1>4, <1>5 DEF TypeOK, reader, Places
<1>7. Alone'
  BY <1>1, <1>2, <1>4, <1>5 DEF Writers, Alone, Busy
<1>8. Prefix' /\ AllStamped'
  BY <1>1, <1>2, <1>3 DEF Writers, Prefix, AllStamped, Written
<1>9. AtTip'
  <2> SUFFICES ASSUME NEW r \in Threads, Busy(r)'
               PROVE  /\ thread'[r].to = wpos[UnitOf(r)] /\ wpos[UnitOf(r)] <= MaxFrames[UnitOf(r)]
                      /\ thread'[r].pc = "publish" => LET f == frames[UnitOf(r)][thread'[r].to] IN
                                                      f \in Stamped /\ f.by = r
    BY <1>2, <1>3 DEF AtTip
  <2>1. CASE r = t
    BY <2>1, <1>2, <1>5
  <2>2. CASE r # t
    BY <2>2, <1>1, <1>5 DEF Writers, AtTip, Busy
  <2> QED BY <2>1, <2>2
<1>10. Stamps'
  BY <1>1, <1>2, <1>3 DEF Writers, Stamps
<1>11. Clocks' /\ Kept'
  BY <1>1, <1>3 DEF Clocks, Kept, Of, Written
<1>12. Reader'
  BY <1>1, <1>2, <1>3, <1>6, <1>8, ReaderKept DEF Writers, TypeOK
<1> QED BY <1>6, <1>7, <1>8, <1>9, <1>10, <1>11, <1>12 DEF IInv, Writers

LEMMA StampStep ==
  ASSUME IInv, NEW t \in Threads, Stamp(t)
  PROVE  IInv'
<1> DEFINE u == UnitOf(t)
           p == wpos[u]
<1>1. TypeOK /\ Writers /\ Clocks /\ Kept /\ Reader
  BY DEF IInv
<1>2. /\ p \in Places(u) /\ p <= MaxFrames[u] /\ u \in Units
      /\ frames' = [v \in Units |-> frames'[v]]
      /\ \A v \in Units : frames'[v] \in [Places(v) -> Cells]
      /\ \A v \in Units : \A i \in Places(v) :
           v # u \/ i # p => frames'[v][i] = frames[v][i]
      /\ frames'[u][p] \in Stamped /\ frames'[u][p].status = "raw"
      /\ frames'[u][p].by = t /\ frames'[u][p].at = now
      /\ frames'[u][p].nano = now + diff[u]
      /\ thread' = [thread EXCEPT ![t] = [thread[t] EXCEPT !.pc = "publish"]]
  BY <1>1, StampSets, UnitOfType
<1>3. UNCHANGED <<now, diff, wpos, flag, returned, reader, subs>> /\ thread[t].pc = "stamp"
  BY DEF Stamp, At
<1>4. /\ now \in Nat /\ diff \in [Units -> Int]
      /\ \A v \in Units : /\ wpos[v] \in Nat /\ MaxFrames[v] \in Nat
                          /\ wpos[v] \in 1 .. MaxFrames[v] + 1
      /\ frames' = [v \in Units |-> frames'[v]]
  BY <1>1, <1>2, DataPathAssumption DEF TypeOK
<1>5. /\ thread'[t].pc = "publish" /\ thread'[t].to = thread[t].to /\ thread' \in [Threads -> Jobs]
      /\ \A r \in Threads : r # t => thread'[r] = thread[r]
  <2>1. thread \in [Threads -> Jobs]
    BY <1>1 DEF TypeOK
  <2>2. thread[t] \in [pc : {"stamp", "publish"}, symbol : Symbols, to : Nat]
    BY <1>3, <2>1 DEF Jobs, Idle
  <2>3. [thread[t] EXCEPT !.pc = "publish"] \in Jobs
    BY <2>2 DEF Jobs
  <2>4. thread'[t] = [thread[t] EXCEPT !.pc = "publish"]
    BY <1>2, <2>1
  <2> QED BY <1>2, <2>1, <2>2, <2>3, <2>4
<1>6. TypeOK'
  BY <1>1, <1>2, <1>3, <1>5 DEF TypeOK, reader, Places
<1>7. /\ ~Written(u, p) /\ ~Written(u, p)'
      /\ \A v \in Units : \A i \in Places(v) : Written(v, i)' <=> Written(v, i)
  <2>1. ~Written(u, p)
    BY <1>1, <1>2, <1>4 DEF Writers, Prefix
  <2>2. ~Written(u, p)'
    BY <1>2, <1>3 DEF Written
  <2> QED BY <1>2, <2>1, <2>2 DEF Written
<1>8. Alone'
  <2>1. \A r \in Threads : Busy(r)' <=> Busy(r)
    BY <1>3, <1>5 DEF Busy
  <2> QED BY <1>1, <1>3, <2>1 DEF Writers, Alone, Threads
<1>9. Prefix'
  BY <1>1, <1>3, <1>7 DEF Writers, Prefix, Places
<1>10. AllStamped'
  BY <1>1, <1>2, <1>7 DEF Writers, AllStamped, Places
<1>11. AtTip'
  <2> SUFFICES ASSUME NEW r \in Threads, Busy(r)'
               PROVE  /\ thread'[r].to = wpos[UnitOf(r)] /\ wpos[UnitOf(r)] <= MaxFrames[UnitOf(r)]
                      /\ thread'[r].pc = "publish" => LET f == frames'[UnitOf(r)][thread'[r].to] IN
                                                      f \in Stamped /\ f.by = r
    BY <1>3 DEF AtTip
  <2>1. CASE r = t
    BY <2>1, <1>1, <1>2, <1>3, <1>5 DEF Writers, AtTip, Busy
  <2>2. CASE r # t
    <3>1. Busy(r) /\ Busy(t) /\ thread'[r] = thread[r] /\ UnitOf(r) \in Units
      BY <2>2, <1>3, <1>5, UnitOfType DEF Busy
    <3>2. UnitOf(r) # u
      BY <2>2, <3>1, <1>1 DEF Writers, Alone
    <3>3. thread[r].to = wpos[UnitOf(r)] /\ thread[r].to \in Places(UnitOf(r))
      BY <1>1, <1>4, <3>1 DEF Writers, AtTip, Places
    <3> QED BY <1>1, <1>2, <3>1, <3>2, <3>3 DEF Writers, AtTip
  <2> QED BY <2>1, <2>2
<1>12. Stamps'
  <2> SUFFICES ASSUME NEW v \in Units, NEW i \in Places(v), frames'[v][i] \in Stamped
               PROVE  /\ frames'[v][i].nano = frames'[v][i].at + diff[v]
                      /\ frames'[v][i].at <= now
                      /\ \A j \in Places(v) : j < i /\ i <= wpos[v] =>
                           frames'[v][j].at <= frames'[v][i].at
    BY <1>3 DEF Stamps, Places
  <2>1. CASE v = u /\ i = p
    <3>1. \A j \in Places(v) : j < i => frames'[v][j] = frames[v][j] /\ Written(v, j)
      BY <1>1, <1>2, <2>1 DEF Writers, Prefix, Places
    <3>2. \A j \in Places(v) : j < i => frames'[v][j].at <= now
      BY <3>1, <1>1 DEF Writers, AllStamped, Stamps
    <3> QED BY <1>2, <1>4, <2>1, <3>2
  <2>2. CASE ~ (v = u /\ i = p)
    <3>1. frames'[v][i] = frames[v][i]
      BY <1>2, <2>2
    <3>2. \A j \in Places(v) : j < i /\ i <= wpos[v] => frames'[v][j] = frames[v][j]
      BY <1>2, <1>4, <2>2 DEF Places
    <3> QED BY <3>1, <3>2, <1>1 DEF Writers, Stamps
  <2> QED BY <2>1, <2>2
<1>13. Clocks' /\ Kept'
  <2>1. \A r \in Threads : Of(r)' = Of(r)
    <3> SUFFICES ASSUME NEW r \in Threads, NEW i \in Places(UnitOf(r))
                 PROVE  Written(UnitOf(r), i)' /\ frames'[UnitOf(r)][i].by = r
                        <=> Written(UnitOf(r), i) /\ frames[UnitOf(r)][i].by = r
      BY DEF Of, Places
    <3>1. UnitOf(r) \in Units
      BY UnitOfType
    <3> QED BY <3>1, <1>2, <1>7
  <2> QED BY <1>1, <1>3, <2>1 DEF Clocks, Kept
<1>14. Reader'
  <2>1. \A v \in Units : \A i \in Places(v) : i < wpos[v] => frames'[v][i] = frames[v][i]
    BY <1>2, <1>4
  <2>2. \A v \in Units : wpos'[v] >= wpos[v]
    BY <1>3, <1>4
  <2> QED BY <1>1, <1>3, <1>6, <1>9, <2>1, <2>2, ReaderKept DEF Writers
<1> QED BY <1>6, <1>8, <1>9, <1>10, <1>11, <1>12, <1>13, <1>14 DEF IInv, Writers

LEMMA RawIsNotStamped == Raw \notin Stamped
<1> SUFFICES ASSUME Raw \in Stamped PROVE FALSE
  OBVIOUS
<1>1. DOMAIN Raw = {"status"}
  BY DEF Raw
<1>2. "by" \in DOMAIN Raw
  BY DEF Stamped
<1> QED BY <1>1, <1>2

LEMMA PublishStep ==
  ASSUME IInv, NEW t \in Threads, Publish(t)
  PROVE  IInv'
<1> DEFINE u == UnitOf(t)
           p == wpos[u]
<1>1. TypeOK /\ Writers /\ Clocks /\ Kept /\ Reader
  BY DEF IInv
<1>2. /\ p \in Places(u) /\ p <= MaxFrames[u] /\ u \in Units
      /\ frames' = [v \in Units |-> frames'[v]]
      /\ \A v \in Units : frames'[v] \in [Places(v) -> Cells]
      /\ \A v \in Units : \A i \in Places(v) :
           v # u \/ (i # p /\ i # p + 1) => frames'[v][i] = frames[v][i]
      /\ frames'[u][p + 1] = Raw
      /\ frames[u][p] \in Stamped /\ frames[u][p].by = t
      /\ frames'[u][p] \in Stamped /\ frames'[u][p].status = "written"
      /\ frames'[u][p].by = t /\ frames'[u][p].at = frames[u][p].at
      /\ frames'[u][p].nano = frames[u][p].nano
      /\ wpos' = [wpos EXCEPT ![u] = p + 1]
  BY <1>1, PublishSets, UnitOfType
<1>3. /\ UNCHANGED <<now, diff, reader, subs>> /\ thread[t].pc = "publish"
      /\ flag' = (flag /\ t \in MdThreads)
      /\ returned' = [returned EXCEPT ![t] = returned[t] + 1]
      /\ thread' = [thread EXCEPT ![t] = Idle]
  BY DEF Publish, At, Goes
<1>4. /\ now \in Nat /\ diff \in [Units -> Int] /\ wpos' \in [Units -> Nat]
      /\ wpos'[u] = p + 1 /\ \A v \in Units : v # u => wpos'[v] = wpos[v]
      /\ \A v \in Units : /\ wpos[v] \in Nat /\ MaxFrames[v] \in Nat
                          /\ wpos[v] \in 1 .. MaxFrames[v] + 1
                          /\ wpos'[v] \in 1 .. MaxFrames[v] + 1
      /\ p + 1 \in Places(u) /\ p \in Nat
  <2>1. /\ now \in Nat /\ diff \in [Units -> Int] /\ wpos \in [Units -> Nat]
        /\ \A v \in Units : wpos[v] \in 1 .. MaxFrames[v] + 1 /\ MaxFrames[v] \in Nat
    BY <1>1, DataPathAssumption DEF TypeOK
  <2>2. /\ wpos'[u] = p + 1 /\ wpos' \in [Units -> Nat]
        /\ \A v \in Units : v # u => wpos'[v] = wpos[v]
    BY <1>2, <2>1
  <2>3. \A v \in Units : wpos'[v] \in 1 .. MaxFrames[v] + 1
    BY <1>2, <2>1, <2>2
  <2>4. p + 1 \in Places(u) /\ p \in Nat
    BY <1>2, <2>1 DEF Places
  <2> QED BY <2>1, <2>2, <2>3, <2>4
<1>5. /\ thread'[t].pc = "idle" /\ thread' \in [Threads -> Jobs]
      /\ \A r \in Threads : r # t => thread'[r] = thread[r]
  BY <1>1, <1>3 DEF TypeOK, Jobs, Idle
<1>6. TypeOK'
  <2>1. \A v \in Units : rpos[v] \in 1 .. wpos'[v]
    BY <1>1, <1>4 DEF TypeOK
  <2>2. flag' \in BOOLEAN /\ returned' \in [Threads -> Nat]
    BY <1>1, <1>3 DEF TypeOK
  <2> QED BY <1>1, <1>2, <1>3, <1>4, <1>5, <2>1, <2>2 DEF TypeOK, reader, Places
<1>7. /\ ~Written(u, p) /\ ~Written(u, p + 1)
      /\ \A v \in Units : \A i \in Places(v) :
           Written(v, i)' <=> Written(v, i) \/ (v = u /\ i = p)
  <2>1. ~Written(u, p) /\ ~Written(u, p + 1)
    BY <1>1, <1>2, <1>4 DEF Writers, Prefix
  <2>2. ASSUME NEW v \in Units, NEW i \in Places(v)
        PROVE  Written(v, i)' <=> Written(v, i) \/ (v = u /\ i = p)
    <3>1. Written(v, i)' <=> frames'[v][i].status = "written"
      BY DEF Written, Places
    <3>2. CASE v = u /\ i = p
      BY <1>2, <3>1, <3>2
    <3>3. CASE v = u /\ i = p + 1
      BY <1>2, <1>4, <2>1, <3>1, <3>3 DEF Raw
    <3>4. CASE v # u \/ (i # p /\ i # p + 1)
      BY <1>2, <3>1, <3>4 DEF Written
    <3> QED BY <3>2, <3>3, <3>4
  <2> QED BY <2>1, <2>2
<1>8. Alone'
  <2>1. \A r \in Threads : Busy(r)' <=> r # t /\ Busy(r)
    BY <1>5 DEF Busy
  <2>2. \A r \in TgThreads : Busy(r)' => flag'
    <3> SUFFICES ASSUME NEW r \in TgThreads, Busy(r)' PROVE flag'
      OBVIOUS
    <3>1. r \in Threads /\ r # t /\ Busy(r) /\ Busy(t)
      BY <2>1, <1>3 DEF Threads, Busy
    <3>2. t \in MdThreads
      BY <3>1, <1>1, DataPathAssumption DEF Writers, Alone, UnitOf, Threads
    <3> QED BY <1>1, <1>3, <3>1, <3>2 DEF Writers, Alone
  <2> QED BY <1>1, <2>1, <2>2 DEF Writers, Alone, Threads
<1>9. Prefix'
  <2> SUFFICES ASSUME NEW v \in Units, NEW i \in Places(v)
               PROVE  Written(v, i)' <=> i < wpos'[v]
    BY DEF Prefix, Places
  <2>1. CASE v = u /\ i = p
    BY <1>4, <1>7, <2>1
  <2>2. CASE v # u
    BY <1>1, <1>4, <1>7, <2>2 DEF Writers, Prefix
  <2>3. CASE v = u /\ i # p
    BY <1>1, <1>4, <1>7, <2>3 DEF Writers, Prefix, Places
  <2> QED BY <2>1, <2>2, <2>3
<1>10. AllStamped'
  <2> SUFFICES ASSUME NEW v \in Units, NEW i \in Places(v), Written(v, i)'
               PROVE  frames'[v][i] \in Stamped
    BY DEF AllStamped, Places
  <2>1. CASE v = u /\ i = p
    BY <1>2, <2>1
  <2>2. CASE v # u \/ i # p
    <3>1. Written(v, i) /\ (v # u \/ i # p + 1)
      BY <1>7, <2>2
    <3> QED BY <1>1, <1>2, <2>2, <3>1 DEF Writers, AllStamped
  <2> QED BY <2>1, <2>2
<1>11. AtTip'
  <2> SUFFICES ASSUME NEW r \in Threads, Busy(r)'
               PROVE  /\ thread'[r].to = wpos'[UnitOf(r)] /\ wpos'[UnitOf(r)] <= MaxFrames[UnitOf(r)]
                      /\ thread'[r].pc = "publish" => LET f == frames'[UnitOf(r)][thread'[r].to] IN
                                                      f \in Stamped /\ f.by = r
    BY DEF AtTip
  <2>1. r # t /\ Busy(r) /\ Busy(t) /\ thread'[r] = thread[r] /\ UnitOf(r) \in Units
    BY <1>3, <1>5, UnitOfType DEF Busy
  <2>2. UnitOf(r) # u
    BY <2>1, <1>1 DEF Writers, Alone
  <2>3. thread[r].to = wpos[UnitOf(r)] /\ thread[r].to \in Places(UnitOf(r))
    BY <1>1, <1>4, <2>1 DEF Writers, AtTip, Places
  <2> QED BY <1>1, <1>2, <1>4, <2>1, <2>2, <2>3 DEF Writers, AtTip
<1>12. Stamps'
  <2> SUFFICES ASSUME NEW v \in Units, NEW i \in Places(v), frames'[v][i] \in Stamped
               PROVE  /\ frames'[v][i].nano = frames'[v][i].at + diff[v]
                      /\ frames'[v][i].at <= now
                      /\ \A j \in Places(v) : j < i /\ i <= wpos'[v] =>
                           frames'[v][j].at <= frames'[v][i].at
    BY <1>3 DEF Stamps, Places
  <2>1. v # u \/ i # p + 1
    BY <1>2, RawIsNotStamped
  <2>2. CASE v = u
    <3>1. /\ frames'[v][i].nano = frames[v][i].nano /\ frames'[v][i].at = frames[v][i].at
          /\ frames[v][i] \in Stamped
      BY <1>2, <2>1, <2>2
    <3>2. ASSUME NEW j \in Places(v), j < i, i <= wpos'[v] PROVE frames'[v][j].at = frames[v][j].at
      <4>1. j # p + 1
        BY <3>2, <2>1, <2>2, <1>4 DEF Places
      <4> QED BY <1>2, <2>2, <4>1
    <3>3. i <= wpos'[v] => i <= wpos[v]
      BY <2>1, <2>2, <1>4 DEF Places
    <3> QED BY <3>1, <3>2, <3>3, <1>1 DEF Writers, Stamps
  <2>3. CASE v # u
    <3>1. /\ frames'[v][i] = frames[v][i] /\ wpos'[v] = wpos[v]
          /\ \A j \in Places(v) : frames'[v][j] = frames[v][j]
      BY <1>2, <1>4, <2>3
    <3> QED BY <3>1, <1>1 DEF Writers, Stamps
  <2> QED BY <2>2, <2>3
<1>13. Kept'
  <2>1. \A r \in Threads : r # t => Of(r)' = Of(r)
    <3> SUFFICES ASSUME NEW r \in Threads, r # t, NEW i \in Places(UnitOf(r))
                 PROVE  Written(UnitOf(r), i)' /\ frames'[UnitOf(r)][i].by = r
                        <=> Written(UnitOf(r), i) /\ frames[UnitOf(r)][i].by = r
      BY DEF Of, Places
    <3>1. UnitOf(r) \in Units
      BY UnitOfType
    <3> QED BY <3>1, <1>2, <1>7
  <2>2. p \notin Of(t) /\ Of(t)' = Of(t) \cup {p}
    <3>1. p \notin Of(t)
      BY <1>7 DEF Of
    <3>2. ASSUME NEW i \in Places(u)
          PROVE  Written(u, i)' /\ frames'[u][i].by = t
                 <=> i = p \/ (Written(u, i) /\ frames[u][i].by = t)
      <4>1. CASE i = p
        BY <4>1, <1>2, <1>7
      <4>2. CASE i = p + 1
        BY <4>2, <1>2, <1>4, <1>7
      <4>3. CASE i # p /\ i # p + 1
        <5>1. frames'[u][i] = frames[u][i]
          BY <1>2, <4>3
        <5> QED BY <5>1, <4>3, <1>2, <1>7
      <4> QED BY <4>1, <4>2, <4>3
    <3> QED BY <3>1, <3>2, <1>2 DEF Of, Places
  <2>3. IsFiniteSet(Of(t))
    <3>1. IsFiniteSet(Places(u))
      <4>1. MaxFrames[u] + 1 \in Int
        BY <1>2, <1>4
      <4> QED BY <4>1, FS_Interval DEF Places
    <3> QED BY <3>1, FS_Subset DEF Of
  <2>4. Cardinality(Of(t)') = Cardinality(Of(t)) + 1
    BY <2>2, <2>3, FS_AddElement
  <2>5. returned'[t] = returned[t] + 1 /\ \A r \in Threads : r # t => returned'[r] = returned[r]
    BY <1>1, <1>3 DEF TypeOK
  <2> QED BY <1>1, <2>1, <2>4, <2>5 DEF Kept
<1>14. Clocks'
  BY <1>1, <1>3 DEF Clocks
<1>15. Reader'
  <2>1. \A v \in Units : \A i \in Places(v) : i < wpos[v] => frames'[v][i] = frames[v][i]
    <3> SUFFICES ASSUME NEW v \in Units, NEW i \in Places(v), i < wpos[v]
                 PROVE  frames'[v][i] = frames[v][i]
      OBVIOUS
    <3>1. v # u \/ (i # p /\ i # p + 1)
      BY <1>4 DEF Places
    <3> QED BY <1>2, <3>1
  <2>2. \A v \in Units : wpos'[v] >= wpos[v]
    BY <1>4
  <2> QED BY <1>1, <1>3, <1>6, <1>9, <2>1, <2>2, ReaderKept DEF Writers
<1> QED BY <1>6, <1>8, <1>9, <1>10, <1>11, <1>12, <1>13, <1>14, <1>15 DEF IInv, Writers

-----------------------------------------------------------------------------
(* The steps of GetNextFrame.                                              *)

(* The reader begins anew. *)
LEMMA CalledAnew ==
  ASSUME scan' = Called, seen' = {}
  PROVE  Reader'
BY DEF Called, Reader, FoundThere, SeenThere, NotCalled, FoundOldest

LEMMA LocateFrameStep ==
  ASSUME IInv, LocateFrame
  PROVE  IInv'
<1> DEFINE u == Order[scan.next]
<1>1. TypeOK /\ Writers /\ Clocks /\ Kept /\ Reader
  BY DEF IInv
<1>2. /\ UNCHANGED <<now, diff, writers, rpos, subs>>
      /\ scan.next \in 1 .. 2 /\ u \in Units /\ Order[1] = "md" /\ Order[2] = "tg"
      /\ scan' = [next |-> scan.next + 1,
                  found |-> IF Readable(u) /\ (scan.found = "none" \/ Older(u, scan.found))
                            THEN u ELSE scan.found]
      /\ seen' = IF scan.next = 1 THEN There ELSE seen
  BY <1>1 DEF LocateFrame, TypeOK, Order, Units
<1>3. /\ \A v \in Units : /\ wpos[v] \in Nat /\ rpos[v] \in Nat /\ MaxFrames[v] \in Nat
                          /\ wpos[v] \in 1 .. MaxFrames[v] + 1
                          /\ rpos[v] \in 1 .. wpos[v]
      /\ diff \in [Units -> Int] /\ scan.found \in Units \cup {"none"}
      /\ "none" \notin Units
  BY <1>1, DataPathAssumption DEF TypeOK, Units
<1>4. TypeOK'
  <2>1. scan' \in [next : 1 .. 3, found : Units \cup {"none"}]
    BY <1>2, <1>3
  <2> QED BY <1>1, <1>2, <2>1 DEF TypeOK, writers, Places
<1>5. Writers' /\ Clocks' /\ Kept'
  <2>1. now' \in Nat /\ now' >= now
    BY <1>1, <1>2 DEF TypeOK
  <2> QED BY <1>1, <1>2, <2>1, WritersKept DEF writers
<1>6. /\ \A v \in Units : Readable(v)' <=> Readable(v)
      /\ \A v \in Units : Chosen(v)' = Chosen(v)
  BY <1>2 DEF writers, Readable, Written, Chosen, Places
<1>7. FoundThere'
  <2>1. scan'.found # "none" => scan'.found \in Units /\ Readable(scan'.found)
    BY <1>1, <1>2, <1>3 DEF Reader, FoundThere
  <2> QED BY <2>1, <1>2 DEF writers, FoundThere, Readable, Written, Places
<1>8. \A x \in seen' : /\ x \in Units \X Nat
                       /\ rpos[x[1]] <= x[2] /\ x[2] < wpos[x[1]]
  <2>1. CASE scan.next = 1
    <3> SUFFICES ASSUME NEW v \in Units, NEW i \in rpos[v] .. MaxFrames[v], Written(v, i)
                 PROVE  i \in Nat /\ rpos[v] <= i /\ i < wpos[v]
      BY <1>2, <2>1 DEF There
    <3> QED BY <1>1, <1>3 DEF Writers, Prefix, Places
  <2>2. CASE scan.next # 1
    BY <1>1, <1>2, <2>2 DEF Reader, SeenThere
  <2> QED BY <2>1, <2>2
<1>9. SeenThere'
  BY <1>2, <1>8 DEF SeenThere, writers
<1>10. NotCalled'
  BY <1>2 DEF NotCalled
<1>11. FoundOldest'
  <2> SUFFICES ASSUME NEW x \in seen', x[1] \in Scanned'
               PROVE  /\ scan'.found # "none"
                      /\ Chosen(scan'.found).nano <= frames[x[1]][x[2]].nano
    BY <1>2 DEF FoundOldest, writers, Chosen
  <2>1. /\ x[1] \in Units /\ x[2] \in Places(x[1])
        /\ rpos[x[1]] <= x[2] /\ x[2] < wpos[x[1]]
    BY <1>3, <1>8 DEF Places
  <2>2. /\ Readable(x[1])
        /\ Chosen(x[1]) \in Stamped /\ frames[x[1]][x[2]] \in Stamped
    BY <1>1, <1>3, <2>1 DEF Writers, Prefix, AllStamped, Readable, Chosen, Places
  <2>3. Chosen(x[1]).nano <= frames[x[1]][x[2]].nano
    <3> DEFINE v == x[1]
               i == x[2]
               r == rpos[v]
    <3>1. r \in Places(v) /\ i \in Places(v) /\ frames[v][r] \in Stamped /\ frames[v][i] \in Stamped
      BY <2>1, <2>2 DEF Readable, Chosen
    <3>2. /\ frames[v][r].nano = frames[v][r].at + diff[v]
          /\ frames[v][i].nano = frames[v][i].at + diff[v]
      BY <1>1, <2>1, <3>1 DEF Writers, Stamps
    <3>3. r = i \/ frames[v][r].at <= frames[v][i].at
      BY <1>1, <1>3, <2>1, <3>1 DEF Writers, Stamps, Places
    <3>4. frames[v][r].at \in Int /\ frames[v][i].at \in Int /\ diff[v] \in Int
      BY <1>3, <2>1, <3>1 DEF Stamped
    <3> QED BY <3>2, <3>3, <3>4 DEF Chosen
  <2>4. \A v \in Units : Readable(v) => Chosen(v).nano \in Int
    BY <1>1 DEF Writers, AllStamped, Readable, Chosen, Stamped
  <2>5. frames[x[1]][x[2]].nano \in Int
    BY <2>2 DEF Stamped
  <2>6. CASE x[1] = u
    <3>1. CASE scan'.found = u
      BY <1>2, <1>3, <2>3, <2>6, <3>1
    <3>2. CASE scan'.found # u
      <4>1. /\ scan.found # "none" /\ scan'.found = scan.found /\ ~Older(u, scan.found)
            /\ Readable(scan.found) /\ scan.found \in Units /\ Readable(u)
        BY <1>1, <1>2, <1>3, <2>2, <2>6, <3>2 DEF Reader, FoundThere
      <4>2. Chosen(scan.found).nano <= Chosen(u).nano
        BY <1>2, <2>4, <4>1 DEF Older
      <4> QED BY <1>2, <2>3, <2>4, <2>5, <2>6, <4>1, <4>2
    <3> QED BY <3>1, <3>2
  <2>7. CASE x[1] # u
    <3>1. scan.next = 2 /\ x[1] \in Scanned
      BY <1>2, <2>7 DEF Scanned
    <3>2. x \in seen /\ scan.found # "none" /\ Chosen(scan.found).nano <= frames[x[1]][x[2]].nano
      BY <1>1, <1>2, <3>1 DEF Reader, FoundOldest
    <3>3. scan.found \in Units /\ Readable(scan.found)
      BY <1>1, <1>3, <3>2 DEF Reader, FoundThere
    <3>4. CASE scan'.found = scan.found
      BY <3>2, <3>4
    <3>5. CASE scan'.found # scan.found
      <4>1. scan'.found = u /\ Readable(u) /\ Chosen(u).nano < Chosen(scan.found).nano
        BY <1>2, <3>2, <3>5 DEF Older
      <4> QED BY <1>2, <1>3, <2>4, <2>5, <3>2, <3>3, <4>1
    <3> QED BY <3>4, <3>5
  <2> QED BY <2>6, <2>7
<1> QED BY <1>4, <1>5, <1>7, <1>9, <1>10, <1>11 DEF IInv, Reader

LEMMA HandStep ==
  ASSUME IInv, Hand
  PROVE  IInv'
<1> DEFINE u == scan.found
           p == rpos[u]
           b == u = "tg" \/ subs[Chosen(u).symbol] = "added"
           F == [frames[u][p] EXCEPT !.handed = b]
<1>1. TypeOK /\ Writers /\ Clocks /\ Kept /\ Reader
  BY DEF IInv
<1>2. /\ u \in Units /\ Readable(u) /\ p \in Places(u) /\ p < wpos[u]
      /\ frames[u][p] \in Stamped
  BY <1>1 DEF Hand, TypeOK, Reader, FoundThere, Readable, Writers, Prefix, AllStamped
<1>3. /\ UNCHANGED <<now, diff, wpos, flag, thread, returned, subs>>
      /\ scan' = Called /\ seen' = {}
      /\ rpos' = [rpos EXCEPT ![u] = rpos[u] + 1]
      /\ frames' = [frames EXCEPT ![u] = [frames[u] EXCEPT ![p] = F]]
  BY DEF Hand, PassFrame
<1>4. /\ F \in Stamped /\ F.status = frames[u][p].status /\ F.by = frames[u][p].by
      /\ F.at = frames[u][p].at /\ F.nano = frames[u][p].nano
  BY <1>2 DEF Stamped
<1> HIDE DEF F
<1>5. /\ frames = [v \in Units |-> frames[v]]
      /\ \A v \in Units : frames[v] \in [Places(v) -> Cells]
      /\ \A v \in Units : /\ wpos[v] \in Nat /\ rpos[v] \in Nat /\ MaxFrames[v] \in Nat
                          /\ wpos[v] \in 1 .. MaxFrames[v] + 1
                          /\ rpos[v] \in 1 .. wpos[v]
  BY <1>1, DataPathAssumption DEF TypeOK
<1>6. frames'[u] = [frames[u] EXCEPT ![p] = F] /\ \A v \in Units : v # u => frames'[v] = frames[v]
  BY <1>2, <1>3, <1>5
<1>7. /\ frames' = [v \in Units |-> frames'[v]]
      /\ \A v \in Units : frames'[v] \in [Places(v) -> Cells]
  BY <1>2, <1>3, <1>4, <1>5, <1>6 DEF Cells
<1>8. frames'[u][p] = F /\ \A i \in Places(u) : i # p => frames'[u][i] = frames[u][i]
  BY <1>2, <1>5, <1>6
(* Nothing but "handed" changes, in a frame that is written. *)
<1>9. ASSUME NEW v \in Units, NEW i \in Places(v)
      PROVE  /\ frames'[v][i].status = frames[v][i].status /\ frames'[v][i].by = frames[v][i].by
             /\ frames'[v][i].at = frames[v][i].at /\ frames'[v][i].nano = frames[v][i].nano
             /\ (frames'[v][i] \in Stamped) <=> (frames[v][i] \in Stamped)
             /\ i >= wpos[v] => frames'[v][i] = frames[v][i]
  <2>1. CASE v = u /\ i = p
    <3>1. frames'[v][i] = F /\ frames[v][i] = frames[u][p] /\ F \in Stamped
      BY <1>4, <1>8, <2>1
    <3>2. frames[v][i] \in Stamped /\ ~(i >= wpos[v])
      BY <1>2, <1>5, <2>1
    <3> QED BY ONLY <1>4, <3>1, <3>2
  <2>2. CASE v # u \/ i # p
    BY <1>6, <1>8, <2>2
  <2> QED BY <2>1, <2>2
<1>10. \A v \in Units : \A i \in Places(v) : Written(v, i)' <=> Written(v, i)
  BY <1>9 DEF Written, Places
<1>11. TypeOK'
  <2>1. rpos' \in [Units -> Nat] /\ \A v \in Units : rpos'[v] \in 1 .. wpos[v]
    BY <1>1, <1>2, <1>3, <1>5 DEF TypeOK
  <2>2. scan' \in [next : 1 .. 3, found : Units \cup {"none"}]
    BY <1>3 DEF Called
  <2> QED BY <1>1, <1>3, <1>7, <2>1, <2>2 DEF TypeOK, Places
<1>12. Alone' /\ Prefix'
  BY <1>1, <1>3, <1>10 DEF Writers, Alone, Busy, Prefix, Places
<1>13. AllStamped'
  BY <1>1, <1>9, <1>10 DEF Writers, AllStamped, Places
<1>14. AtTip'
  <2> SUFFICES ASSUME NEW r \in Threads, Busy(r)
               PROVE  /\ thread[r].to = wpos[UnitOf(r)] /\ wpos[UnitOf(r)] <= MaxFrames[UnitOf(r)]
                      /\ thread[r].pc = "publish" => LET f == frames'[UnitOf(r)][thread[r].to] IN
                                                     f \in Stamped /\ f.by = r
    BY <1>3 DEF AtTip, Busy
  <2>1. /\ thread[r].to = wpos[UnitOf(r)] /\ wpos[UnitOf(r)] <= MaxFrames[UnitOf(r)]
        /\ UnitOf(r) \in Units
    BY <1>1, UnitOfType DEF Writers, AtTip
  <2>2. thread[r].to \in Places(UnitOf(r))
    BY <1>5, <2>1 DEF Places
  <2> QED BY <1>1, <1>9, <2>1, <2>2 DEF Writers, AtTip
<1>15. Stamps'
  <2> SUFFICES ASSUME NEW v \in Units, NEW i \in Places(v), frames'[v][i] \in Stamped
               PROVE  /\ frames'[v][i].nano = frames'[v][i].at + diff[v]
                      /\ frames'[v][i].at <= now
                      /\ \A j \in Places(v) : j < i /\ i <= wpos[v] =>
                           frames'[v][j].at <= frames'[v][i].at
    BY <1>3 DEF Stamps, Places
  <2>1. frames[v][i] \in Stamped
    BY <1>9
  <2>2. \A j \in Places(v) : frames'[v][j].at = frames[v][j].at
    BY <1>9
  <2> QED BY <1>1, <1>9, <2>1, <2>2 DEF Writers, Stamps
<1>16. Kept'
  <2>1. \A r \in Threads : Of(r)' = Of(r)
    <3> SUFFICES ASSUME NEW r \in Threads, NEW i \in Places(UnitOf(r))
                 PROVE  Written(UnitOf(r), i)' /\ frames'[UnitOf(r)][i].by = r
                        <=> Written(UnitOf(r), i) /\ frames[UnitOf(r)][i].by = r
      BY DEF Of, Places
    <3>1. UnitOf(r) \in Units
      BY UnitOfType
    <3> QED BY <3>1, <1>9, <1>10
  <2> QED BY <1>1, <1>3, <2>1 DEF Kept
<1>17. Clocks' /\ Reader'
  BY <1>1, <1>3, CalledAnew DEF Clocks
<1> QED BY <1>11, <1>12, <1>13, <1>14, <1>15, <1>16, <1>17 DEF IInv, Writers

-----------------------------------------------------------------------------
(* The clocks.  They differ by up to a second, for each is off by the part *)
(* of a second that its process's two readings cut off.                    *)

LEMMA Quotient ==
  ASSUME NEW a \in Nat, NEW d \in Nat \ {0}
  PROVE  /\ a \div d \in Nat
         /\ (a \div d) * d <= a /\ a < (a \div d) * d + d
OBVIOUS

(* A multiple of d that is less than 2 * d is at most d. *)
LEMMA LessThanTwo ==
  ASSUME NEW k \in Int, NEW d \in Nat \ {0}, k * d < 2 * d
  PROVE  k * d <= d
<1>1. k < 2
  <2> SUFFICES ASSUME k >= 2 PROVE FALSE
    OBVIOUS
  <2> QED OBVIOUS
<1>2. CASE k = 1
  BY <1>2
<1>3. CASE k <= 0
  <2>1. k * d <= 0
    BY <1>3
  <2> QED BY <2>1
<1> QED BY <1>1, <1>2, <1>3

LEMMA DiffBounds ==
  ASSUME NEW t \in Nat, NEW s \in 0 .. 1
  PROVE  \E k \in Int : /\ GetLocalDiff(t, t + s) = k * Second
                        /\ Boot - s - Second < k * Second
                        /\ k * Second < Boot - s + Second
<1> USE DataPathAssumption
<1> DEFINE q == (Boot + t) \div Second
           r == (t + s) \div Second
<1>1. q \in Nat /\ q * Second <= Boot + t /\ Boot + t < q * Second + Second
  <2>1. Boot + t \in Nat /\ Second \in Nat \ {0}
    OBVIOUS
  <2> QED BY <2>1, Quotient
<1>2. r \in Nat /\ r * Second <= t + s /\ t + s < r * Second + Second
  <2>1. t + s \in Nat /\ Second \in Nat \ {0}
    OBVIOUS
  <2> QED BY <2>1, Quotient
<1>3. GetLocalDiff(t, t + s) = (q - r) * Second
  BY DEF GetLocalDiff
<1> HIDE DEF q, r
<1>4. (q - r) * Second = q * Second - r * Second
  BY <1>1, <1>2
<1>5. q * Second \in Int /\ r * Second \in Int /\ (q - r) * Second \in Int
  BY <1>1, <1>2
<1>6. /\ Boot - s - Second < (q - r) * Second
      /\ (q - r) * Second < Boot - s + Second
  BY <1>1, <1>2, <1>4, <1>5
<1>7. q - r \in Int
  BY <1>1, <1>2
<1> QED BY <1>3, <1>6, <1>7

LEMMA ClocksDiffer ==
  ASSUME NEW t1 \in Nat, NEW s1 \in 0 .. 1, NEW t2 \in Nat, NEW s2 \in 0 .. 1
  PROVE  /\ GetLocalDiff(t1, t1 + s1) \in Int
         /\ GetLocalDiff(t1, t1 + s1) - GetLocalDiff(t2, t2 + s2) <= Second
<1> USE DataPathAssumption
<1>1. PICK k \in Int : /\ GetLocalDiff(t1, t1 + s1) = k * Second
                       /\ k * Second < Boot - s1 + Second
  BY DiffBounds
<1>2. PICK l \in Int : /\ GetLocalDiff(t2, t2 + s2) = l * Second
                       /\ Boot - s2 - Second < l * Second
  BY DiffBounds
<1>3. k * Second \in Int /\ l * Second \in Int /\ (k - l) * Second = k * Second - l * Second
  BY <1>1, <1>2
<1>4. k - l \in Int /\ Second \in Nat \ {0} /\ (k - l) * Second \in Int
  BY <1>1, <1>2
<1>5. (k - l) * Second < 2 * Second
  <2>1. k * Second - l * Second < Second + Second
    BY <1>1, <1>2, <1>3
  <2> QED BY <1>3, <2>1
<1>6. (k - l) * Second <= Second
  BY <1>4, <1>5, LessThanTwo
<1> QED BY <1>1, <1>2, <1>3, <1>6

-----------------------------------------------------------------------------
(* The theorems.                                                           *)

LEMMA InitHolds == ASSUME Init PROVE IInv
<1> USE DataPathAssumption DEF Init
<1>1. PICK t \in [Units -> 0 .. 2 * Second], s \in [Units -> 0 .. 1] :
        diff = [u \in Units |-> GetLocalDiff(t[u], t[u] + s[u])]
  OBVIOUS
<1>2. \A u \in Units : t[u] \in Nat /\ s[u] \in 0 .. 1 /\ diff[u] = GetLocalDiff(t[u], t[u] + s[u])
  BY <1>1
<1>3. "md" \in Units /\ "tg" \in Units
  BY DEF Units
<1>4. diff \in [Units -> Int]
  BY <1>1, <1>2, ClocksDiffer
<1>5. Clocks
  <2>1. diff["md"] - diff["tg"] <= Second /\ diff["tg"] - diff["md"] <= Second
    <3>1. \A u, v \in Units : diff[u] - diff[v] <= Second
      <4> SUFFICES ASSUME NEW u \in Units, NEW v \in Units PROVE diff[u] - diff[v] <= Second
        OBVIOUS
      <4>1. /\ t[u] \in Nat /\ s[u] \in 0 .. 1 /\ t[v] \in Nat /\ s[v] \in 0 .. 1
            /\ diff[u] = GetLocalDiff(t[u], t[u] + s[u])
            /\ diff[v] = GetLocalDiff(t[v], t[v] + s[v])
        BY <1>2
      <4> HIDE DEF Init
      <4> QED BY <4>1, ClocksDiffer
    <3> QED BY <1>3, <3>1
  <2>2. diff["md"] \in Int /\ diff["tg"] \in Int
    BY <1>3, <1>4
  <2> QED BY <2>1, <2>2 DEF Clocks
<1>6. \A u \in Units : \A i \in Places(u) : ~Written(u, i) /\ frames[u][i] \notin Stamped
  BY RawIsNotStamped DEF Written, Raw
<1>7. TypeOK
  <2>1. \A u \in Units : frames[u] \in [Places(u) -> Cells]
    BY DEF Cells
  <2>2. scan \in [next : 1 .. 3, found : Units \cup {"none"}]
    BY DEF Called
  <2>3. now \in Nat /\ \A u \in Units : MaxFrames[u] \in Nat
    OBVIOUS
  <2>4. /\ wpos \in [Units -> Nat] /\ rpos \in [Units -> Nat]
        /\ \A u \in Units : wpos[u] \in 1 .. MaxFrames[u] + 1 /\ rpos[u] \in 1 .. wpos[u]
    BY <2>3
  <2>5. thread \in [Threads -> Jobs] /\ returned \in [Threads -> Nat]
    BY DEF Jobs
  <2>6. /\ frames = [u \in Units |-> frames[u]] /\ flag \in BOOLEAN
        /\ subs \in [Symbols -> {"no", "asked", "added"}]
    OBVIOUS
  <2> HIDE DEF Init
  <2> QED BY <1>4, <2>1, <2>2, <2>3, <2>4, <2>5, <2>6 DEF TypeOK
<1>8. Writers
  <2>1. \A t0 \in Threads : ~Busy(t0)
    BY DEF Busy, Idle
  <2>2. Alone /\ AtTip
    BY <2>1 DEF Alone, AtTip, Threads
  <2>3. Prefix
    BY <1>6 DEF Prefix, Places
  <2> QED BY <1>6, <2>2, <2>3 DEF Writers, AllStamped, Stamps
<1>9. Kept
  <2>1. \A t0 \in Threads : Of(t0) = {}
    BY <1>6, UnitOfType DEF Of
  <2> QED BY <2>1, FS_EmptySet DEF Kept
<1>10. Reader
  BY DEF Called, Reader, FoundThere, SeenThere, NotCalled, FoundOldest
<1> QED BY <1>5, <1>7, <1>8, <1>9, <1>10 DEF IInv

LEMMA StepHolds == ASSUME OneMdThread, IInv, [Next]_vars PROVE IInv'
<1>1. ASSUME UNCHANGED <<diff, writers, reader>>, now' \in Nat, now' >= now,
             subs' \in [Symbols -> {"no", "asked", "added"}]
      PROVE  IInv'
  <2>1. TypeOK'
    BY <1>1 DEF IInv, TypeOK, writers, reader, Places
  <2>2. Writers' /\ Clocks' /\ Kept'
    BY <1>1, WritersKept DEF IInv, writers
  <2>3. \A u \in Units : wpos'[u] >= wpos[u]
    BY <1>1 DEF writers, IInv, TypeOK
  <2>4. \A u \in Units : \A i \in Places(u) : i < wpos[u] => frames'[u][i] = frames[u][i]
    BY <1>1 DEF writers
  <2>5. Reader'
    BY <1>1, <2>1, <2>2, <2>3, <2>4, ReaderKept DEF IInv, Writers
  <2> QED BY <2>1, <2>2, <2>5 DEF IInv
<1>2. now \in Nat /\ subs \in [Symbols -> {"no", "asked", "added"}]
  BY DEF IInv, TypeOK
<1>3. CASE Tick
  BY <1>1, <1>2, <1>3 DEF Tick
<1>4. CASE LocateFrame
  BY <1>4, LocateFrameStep
<1>5. CASE Hand
  BY <1>5, HandStep
<1>6. CASE NoFrame
  <2>1. /\ UNCHANGED <<now, diff, writers, rpos, subs>>
        /\ scan' = Called /\ seen' = {}
    BY <1>6 DEF NoFrame
  <2>2. Called \in [next : 1 .. 3, found : Units \cup {"none"}]
    BY DEF Called
  <2>3. TypeOK'
    BY <2>1, <2>2 DEF IInv, TypeOK, writers, Places
  <2>4. Writers' /\ Clocks' /\ Kept'
    BY <1>2, <2>1, WritersKept DEF IInv, writers
  <2>5. Reader'
    BY <2>1, CalledAnew
  <2> QED BY <2>3, <2>4, <2>5 DEF IInv
<1>7. ASSUME NEW t \in Threads, NEW s \in Symbols, Begin(t, s) PROVE IInv'
  BY <1>7, BeginStep
<1>8. ASSUME NEW t \in Threads, Stamp(t) \/ Publish(t) PROVE IInv'
  BY <1>8, StampStep, PublishStep
<1>9. ASSUME NEW s \in Symbols, SubscribeTicker(s) PROVE IInv'
  <2>1. UNCHANGED <<now, diff, writers, reader>> /\ subs' \in [Symbols -> {"no", "asked", "added"}]
    BY <1>2, <1>9 DEF SubscribeTicker, MdSubscribeTicker, AddTicker
  <2> QED BY <1>1, <1>2, <2>1
<1>10. CASE UNCHANGED vars
  BY <1>1, <1>2, <1>10 DEF vars
<1> QED BY <1>3, <1>4, <1>5, <1>6, <1>7, <1>8, <1>9, <1>10
        DEF Next, GetNextFrame, WriteFrameFull

LEMMA Invariant == OneMdThread => (Spec => []IInv)
<1> SUFFICES ASSUME OneMdThread PROVE Spec => []IInv
  OBVIOUS
<1>1. Init => IInv
  BY InitHolds
<1>2. IInv /\ [Next]_vars => IInv'
  BY StepHolds
<1> QED BY <1>1, <1>2, PTL DEF Spec

(* If the market gateway writes on one thread, every frame whose write has *)
(* returned is in its unit, in a place of its own, however many threads    *)
(* the trade gateway has: UnitSafeWriter's spin lock is enough.            *)
THEOREM FramesAreKept == OneMdThread => (Spec => []FramesKept)
<1> SUFFICES ASSUME OneMdThread PROVE Spec => []FramesKept
  OBVIOUS
<1>1. IInv => FramesKept
  <2> SUFFICES ASSUME IInv, NEW t \in Threads PROVE Cardinality(Of(t)) >= returned[t]
    BY DEF FramesKept, Of
  <2> QED BY DEF IInv, Kept, TypeOK
<1> QED BY <1>1, Invariant, PTL

(* GetNextFrame hands on no frame before one that was there when it was    *)
(* called and is more than a second older, though the gateways' clocks     *)
(* differ by what GetLocalDiff cuts off.                                   *)
THEOREM HandedOldestFirst == OneMdThread => (Spec => OldestFirst)
<1> DEFINE Ordered == \A x \in seen :
                        Chosen(scan.found).at <= frames[x[1]][x[2]].at + Second
<1> SUFFICES ASSUME OneMdThread PROVE Spec => OldestFirst
  OBVIOUS
<1>1. ASSUME IInv, Hand PROVE Ordered
  <2> SUFFICES ASSUME NEW x \in seen
               PROVE  Chosen(scan.found).at <= frames[x[1]][x[2]].at + Second
    OBVIOUS
  <2> DEFINE f == Chosen(scan.found)
             g == frames[x[1]][x[2]]
  <2>1. TypeOK /\ Writers /\ Clocks /\ Reader
    BY <1>1 DEF IInv
  <2>2. /\ x[1] \in Units /\ x[2] \in Places(x[1]) /\ Written(x[1], x[2])
        /\ scan.found \in Units /\ Readable(scan.found)
    <3>1. /\ x[1] \in Units /\ x[2] \in Nat /\ rpos[x[1]] <= x[2] /\ x[2] < wpos[x[1]]
          /\ \A u \in Units : /\ MaxFrames[u] \in Nat /\ rpos[u] \in Nat /\ rpos[u] >= 1
                             /\ wpos[u] \in 1 .. MaxFrames[u] + 1
      BY <2>1, DataPathAssumption DEF Reader, SeenThere, TypeOK
    <3>2. x[2] \in Places(x[1])
      BY <3>1 DEF Places
    <3>3. Written(x[1], x[2])
      BY <2>1, <3>1, <3>2 DEF Writers, Prefix
    <3>4. scan.found \in Units /\ Readable(scan.found)
      BY <1>1, <2>1 DEF Hand, TypeOK, Reader, FoundThere
    <3> QED BY <3>1, <3>2, <3>3, <3>4
  <2>3. f \in Stamped /\ g \in Stamped
    BY <2>1, <2>2 DEF Writers, AllStamped, Readable, Chosen
  <2>4. f.nano = f.at + diff[scan.found] /\ g.nano = g.at + diff[x[1]]
    BY <2>1, <2>2, <2>3 DEF Writers, Stamps, Readable, Chosen
  <2>5. f.nano <= g.nano
    <3>1. x[1] \in Scanned
      BY <1>1, <2>1, <2>2 DEF Hand, TypeOK, Scanned, Order, Units
    <3> QED BY <2>1, <3>1 DEF Reader, FoundOldest
  <2>6. diff[x[1]] - diff[scan.found] <= Second
    <3>1. /\ diff["md"] \in Int /\ diff["tg"] \in Int /\ Second \in Nat
          /\ diff["md"] - diff["tg"] \in -Second .. Second
      BY <2>1, DataPathAssumption DEF TypeOK, Clocks, Units
    <3>2. x[1] \in {"md", "tg"} /\ scan.found \in {"md", "tg"}
      BY <2>2 DEF Units
    <3> QED BY <3>1, <3>2
  <2>7. f.at \in Int /\ g.at \in Int /\ diff[x[1]] \in Int /\ diff[scan.found] \in Int
    BY <2>1, <2>2, <2>3 DEF Stamped, TypeOK
  <2> HIDE DEF f, g
  <2>8. f.at <= g.at + Second
    BY <2>4, <2>5, <2>6, <2>7, DataPathAssumption
  <2> QED BY <2>8 DEF f, g
<1>2. IInv /\ [Next]_vars => [Hand => Ordered]_vars
  BY <1>1
<1> QED BY <1>2, Invariant, PTL DEF Spec, OldestFirst
=============================================================================
