------------------------- MODULE UnitJournalProofs -------------------------
(***************************************************************************)
(* Proofs about UnitJournal, for every set of readers, every page size and *)
(* headroom, every set of lengths that fit, and writers that are killed    *)
(* anywhere: the type invariant, HandsOutFrames, FramesStay, NoOldFrames   *)
(* and the refinement of Journal.                                          *)
(***************************************************************************)
EXTENDS UnitJournal, FiniteSetTheorems, WellFoundedInduction, TLAPS

-----------------------------------------------------------------------------
(* The inductive invariant.                                                *)

(* Where a frame begins or may begin: at the start of a page, and behind   *)
(* each frame.  The tip of a page is such a place without a frame.         *)
Boundary(n, i) == i = 0 \/ \E j \in Cells : Begins(n, j) /\ i = j + mem[n][j].len
Tip(n, i) == i \in Cells /\ Boundary(n, i) /\ ~Begins(n, i)

Frames == {x \in Pages \X Cells : Begins(x[1], x[2])}

(* The frames of a page fit in it and do not overlap. *)
FramesFit ==
  \A n \in Pages : \A i \in Cells : Begins(n, i) =>
    n \in inited /\ mem[n][i].len \in Lengths /\ i + Headroom < PageCells
FramesApart ==
  \A n \in Pages : \A i, j \in Cells :
    Begins(n, i) /\ Begins(n, j) /\ i < j => i + mem[n][i].len <= j

(* Behind the tip there is nothing that could be taken for a frame, and    *)
(* the tip does not look like one; a page is at its end only if the next   *)
(* page is there.                                                          *)
TipsOK ==
  \A n \in Pages : \A i \in Cells : Tip(n, i) =>
    /\ mem[n][i].st # "written"
    /\ mem[n][i].st = "end" => n + 1 \in inited
    /\ \A j \in Cells : j > i => mem[n][j].frame = 0

Counted == Cardinality(Frames) = written

(* The writer has the last page, and is at a place where a frame begins or *)
(* may begin; when it writes, at the tip, with room for the frame.         *)
Has == {"idle", "located", "length", "next", "status", "pass"}
Writing == {"located", "length", "next", "status"}
RollsOver == w.pc \in {"get", "load", "finish"} /\ w.page # NoPage

WriterPlace ==
  /\ w.pc = "down" => w.page = NoPage
  /\ w.pc \in Has => /\ w.page \in inited /\ Boundary(w.page, w.pos)
                     /\ \A n \in files : n <= w.page
  /\ w.pc \in Writing => ~Begins(w.page, w.pos) /\ w.pos + Headroom < PageCells
  /\ w.pc = "pass" => Begins(w.page, w.pos)
WriterFrame ==
  /\ w.pc \in {"length", "next", "status"} => w.len \in Lengths /\ written < MaxFrames
  /\ w.pc \in {"next", "status"} => At(w).len = w.len /\ At(w).frame = written + 1
  /\ w.pc = "status" => mem[w.page][w.pos + w.len].st = "raw"
WriterGoal ==
  /\ w.pc \in {"get", "load", "finish"} =>
       w.goal \in Pages /\ \A n \in files : n <= w.goal
  /\ w.pc = "load" => w.goal \in files
  /\ w.pc = "finish" => w.goal \in inited /\ w.page # NoPage
  /\ RollsOver => w.page \in inited /\ Tip(w.page, w.pos) /\ w.goal = w.page + 1

(* A reader that has a place has it where a frame begins or may begin. *)
Placed(r) == HasPlace(r) \/ rd[r].pc = "skip"
ReaderPlace(r) ==
  /\ Placed(r) => rd[r].page \in inited /\ Boundary(rd[r].page, rd[r].pos)
  /\ rd[r].pc \in {"next", "read", "take"} => ~rd[r].expired
  /\ rd[r].pc = "next" => /\ ~Begins(rd[r].page, rd[r].pos)
                          /\ rd[r].page + 1 \in inited
  /\ rd[r].pc = "take" => Begins(rd[r].page, rd[r].pos)
  /\ rd[r].pc \in {"timed", "seek"} => rd[r].pos = 0 /\ rd[r].page = NoPage
  /\ rd[r].pc = "seek" => rd[r].goal \in Pages

(* The frames there were when a reader took its time are on pages that the *)
(* page it chooses does not lie before.                                    *)
FramesUpTo(n) == {x \in Frames : x[1] <= n}
ReaderTime(r) ==
  /\ rd[r].known \subseteq inited
  /\ rd[r].pc = "timed" =>
       rd[r].since <= Cardinality({x \in Frames : x[1] \in rd[r].known})
  /\ rd[r].pc = "seek" /\ rd[r].skip => rd[r].since <= Cardinality(FramesUpTo(rd[r].goal))
  /\ rd[r].pc = "skip" => rd[r].since <= Cardinality(FramesUpTo(rd[r].page))

MemOK == FramesFit /\ FramesApart /\ TipsOK
WriterOK == WriterPlace /\ WriterFrame /\ WriterGoal
ReadersOK == \A r \in Readers : ReaderPlace(r)
TimesOK == \A r \in Readers : ReaderTime(r)
IInv == TypeOK /\ MemOK /\ Counted /\ WriterOK /\ ReadersOK /\ TimesOK

-----------------------------------------------------------------------------
(* Sets of numbers have a least and a greatest member.                     *)

LEMMA HasLeast ==
  ASSUME NEW S \in SUBSET Nat, S # {}
  PROVE  \E n \in S : \A m \in S : n <= m
<1>1. PICK x \in S : \A y \in S : ~ (<<y, x>> \in OpToRel(<, Nat))
  BY NatLessThanWellFounded, WFMin, Zenon
<1>2. \A y \in S : ~ (y < x)
  BY <1>1 DEF OpToRel
<1>. QED  BY <1>2

LEMMA HasBiggest ==
  ASSUME NEW M \in Nat, NEW S \in SUBSET (0 .. M), S # {}
  PROVE  \E n \in S : \A m \in S : m <= n
<1>. DEFINE R == {M - n : n \in S}
<1>1. R \in SUBSET Nat
  OBVIOUS
<1>2. R # {}
  OBVIOUS
<1>3. PICK x \in R : \A y \in R : x <= y
  BY <1>1, <1>2, HasLeast, Zenon
<1>4. PICK n \in S : x = M - n
  OBVIOUS
<1>5. \A m \in S : M - n <= M - m
  BY <1>3, <1>4
<1>. QED  BY <1>5

(* What Biggest and Least choose. *)
LEMMA BiggestPage ==
  ASSUME NEW S \in SUBSET Pages, S # {}
  PROVE  Biggest(S) \in S /\ \A m \in S : m <= Biggest(S)
<1>1. S \in SUBSET (0 .. MaxPage) /\ MaxPage \in Nat
  BY JournalAssumption DEF Pages
<1>2. \E n \in S : \A m \in S : m <= n
  BY <1>1, HasBiggest, Zenon
<1>. QED  BY <1>2, Zenon DEF Biggest

LEMMA LeastPage ==
  ASSUME NEW S \in SUBSET Pages, S # {}
  PROVE  Least(S) \in S /\ \A m \in S : Least(S) <= m
<1>1. S \in SUBSET Nat
  BY JournalAssumption DEF Pages
<1>2. \E n \in S : \A m \in S : n <= m
  BY <1>1, HasLeast, Zenon
<1>. QED  BY <1>2, Zenon DEF Least

LEMMA Constants ==
  /\ MaxPage \in Nat /\ MaxPage >= 1 /\ MaxFrames \in Nat
  /\ Headroom \in Nat /\ PageCells \in Nat /\ Headroom < PageCells
  /\ \A n \in Lengths : n \in Nat /\ 1 <= n /\ n <= Headroom
  /\ 0 \in Cells /\ 1 \in Pages
  /\ \A i : i \in Cells <=> i \in Nat /\ i < PageCells
  /\ \A n : n \in Pages <=> n \in Nat /\ 1 <= n /\ n <= MaxPage
BY JournalAssumption DEF Cells, Pages

-----------------------------------------------------------------------------
(* Places on a page.                                                       *)

LEMMA CellType ==
  ASSUME TypeOK, NEW n \in Pages, NEW i \in Cells
  PROVE  /\ mem[n][i] \in Cell /\ mem[n][i].len \in Nat /\ mem[n][i].frame \in Nat
         /\ mem[n][i].st \in Statuses /\ mem[n] \in [Cells -> Cell]
BY DEF TypeOK, Cell

(* Behind a frame there is a place for the next. *)
LEMMA BehindFrame ==
  ASSUME TypeOK, MemOK, NEW n \in Pages, NEW i \in Cells, Begins(n, i)
  PROVE  /\ mem[n][i].len \in Nat /\ mem[n][i].len >= 1
         /\ i + mem[n][i].len \in Cells /\ Boundary(n, i + mem[n][i].len)
<1>1. mem[n][i].len \in Lengths /\ i + Headroom < PageCells
  BY DEF MemOK, FramesFit
<1>2. i \in Nat /\ mem[n][i].len \in Nat /\ 1 <= mem[n][i].len /\ mem[n][i].len <= Headroom
  BY <1>1, Constants
<1>3. i + mem[n][i].len \in Nat /\ i + mem[n][i].len < PageCells
  BY <1>1, <1>2, Constants
<1>. QED  BY <1>2, <1>3, Constants DEF Boundary

(* All frames of a page lie before its tip. *)
LEMMA BeforeTip ==
  ASSUME TypeOK, MemOK, NEW n \in Pages, NEW i \in Cells, Tip(n, i),
         NEW j \in Cells, Begins(n, j)
  PROVE  j < i /\ j + mem[n][j].len <= i
<1>1. mem[n][j].frame > 0 /\ mem[n][i].frame \in Nat /\ i \in Nat /\ j \in Nat
      /\ mem[n][j].len \in Nat
  BY CellType, Constants DEF Begins
<1>2. ~ (j > i) /\ j # i
  BY <1>1, CellType DEF MemOK, TipsOK, Tip
<1>3. j < i
  BY <1>1, <1>2
<1>4. i # 0
  BY <1>1, <1>3
<1>5. PICK k \in Cells : Begins(n, k) /\ i = k + mem[n][k].len
  BY <1>4 DEF Tip, Boundary
<1>6. mem[n][k].len \in Nat /\ k \in Nat
  BY CellType, Constants
<1>7. CASE j = k
  BY <1>3, <1>5, <1>7, <1>1
<1>8. CASE j < k
  <2>1. j + mem[n][j].len <= k
    BY <1>5, <1>8 DEF MemOK, FramesApart
  <2>. QED  BY <2>1, <1>1, <1>3, <1>5, <1>6
<1>9. CASE k < j
  <2>1. k + mem[n][k].len <= j
    BY <1>5, <1>9 DEF MemOK, FramesApart
  <2>. QED  BY <2>1, <1>1, <1>3, <1>5, <1>6
<1>. QED  BY <1>1, <1>6, <1>7, <1>8, <1>9

LEMMA OneTip ==
  ASSUME TypeOK, MemOK, NEW n \in Pages, NEW i \in Cells, NEW j \in Cells,
         Tip(n, i), Tip(n, j)
  PROVE  i = j
<1>1. ASSUME NEW a \in Cells, NEW b \in Cells, Tip(n, a), Tip(n, b) PROVE ~ (a < b)
  <2>. SUFFICES ASSUME a < b PROVE FALSE
    OBVIOUS
  <2>1. b # 0 /\ a \in Nat /\ b \in Nat
    BY Constants
  <2>2. PICK k \in Cells : Begins(n, k) /\ b = k + mem[n][k].len
    BY <2>1, <1>1 DEF Tip, Boundary
  <2>3. k + mem[n][k].len <= a
    BY <2>2, <1>1, BeforeTip
  <2>. QED  BY <2>1, <2>2, <2>3
<1>2. i \in Nat /\ j \in Nat
  BY Constants
<1>. QED  BY <1>1, <1>2

(* What has the status of a frame, where a frame may begin, is one. *)
LEMMA WrittenBegins ==
  ASSUME MemOK, NEW n \in Pages, NEW i \in Cells, Boundary(n, i),
         mem[n][i].st = "written"
  PROVE  Begins(n, i)
BY DEF MemOK, TipsOK, Tip

-----------------------------------------------------------------------------
WriterRecord == [pc : WriterAt, page : 0 .. MaxPage, pos : Cells, goal : 0 .. MaxPage,
                 len : Lengths \cup {0}, cut : BOOLEAN]
ReaderRecord == [pc : ReaderAt, page : 0 .. MaxPage, pos : Cells, goal : 0 .. MaxPage,
                 skip : BOOLEAN, expired : BOOLEAN, known : SUBSET Pages,
                 since : 0 .. MaxFrames]

(* Type correctness, action by action.  Positions stay in the page because *)
(* of where frames begin.                                                  *)

LEMMA InitType == Init => TypeOK
<1>. SUFFICES ASSUME Init PROVE TypeOK
  OBVIOUS
<1>1. Raw \in Cell
  BY DEF Raw, Cell, Statuses
<1>2. Down \in WriterRecord
  BY Constants DEF Down, WriterRecord, WriterAt, NoPage
<1>3. Off \in ReaderRecord
  BY Constants DEF Off, ReaderRecord, ReaderAt, NoPage
<1>4. written \in 0 .. MaxFrames
  BY Constants DEF Init
<1>. QED  BY <1>1, <1>2, <1>3, <1>4 DEF Init, TypeOK, WriterRecord, ReaderRecord

(* Where the writer is, when it has a page. *)
LEMMA WriterHas ==
  ASSUME TypeOK, WriterOK, w.pc \in Has \/ RollsOver
  PROVE  /\ w.page \in Pages /\ w.page \in inited /\ w.pos \in Cells
         /\ Boundary(w.page, w.pos) /\ At(w) \in Cell
<1>1. w.page \in inited /\ Boundary(w.page, w.pos)
  BY DEF WriterOK, WriterPlace, WriterGoal, Tip
<1>2. w.page \in Pages /\ w.pos \in Cells
  BY <1>1 DEF TypeOK
<1>. QED  BY <1>1, <1>2, CellType DEF At

LEMMA ReaderHas ==
  ASSUME TypeOK, ReadersOK, NEW r \in Readers, Placed(r)
  PROVE  /\ rd[r].page \in Pages /\ rd[r].page \in inited /\ rd[r].pos \in Cells
         /\ Boundary(rd[r].page, rd[r].pos) /\ At(rd[r]) \in Cell
<1>1. rd[r].page \in inited /\ Boundary(rd[r].page, rd[r].pos)
  BY DEF ReadersOK, ReaderPlace
<1>2. rd[r].page \in Pages /\ rd[r].pos \in Cells
  BY <1>1 DEF TypeOK
<1>. QED  BY <1>1, <1>2, CellType DEF At

(* There is room for the frame that is being written. *)
LEMMA RoomToWrite ==
  ASSUME TypeOK, WriterOK, w.pc \in {"length", "next", "status"}
  PROVE  /\ w.page \in Pages /\ w.pos \in Cells /\ Tip(w.page, w.pos)
         /\ w.len \in Lengths /\ w.len \in Nat /\ w.len >= 1 /\ w.pos + w.len \in Cells
         /\ written < MaxFrames /\ w.pos + Headroom < PageCells
<1>1. w.page \in Pages /\ w.pos \in Cells /\ Boundary(w.page, w.pos)
  BY WriterHas DEF Has
<1>2. ~Begins(w.page, w.pos) /\ w.pos + Headroom < PageCells
  BY DEF WriterOK, WriterPlace, Writing
<1>3. w.len \in Lengths /\ written < MaxFrames
  BY DEF WriterOK, WriterFrame
<1>4. w.len \in Nat /\ 1 <= w.len /\ w.len <= Headroom /\ w.pos \in Nat
  BY <1>1, <1>3, Constants
<1>5. w.pos + w.len \in Nat /\ w.pos + w.len < PageCells
  BY <1>2, <1>4, Constants
<1>. QED  BY <1>1, <1>2, <1>3, <1>4, <1>5, Constants DEF Tip

LEMMA WriterPageType ==
  ASSUME IInv, SeekToEnd \/ GetPage \/ Load \/ LoadNextPage \/ Locate \/ Crash
  PROVE  TypeOK'
<1>. USE DEF IInv
<1>1. CASE SeekToEnd
  <2>1. files # {} => Biggest(files) \in Pages
    BY BiggestPage DEF TypeOK
  <2>2. (IF files = {} THEN 1 ELSE Biggest(files)) \in 0 .. MaxPage
    BY <2>1, Constants
  <2>. QED  BY <1>1, <2>2 DEF SeekToEnd, TypeOK, WriterRecord, WriterAt
<1>2. CASE GetPage
  <2>1. w.goal \in Pages
    BY <1>2 DEF GetPage, WriterOK, WriterGoal
  <2>. QED  BY <1>2, <2>1 DEF GetPage, TypeOK, WriterRecord, WriterAt
<1>3. CASE Load
  <2>1. w.goal \in files
    BY <1>3 DEF Load, WriterOK, WriterGoal
  <2>2. inited' \subseteq files' /\ files' \subseteq Pages
    BY <1>3, <2>1 DEF Load, TypeOK
  <2>. QED  BY <1>3, <2>1, <2>2, Constants DEF Load, TypeOK, WriterRecord, WriterAt, NoPage
<1>4. CASE LoadNextPage
  <2>1. w.page + 1 \in 0 .. MaxPage
    BY <1>4, Constants DEF LoadNextPage, TypeOK
  <2>. QED  BY <1>4, <2>1 DEF LoadNextPage, TypeOK, WriterRecord, WriterAt
<1>5. CASE Locate
  BY <1>5 DEF Locate, TypeOK, WriterRecord, WriterAt
<1>6. CASE Crash
  <2>1. 0 \in Cells /\ 0 \in 0 .. MaxPage
    BY Constants
  <2>2. PICK b \in BOOLEAN : w' = [pc |-> "down", page |-> 0, pos |-> 0, goal |-> 0,
                                   len |-> 0, cut |-> b]
    BY <1>6 DEF Crash, Down, NoPage, TypeOK
  <2>3. w' \in WriterRecord
    BY <2>1, <2>2 DEF WriterRecord, WriterAt
  <2>. QED  BY <1>6, <2>3 DEF Crash, TypeOK, WriterRecord
<1>. QED  BY <1>1, <1>2, <1>3, <1>4, <1>5, <1>6

(* The writer's stores. *)
LEMMA StoreType ==
  ASSUME TypeOK, NEW n \in Pages, NEW i \in Cells, NEW c \in Cell,
         mem' = [mem EXCEPT ![n][i] = c]
  PROVE  /\ mem' \in [Pages -> [Cells -> Cell]]
         /\ \A m \in Pages : \A j \in Cells :
              mem'[m][j] = IF m = n /\ j = i THEN c ELSE mem[m][j]
BY DEF TypeOK

LEMMA WriterStoreType ==
  ASSUME IInv, FinishPage \/ WriteFrame \/ SkipWritten
  PROVE  TypeOK'
<1>. USE DEF IInv
<1>1. CASE FinishPage
  <2>1. w.page \in Pages /\ w.pos \in Cells /\ w.goal \in 0 .. MaxPage
    BY <1>1, WriterHas DEF FinishPage, RollsOver, WriterOK, WriterGoal, TypeOK
  <2>2. [mem[w.page][w.pos] EXCEPT !.st = "end"] \in Cell
    BY <2>1, CellType DEF Cell, Statuses
  <2>3. mem' \in [Pages -> [Cells -> Cell]]
    BY <1>1, <2>1, <2>2, StoreType DEF FinishPage
  <2>4. 0 \in Cells /\ 0 \in 0 .. MaxPage
    BY Constants
  <2>5. w' = [w EXCEPT !.pc = "idle", !.page = w.goal, !.pos = 0, !.goal = 0]
    BY <1>1 DEF FinishPage, NoPage
  <2>6. w' \in WriterRecord
    BY <2>1, <2>4, <2>5 DEF TypeOK, WriterRecord, WriterAt
  <2>. QED  BY <1>1, <2>3, <2>6 DEF FinishPage, TypeOK, WriterRecord
<1>2. CASE CopyData
  <2>1. PICK n \in Lengths, g \in Junk :
          /\ mem' = [mem EXCEPT ![w.page] =
                       [i \in Cells |-> IF i \in w.pos + 1 .. w.pos + n - 1
                                        THEN Payload(g) ELSE @[i]]]
          /\ w' = [w EXCEPT !.pc = "length", !.len = n]
    BY <1>2 DEF CopyData
  <2>2. Payload(g) \in Cell
    BY JournalAssumption DEF Payload, Cell
  <2>3. mem' \in [Pages -> [Cells -> Cell]]
    BY <2>1, <2>2 DEF TypeOK
  <2>. QED  BY <1>2, <2>1, <2>3 DEF CopyData, TypeOK, WriterRecord, WriterAt
<1>3. CASE SetFrameLength
  <2>1. w.page \in Pages /\ w.pos \in Cells /\ w.len \in Nat /\ written + 1 \in Nat
    BY <1>3, RoomToWrite, Constants DEF SetFrameLength, TypeOK
  <2>2. [mem[w.page][w.pos] EXCEPT !.len = w.len, !.frame = written + 1] \in Cell
    BY <2>1, CellType DEF Cell
  <2>3. mem' \in [Pages -> [Cells -> Cell]]
    BY <1>3, <2>1, <2>2, StoreType DEF SetFrameLength
  <2>. QED  BY <1>3, <2>3 DEF SetFrameLength, TypeOK, WriterRecord, WriterAt
<1>4. CASE ResetNextEntry
  <2>1. w.page \in Pages /\ w.pos + At(w).len \in Cells
    BY <1>4, RoomToWrite DEF ResetNextEntry, WriterOK, WriterFrame
  <2>2. [mem[w.page][w.pos + At(w).len] EXCEPT !.st = "raw"] \in Cell
    BY <2>1, CellType DEF Cell, Statuses
  <2>3. mem' \in [Pages -> [Cells -> Cell]]
    BY <1>4, <2>1, <2>2, StoreType DEF ResetNextEntry
  <2>. QED  BY <1>4, <2>3 DEF ResetNextEntry, TypeOK, WriterRecord, WriterAt
<1>5. CASE SetStatus
  <2>1. w.page \in Pages /\ w.pos \in Cells /\ written + 1 \in 0 .. MaxFrames
    BY <1>5, RoomToWrite, Constants DEF SetStatus, TypeOK
  <2>2. [mem[w.page][w.pos] EXCEPT !.st = "written"] \in Cell
    BY <2>1, CellType DEF Cell, Statuses
  <2>3. mem' \in [Pages -> [Cells -> Cell]]
    BY <1>5, <2>1, <2>2, StoreType DEF SetStatus
  <2>. QED  BY <1>5, <2>1, <2>3 DEF SetStatus, TypeOK, WriterRecord, WriterAt
<1>6. CASE PassFrame
  <2>1. w.page \in Pages /\ w.pos \in Cells /\ Begins(w.page, w.pos)
    BY <1>6, WriterHas DEF PassFrame, Has, WriterOK, WriterPlace
  <2>2. w.pos + At(w).len \in Cells
    BY <2>1, BehindFrame DEF At
  <2>. QED  BY <1>6, <2>2 DEF PassFrame, TypeOK, WriterRecord, WriterAt
<1>7. CASE SkipWritten
  <2>1. w.page \in Pages /\ w.pos \in Cells /\ Boundary(w.page, w.pos)
    BY <1>7, WriterHas DEF SkipWritten, Has
  <2>2. w.pos + At(w).len \in Cells
    BY <1>7, <2>1, WrittenBegins, BehindFrame DEF At, SkipWritten
  <2>. QED  BY <1>7, <2>2 DEF SkipWritten, TypeOK, WriterRecord, WriterAt
<1>. QED  BY <1>1, <1>2, <1>3, <1>4, <1>5, <1>6, <1>7 DEF WriteFrame

LEMMA ReaderUpdate ==
  ASSUME TypeOK, NEW r \in Readers, NEW x,
         x \in ReaderRecord,
         rd' = [rd EXCEPT ![r] = x], inited \subseteq inited', inited' \subseteq files,
         UNCHANGED <<files, mem, w, written>>
  PROVE  TypeOK'
BY DEF TypeOK, ReaderRecord

(* Page gives the page asked for, or none. *)
LEMMA PageType ==
  ASSUME TypeOK, NEW r \in Readers, NEW n \in 0 .. MaxPage + 1
  PROVE  /\ Page(r, n) \in 0 .. MaxPage
         /\ Page(r, n) # NoPage => Page(r, n) = n /\ n \in files
         /\ n \in inited /\ n # NoPage => Page(r, n) = n
         /\ inited \subseteq Initialised(Page(r, n)) /\ Initialised(Page(r, n)) \subseteq files
         /\ Page(r, n) # NoPage => Page(r, n) \in Initialised(Page(r, n))
BY Constants DEF TypeOK, Page, Initialised, NoPage, Pages

LEMMA PageWithTimeType ==
  ASSUME TypeOK, NEW r \in Readers
  PROVE  /\ PageWithTime(r) \in Pages
         /\ \A n \in rd[r].known : n \in files => n <= PageWithTime(r)
<1>. DEFINE S == {n \in files : n \in inited => n \in rd[r].known}
<1>1. S \in SUBSET Pages
  BY DEF TypeOK
<1>2. CASE S = {}
  BY <1>2, Constants DEF PageWithTime
<1>3. CASE S # {}
  <2>1. Biggest(S) \in S /\ \A m \in S : m <= Biggest(S)
    BY <1>1, <1>3, BiggestPage
  <2>2. PageWithTime(r) = Biggest(S)
    BY <1>3 DEF PageWithTime
  <2>. QED  BY <1>1, <2>1, <2>2
<1>. QED  BY <1>2, <1>3

LEMMA ReaderSeekType ==
  ASSUME IInv, NEW r \in Readers, Seek(r) \/ Expire(r)
  PROVE  TypeOK'
<1>. USE DEF IInv
<1>0. rd[r] \in ReaderRecord
      /\ 0 \in Cells /\ 0 \in 0 .. MaxPage /\ 0 \in 0 .. MaxFrames
      /\ inited \subseteq files /\ inited \subseteq Pages /\ written \in 0 .. MaxFrames
  BY Constants DEF TypeOK, ReaderRecord
<1>1. CASE TakeTime(r)
  <2>1. [Off EXCEPT !.pc = "timed", !.known = inited, !.since = written] \in ReaderRecord
    BY <1>0 DEF Off, ReaderRecord, ReaderAt, NoPage
  <2>. QED  BY <1>0, <1>1, <2>1, ReaderUpdate DEF TakeTime
<1>2. CASE ChoosePage(r)
  <2>1. PageWithTime(r) \in 0 .. MaxPage
    BY PageWithTimeType, Constants
  <2>2. (IF files = {} THEN 1 ELSE Least(files)) \in 0 .. MaxPage
    <3>1. files # {} => Least(files) \in Pages
      BY LeastPage DEF TypeOK
    <3>. QED  BY <3>1, Constants
  <2>3. PICK x : /\ rd' = [rd EXCEPT ![r] = x]
                 /\ \/ x = [rd[r] EXCEPT !.pc = "seek", !.known = {}, !.skip = TRUE,
                                         !.goal = PageWithTime(r)]
                    \/ x = [rd[r] EXCEPT !.pc = "seek", !.known = {}, !.since = 0,
                                         !.goal = IF files = {} THEN 1 ELSE Least(files)]
    BY <1>2 DEF ChoosePage
  <2>4. x \in ReaderRecord
    BY <1>0, <2>1, <2>2, <2>3 DEF ReaderRecord, ReaderAt
  <2>. QED  BY <1>0, <1>2, <2>3, <2>4, ReaderUpdate DEF ChoosePage
<1>3. CASE SeekTime(r)
  <2>1. rd[r].goal \in 0 .. MaxPage + 1
    BY <1>0, Constants DEF ReaderRecord
  <2>. DEFINE n == Page(r, rd[r].goal)
  <2>2. n \in 0 .. MaxPage /\ inited \subseteq Initialised(n) /\ Initialised(n) \subseteq files
    BY <2>1, PageType
  <2>. HIDE DEF n
  <2>. DEFINE x == [rd[r] EXCEPT !.page = n, !.expired = (n = NoPage), !.goal = NoPage,
                      !.pc = IF n # NoPage /\ rd[r].skip THEN "skip" ELSE "poll",
                      !.since = IF n # NoPage THEN @ ELSE 0]
  <2>3. x \in ReaderRecord
    BY <1>0, <2>2 DEF ReaderRecord, ReaderAt, NoPage
  <2>4. rd' = [rd EXCEPT ![r] = x] /\ inited' = Initialised(n)
    BY <1>3, Zenon DEF SeekTime, n
  <2>. HIDE DEF x
  <2>. QED  BY <1>3, <2>2, <2>3, <2>4, ReaderUpdate DEF SeekTime
<1>4. CASE Skip(r)
  <2>1. rd[r].page \in Pages /\ rd[r].pos \in Cells /\ Boundary(rd[r].page, rd[r].pos)
    BY <1>4, ReaderHas DEF Skip, Placed
  <2>2. At(rd[r]).st = "written" => rd[r].pos + At(rd[r]).len \in Cells
    BY <2>1, WrittenBegins, BehindFrame DEF At
  <2>. DEFINE x == IF At(rd[r]).st = "written"
                   THEN [rd[r] EXCEPT !.pos = @ + At(rd[r]).len]
                   ELSE [rd[r] EXCEPT !.pc = "poll", !.since = 0, !.skip = FALSE]
  <2>3. x \in ReaderRecord
    BY <1>0, <2>2 DEF ReaderRecord, ReaderAt
  <2>4. rd' = [rd EXCEPT ![r] = x]
    BY <1>4, Zenon DEF Skip
  <2>. HIDE DEF x
  <2>. QED  BY <1>0, <1>4, <2>3, <2>4, ReaderUpdate DEF Skip
<1>5. CASE Expire(r)
  <2>1. [rd[r] EXCEPT !.page = NoPage, !.pos = 0, !.expired = TRUE] \in ReaderRecord
    BY <1>0 DEF NoPage, ReaderRecord
  <2>. QED  BY <1>0, <1>5, <2>1, ReaderUpdate DEF Expire
<1>. QED  BY <1>1, <1>2, <1>3, <1>4, <1>5 DEF Seek

LEMMA GetNextFrameType ==
  ASSUME IInv, NEW r \in Readers, GetNextFrame(r)
  PROVE  TypeOK'
<1>. USE DEF IInv
<1>0. rd[r] \in ReaderRecord
      /\ 0 \in Cells /\ inited \subseteq files
  BY Constants DEF TypeOK, ReaderRecord
<1>1. CASE Poll(r) \/ Read(r)
  <2>1. PICK q \in {"next", "read", "poll", "take"} : rd' = [rd EXCEPT ![r] = [@ EXCEPT !.pc = q]]
    BY <1>1, Zenon DEF Poll, Read
  <2>2. [rd[r] EXCEPT !.pc = q] \in ReaderRecord
    BY <1>0 DEF ReaderRecord, ReaderAt
  <2>. QED  BY <1>0, <1>1, <2>1, <2>2, ReaderUpdate DEF Poll, Read
<1>2. CASE NextPage(r)
  <2>. DEFINE n == Page(r, rd[r].page + 1)
  <2>1. rd[r].page + 1 \in 0 .. MaxPage + 1
    BY <1>0, Constants DEF ReaderRecord
  <2>2. n \in 0 .. MaxPage /\ inited \subseteq Initialised(n) /\ Initialised(n) \subseteq files
    BY <2>1, PageType
  <2>. HIDE DEF n
  <2>3. [rd[r] EXCEPT !.page = n, !.pos = 0, !.pc = "read"] \in ReaderRecord
    BY <1>0, <2>2 DEF ReaderRecord, ReaderAt
  <2>. QED  BY <1>2, <2>2, <2>3, ReaderUpdate DEF NextPage, n
<1>3. CASE Take(r)
  <2>1. /\ rd[r].page \in Pages /\ rd[r].pos \in Cells
        /\ Begins(rd[r].page, rd[r].pos)
    BY <1>3, ReaderHas DEF Take, Placed, HasPlace, ReadersOK, ReaderPlace
  <2>2. rd[r].pos + At(rd[r]).len \in Cells
    BY <2>1, BehindFrame DEF At
  <2>. DEFINE x == [rd[r] EXCEPT !.pc = "poll", !.pos = @ + At(rd[r]).len]
  <2>3. x \in ReaderRecord
    BY <1>0, <2>2 DEF ReaderRecord, ReaderAt
  <2>4. rd' = [rd EXCEPT ![r] = x]
    BY <1>3, Zenon DEF Take
  <2>. HIDE DEF x
  <2>. QED  BY <1>0, <1>3, <2>3, <2>4, ReaderUpdate DEF Take
<1>. QED  BY <1>1, <1>2, <1>3 DEF GetNextFrame

LEMMA StepType ==
  ASSUME IInv, [Next]_vars
  PROVE  TypeOK'
<1>1. CASE WriterStep
  BY <1>1, WriterPageType, WriterStoreType DEF WriterStep
<1>2. ASSUME NEW r \in Readers, Seek(r) \/ GetNextFrame(r) \/ Expire(r) PROVE TypeOK'
  BY <1>2, ReaderSeekType, GetNextFrameType
<1>3. CASE UNCHANGED vars
  BY <1>3 DEF vars, IInv, TypeOK
<1>. QED  BY <1>1, <1>2, <1>3 DEF Next

-----------------------------------------------------------------------------
(* What a step does to the frames.                                         *)

(* A step that neither begins a frame nor changes one, and leaves the tips *)
(* as they must be.                                                        *)
Quiet ==
  /\ inited \subseteq inited'
  /\ \A n \in Pages : \A i \in Cells :
       /\ Begins(n, i) => mem'[n][i] = mem[n][i]
       /\ Begins(n, i)' => Begins(n, i)
       /\ Tip(n, i) => /\ mem'[n][i].st # "written"
                       /\ mem'[n][i].st = "end" => n + 1 \in inited'
                       /\ \A j \in Cells : j > i => mem'[n][j].frame = 0

LEMMA QuietStep ==
  ASSUME MemOK, Quiet
  PROVE  /\ MemOK' /\ Frames' = Frames
         /\ \A n \in Pages : \A i \in Cells : /\ Begins(n, i)' <=> Begins(n, i)
                                              /\ Boundary(n, i)' <=> Boundary(n, i)
<1>1. ASSUME NEW n \in Pages, NEW i \in Cells
      PROVE  /\ Begins(n, i)' <=> Begins(n, i)
             /\ Begins(n, i) => mem'[n][i] = mem[n][i]
  BY DEF Quiet, Begins
<1>2. ASSUME NEW n \in Pages, NEW i \in Cells
      PROVE  Boundary(n, i)' <=> Boundary(n, i)
  BY <1>1 DEF Boundary
<1>3. Frames' = Frames
  BY <1>1 DEF Frames
<1>4. FramesFit'
  BY <1>1 DEF MemOK, FramesFit, Quiet
<1>5. FramesApart'
  BY <1>1 DEF MemOK, FramesApart
<1>6. TipsOK'
  BY <1>1, <1>2 DEF TipsOK, Tip, Quiet
<1>. QED  BY <1>1, <1>2, <1>3, <1>4, <1>5, <1>6 DEF MemOK

LEMMA UnchangedMemory ==
  ASSUME MemOK, mem' = mem, inited \subseteq inited'
  PROVE  Quiet
BY DEF MemOK, TipsOK, Quiet, Begins

LEMMA StoreQuiet ==
  ASSUME IInv, FinishPage \/ CopyData \/ SetFrameLength \/ ResetNextEntry
  PROVE  Quiet
<1>. USE DEF IInv
<1>0. ASSUME NEW n \in Pages, NEW i \in Cells, Tip(n, i)
      PROVE  /\ mem[n][i].st # "written"
             /\ mem[n][i].st = "end" => n + 1 \in inited
             /\ \A j \in Cells : j > i => mem[n][j].frame = 0
  BY <1>0 DEF MemOK, TipsOK
<1>a. /\ w.page \in Pages /\ w.pos \in Cells /\ w.pos \in Nat /\ Tip(w.page, w.pos)
      /\ inited' = inited
  <2>1. w.page \in Pages /\ w.pos \in Cells /\ Boundary(w.page, w.pos) /\ inited' = inited
    BY WriterHas DEF FinishPage, CopyData, SetFrameLength, ResetNextEntry, Has, RollsOver,
                     WriterOK, WriterGoal
  <2>2. ~Begins(w.page, w.pos)
    BY DEF WriterOK, WriterPlace, WriterGoal, Writing, Tip, RollsOver,
           FinishPage, CopyData, SetFrameLength, ResetNextEntry
  <2>. QED  BY <2>1, <2>2, Constants DEF Tip
<1>b. ASSUME NEW i \in Cells, Tip(w.page, i) PROVE i = w.pos
  BY <1>a, <1>b, OneTip
<1>1. CASE FinishPage
  <2>1. w.page + 1 \in inited
    BY <1>1 DEF FinishPage, WriterOK, WriterGoal, RollsOver
  <2>. DEFINE c == [mem[w.page][w.pos] EXCEPT !.st = "end"]
  <2>2. c \in Cell /\ c.st = "end"
    BY <1>a, CellType DEF Cell, Statuses
  <2>3. mem' = [mem EXCEPT ![w.page][w.pos] = c]
    BY <1>1 DEF FinishPage
  <2>. HIDE DEF c
  <2>4. \A m \in Pages : \A j \in Cells :
          mem'[m][j] = IF m = w.page /\ j = w.pos THEN c ELSE mem[m][j]
    BY <1>a, <2>2, <2>3, StoreType
  <2>5. \A j \in Cells : j > w.pos => j # w.pos
    BY <1>a, Constants
  <2>. QED  BY <1>0, <1>a, <1>b, <2>1, <2>2, <2>4, <2>5 DEF Quiet, Begins, Tip
<1>2. CASE CopyData
  <2>1. PICK k \in Lengths, g \in Junk :
          mem' = [mem EXCEPT ![w.page] =
                    [i \in Cells |-> IF i \in w.pos + 1 .. w.pos + k - 1
                                     THEN Payload(g) ELSE @[i]]]
    BY <1>2 DEF CopyData
  <2>2. ASSUME NEW m \in Pages, NEW j \in Cells
        PROVE  \/ mem'[m][j] = mem[m][j]
               \/ /\ m = w.page /\ j > w.pos /\ ~ Begins(m, j) /\ mem'[m][j].frame = 0
    <3>1. k \in Nat /\ j \in Nat
      BY Constants
    <3>2. CASE m = w.page /\ j \in w.pos + 1 .. w.pos + k - 1
      <4>1. mem'[m][j] = Payload(g)
        BY <2>1, <3>2, <1>a DEF TypeOK
      <4>2. j > w.pos
        BY <3>2, <1>a, <3>1
      <4>3. mem[m][j].frame = 0
        BY <3>2, <4>2, <1>0, <1>a
      <4>. QED  BY <3>2, <4>1, <4>2, <4>3 DEF Payload, Begins
    <3>3. CASE ~ (m = w.page /\ j \in w.pos + 1 .. w.pos + k - 1)
      BY <2>1, <3>3, <1>a DEF TypeOK
    <3>. QED  BY <3>2, <3>3
  <2>3. \A j \in Cells : j > w.pos => j # w.pos
    BY <1>a, Constants
  <2>. QED  BY <1>0, <1>a, <1>b, <2>2, <2>3 DEF Quiet, Begins, Tip
<1>3. CASE SetFrameLength
  <2>1. w.len \in Nat /\ written + 1 \in Nat
    BY <1>3, RoomToWrite, Constants DEF SetFrameLength, TypeOK
  <2>. DEFINE c == [mem[w.page][w.pos] EXCEPT !.len = w.len, !.frame = written + 1]
  <2>2. c \in Cell /\ c.st = mem[w.page][w.pos].st
    <3>1. mem[w.page][w.pos] \in Cell
      BY <1>a, CellType
    <3>. QED  BY <2>1, <3>1 DEF Cell
  <2>3. mem' = [mem EXCEPT ![w.page][w.pos] = c]
    BY <1>3 DEF SetFrameLength
  <2>. HIDE DEF c
  <2>4. \A m \in Pages : \A j \in Cells :
          mem'[m][j] = IF m = w.page /\ j = w.pos THEN c ELSE mem[m][j]
    BY <1>a, <2>2, <2>3, StoreType
  <2>5. \A j \in Cells : j > w.pos => j # w.pos
    BY <1>a, Constants
  <2>. QED  BY <1>0, <1>a, <1>b, <2>2, <2>4, <2>5 DEF Quiet, Begins, Tip
<1>4. CASE ResetNextEntry
  <2>. DEFINE p == w.pos + At(w).len
  <2>1. p \in Cells /\ p > w.pos
    BY <1>4, <1>a, RoomToWrite DEF ResetNextEntry, WriterOK, WriterFrame
  <2>. DEFINE c == [mem[w.page][p] EXCEPT !.st = "raw"]
  <2>2. c \in Cell /\ c.frame = mem[w.page][p].frame /\ c.st = "raw"
    BY <1>a, <2>1, CellType DEF Cell, Statuses
  <2>3. mem' = [mem EXCEPT ![w.page][p] = c]
    BY <1>4 DEF ResetNextEntry
  <2>. HIDE DEF c, p
  <2>4. \A m \in Pages : \A j \in Cells :
          mem'[m][j] = IF m = w.page /\ j = p THEN c ELSE mem[m][j]
    BY <1>a, <2>1, <2>2, <2>3, StoreType
  <2>5. mem[w.page][p].frame = 0
    BY <1>0, <1>a, <2>1
  <2>6. p # w.pos
    BY <1>a, <2>1, Constants
  <2>. QED  BY <1>0, <1>a, <1>b, <2>2, <2>4, <2>5, <2>6 DEF Quiet, Begins, Tip
<1>. QED  BY <1>1, <1>2, <1>3, <1>4

(* SetStatus begins one frame, at the tip. *)
LEMMA PublishStep ==
  ASSUME IInv, SetStatus
  PROVE  /\ MemOK' /\ inited' = inited
         /\ w.page \in Pages /\ w.pos \in Cells /\ Tip(w.page, w.pos)
         /\ \A n \in Pages : \A i \in Cells :
              /\ Begins(n, i) => mem'[n][i] = mem[n][i]
              /\ Begins(n, i)' <=> Begins(n, i) \/ (n = w.page /\ i = w.pos)
         /\ Frames' = Frames \cup {<<w.page, w.pos>>} /\ <<w.page, w.pos>> \notin Frames
<1>. USE DEF IInv
<1>. DEFINE p == w.pos  q == w.pos + w.len
            c == [mem[w.page][p] EXCEPT !.st = "written"]
<1>1. /\ w.page \in Pages /\ w.pos \in Cells /\ Tip(w.page, w.pos) /\ w.len \in Lengths
      /\ w.len \in Nat /\ w.len >= 1 /\ q \in Cells /\ p + Headroom < PageCells
      /\ inited' = inited
  BY RoomToWrite DEF SetStatus
<1>2. /\ w.page \in inited /\ mem[w.page][p].len = w.len
      /\ mem[w.page][p].frame = written + 1 /\ mem[w.page][q].st = "raw"
  BY <1>1 DEF WriterOK, WriterPlace, WriterFrame, Has, At, SetStatus
<1>3. c \in Cell /\ c.st = "written" /\ c.len = w.len /\ c.frame = written + 1
  <2>1. mem[w.page][p] \in Cell
    BY <1>1, CellType
  <2>. QED  BY <1>2, <2>1 DEF Cell, Statuses
<1>4. mem' = [mem EXCEPT ![w.page][p] = c]
  BY DEF SetStatus
<1>. HIDE DEF c
<1>5. \A m \in Pages : \A j \in Cells :
        mem'[m][j] = IF m = w.page /\ j = p THEN c ELSE mem[m][j]
  BY <1>1, <1>3, <1>4, StoreType
<1>6. written + 1 > 0 /\ p \in Nat /\ q \in Nat /\ p < q
  BY <1>1, Constants DEF TypeOK
<1>7. ASSUME NEW n \in Pages, NEW i \in Cells
      PROVE  /\ Begins(n, i) => mem'[n][i] = mem[n][i]
             /\ Begins(n, i)' <=> Begins(n, i) \/ (n = w.page /\ i = p)
  BY <1>1, <1>3, <1>5, <1>6 DEF Begins, Tip
<1>. HIDE DEF p, q
<1>8. FramesFit'
  BY <1>1, <1>2, <1>3, <1>5, <1>7 DEF MemOK, FramesFit, p
<1>9. FramesApart'
  <2>. SUFFICES ASSUME NEW n \in Pages, NEW i \in Cells, NEW j \in Cells,
                       Begins(n, i)', Begins(n, j)', i < j
                PROVE  i + mem'[n][i].len <= j
    BY DEF FramesApart
  <2>0. i \in Nat /\ j \in Nat
    BY Constants
  <2>1. CASE Begins(n, i) /\ Begins(n, j)
    BY <1>7, <2>1 DEF MemOK, FramesApart
  <2>2. CASE Begins(n, i) /\ n = w.page /\ j = p
    <3>1. i + mem[n][i].len <= p
      BY <1>1, <2>2, BeforeTip DEF p
    <3>. QED  BY <1>7, <2>2, <3>1
  <2>3. CASE n = w.page /\ i = p /\ Begins(n, j)
    <3>1. j < p
      BY <1>1, <2>3, BeforeTip DEF p
    <3>. QED  BY <1>6, <2>0, <2>3, <3>1
  <2>. QED  BY <1>6, <1>7, <2>0, <2>1, <2>2, <2>3
<1>10. TipsOK'
  <2>. SUFFICES ASSUME NEW n \in Pages, NEW i \in Cells, Tip(n, i)'
                PROVE  /\ mem'[n][i].st # "written"
                       /\ mem'[n][i].st = "end" => n + 1 \in inited'
                       /\ \A j \in Cells : j > i => mem'[n][j].frame = 0
    BY DEF TipsOK
  <2>1. ~Begins(n, i) /\ ~(n = w.page /\ i = p) /\ mem'[n][i] = mem[n][i]
    BY <1>5, <1>7 DEF Tip
  <2>2. Tip(n, i) \/ (n = w.page /\ i = q)
    <3>1. CASE i = 0
      BY <2>1, <3>1 DEF Tip, Boundary
    <3>2. CASE i # 0
      <4>1. PICK k \in Cells : Begins(n, k)' /\ i = k + mem'[n][k].len
        BY <3>2 DEF Tip, Boundary
      <4>2. CASE Begins(n, k)
        BY <1>7, <2>1, <4>1, <4>2 DEF Tip, Boundary
      <4>3. CASE n = w.page /\ k = p
        BY <1>1, <1>3, <1>5, <4>1, <4>3 DEF p, q
      <4>. QED  BY <1>7, <4>1, <4>2, <4>3
    <3>. QED  BY <3>1, <3>2
  <2>3. CASE n # w.page
    BY <1>1, <1>5, <2>1, <2>2, <2>3 DEF MemOK, TipsOK
  <2>4. CASE n = w.page
    <3>1. i = q
      BY <1>1, <2>1, <2>2, <2>4, OneTip DEF p
    <3>2. \A j \in Cells : j > q => j > p /\ j # p
      BY <1>6, Constants
    <3>3. \A j \in Cells : j > p => mem[n][j].frame = 0
      BY <1>1, <2>4 DEF MemOK, TipsOK, p
    <3>. QED  BY <1>2, <1>5, <2>1, <2>4, <3>1, <3>2, <3>3
  <2>. QED  BY <2>3, <2>4
<1>11. Frames' = Frames \cup {<<w.page, p>>} /\ <<w.page, p>> \notin Frames
  BY <1>1, <1>7 DEF Frames, Tip, p
<1>. QED  BY <1>1, <1>7, <1>8, <1>9, <1>10, <1>11 DEF MemOK, p

(* Every step. *)
LEMMA StepMemory ==
  ASSUME IInv, [Next]_vars
  PROVE  /\ MemOK' /\ inited \subseteq inited' /\ files \subseteq files'
         /\ \/ SetStatus
            \/ UNCHANGED Frames /\ \A n \in Pages : \A i \in Cells :
                                     Begins(n, i)' <=> Begins(n, i)
         /\ \A n \in Pages : \A i \in Cells :
              /\ Begins(n, i) => mem'[n][i] = mem[n][i] /\ Begins(n, i)'
              /\ Boundary(n, i) => Boundary(n, i)'
<1>. USE DEF IInv
<1>1. inited \subseteq inited' /\ files \subseteq files'
  BY PageType DEF Next, WriterStep, WriteFrame, SeekToEnd, GetPage, Load, FinishPage, SkipWritten,
     Locate, LoadNextPage, CopyData, SetFrameLength, ResetNextEntry, SetStatus, PassFrame,
     Crash, Seek, TakeTime, ChoosePage, SeekTime, Skip, GetNextFrame, Poll, NextPage, Read,
     Take, Expire, vars, Initialised
<1>2. CASE SetStatus
  <2>1. \A n \in Pages : \A i \in Cells : 
          Begins(n, i) => mem'[n][i] = mem[n][i] /\ Begins(n, i)'
    BY <1>2, PublishStep
  <2>2. \A n \in Pages : \A i \in Cells : Boundary(n, i) => Boundary(n, i)'
    BY <2>1 DEF Boundary
  <2>. QED  BY <1>1, <1>2, <2>1, <2>2, PublishStep
<1>3. CASE ~SetStatus
  <2>1. \/ FinishPage \/ CopyData \/ SetFrameLength \/ ResetNextEntry
        \/ mem' = mem
    BY <1>3 DEF Next, WriterStep, WriteFrame, SeekToEnd, GetPage, Load, SkipWritten, Locate,
       LoadNextPage, PassFrame, Crash, Seek, TakeTime, ChoosePage, SeekTime, Skip,
       GetNextFrame, Poll, NextPage, Read, Take, Expire, vars
  <2>2. Quiet
    BY <1>1, <2>1, StoreQuiet, UnchangedMemory
  <2>. QED  BY <1>1, <2>2, QuietStep DEF Quiet
<1>. QED  BY <1>2, <1>3

-----------------------------------------------------------------------------
(* The number of frames. *)

LEMMA PlacesFinite ==
  ASSUME NEW S \in SUBSET (Pages \X Cells)
  PROVE  IsFiniteSet(S) /\ Cardinality(S) \in Nat
<1>1. IsFiniteSet(1 .. MaxPage) /\ IsFiniteSet(0 .. PageCells - 1)
  <2>1. 0 \in Int /\ 1 \in Int /\ MaxPage \in Int /\ PageCells - 1 \in Int
    BY Constants
  <2>. QED  BY <2>1, FS_Interval
<1>2. IsFiniteSet(Pages \X Cells)
  BY <1>1, FS_Product DEF Pages, Cells
<1>. QED  BY <1>2, FS_Subset, FS_CardinalityType

LEMMA FramesFinite ==
  /\ IsFiniteSet(Frames)
  /\ \A S : S \subseteq Frames => /\ IsFiniteSet(S) /\ Cardinality(S) \in Nat
                                  /\ Cardinality(S) <= Cardinality(Frames)
<1>3. IsFiniteSet(Frames)
  BY PlacesFinite DEF Frames
<1>4. ASSUME NEW S, S \subseteq Frames
      PROVE  IsFiniteSet(S) /\ Cardinality(S) \in Nat /\ Cardinality(S) <= Cardinality(Frames)
  BY <1>3, <1>4, FS_Subset, FS_CardinalityType
<1>. QED  BY <1>3, <1>4

LEMMA CountedKept ==
  ASSUME IInv, [Next]_vars
  PROVE  Counted'
<1>1. CASE SetStatus
  <2>1. Frames' = Frames \cup {<<w.page, w.pos>>} /\ <<w.page, w.pos>> \notin Frames
    BY <1>1, PublishStep
  <2>2. Cardinality(Frames') = Cardinality(Frames) + 1
    BY <2>1, FramesFinite, FS_AddElement
  <2>3. Cardinality(Frames)' = Cardinality(Frames')
    OBVIOUS
  <2>. QED  BY <1>1, <2>2, <2>3 DEF Counted, IInv, SetStatus
<1>2. CASE ~SetStatus
  <2>1. Frames' = Frames
    BY <1>2, StepMemory
  <2>2. written' = written
    BY <1>2 DEF Next, WriterStep, WriteFrame, SeekToEnd, GetPage, Load, FinishPage, SkipWritten,
       Locate, LoadNextPage, CopyData, SetFrameLength, ResetNextEntry, PassFrame, Crash, Seek,
       TakeTime, ChoosePage, SeekTime, Skip, GetNextFrame, Poll, NextPage, Read, Take,
       Expire, vars
  <2>. QED  BY <2>1, <2>2 DEF Counted, IInv
<1>. QED  BY <1>1, <1>2

-----------------------------------------------------------------------------
(* The writer. *)

LEMMA WriterKept ==
  ASSUME IInv, UNCHANGED <<w, mem, files, written>>, inited \subseteq inited'
  PROVE  WriterOK'
<1>1. \A n, i : /\ Begins(n, i)' <=> Begins(n, i)
                /\ Boundary(n, i)' <=> Boundary(n, i)
  BY DEF Begins, Boundary
<1>2. At(w)' = At(w)
  BY DEF At
<1>3. WriterPlace'
  BY <1>1 DEF IInv, WriterOK, WriterPlace
<1>4. WriterFrame'
  BY <1>2 DEF IInv, WriterOK, WriterFrame
<1>5. WriterGoal'
  BY <1>1 DEF IInv, WriterOK, WriterGoal, Tip, RollsOver
<1>. QED  BY <1>3, <1>4, <1>5 DEF WriterOK

(* The writer's steps that leave the memory alone. *)
LEMMA WriterMoves ==
  ASSUME IInv, \/ SeekToEnd \/ GetPage \/ Load \/ LoadNextPage
               \/ Locate \/ SkipWritten \/ PassFrame \/ Crash
  PROVE  WriterOK'
<1>. USE DEF IInv
<1>0. /\ \A n, i : (Begins(n, i)' <=> Begins(n, i)) /\ (Boundary(n, i)' <=> Boundary(n, i))
      /\ w \in WriterRecord /\ inited \subseteq files /\ files \subseteq Pages
  BY DEF SeekToEnd, GetPage, Load, LoadNextPage, Locate, SkipWritten, PassFrame, Crash,
         Begins, Boundary, TypeOK, WriterRecord
<1>. USE DEF WriterRecord
<1>1. CASE SeekToEnd
  <2>1. /\ w'.pc = "get" /\ w'.page = w.page
        /\ w'.goal = IF files = {} THEN 1 ELSE Biggest(files)
    BY <1>0, <1>1 DEF SeekToEnd
  <2>2. w'.goal \in Pages /\ \A n \in files : n <= w'.goal
    BY <1>0, <2>1, BiggestPage, Constants
  <2>3. w'.page = NoPage
    BY <1>1, <2>1 DEF WriterOK, SeekToEnd, WriterPlace
  <2>. QED  BY <1>1, <2>1, <2>2, <2>3 DEF WriterOK, WriterPlace, WriterFrame, WriterGoal,
            RollsOver, Has, Writing, SeekToEnd
<1>2. CASE GetPage
  <2>1. w'.pc = "load" /\ w'.page = w.page /\ w'.pos = w.pos /\ w'.goal = w.goal
    BY <1>0, <1>2 DEF GetPage
  <2>2. w.goal \in Pages /\ \A n \in files : n <= w.goal
    BY <1>2 DEF GetPage, WriterOK, WriterGoal
  <2>3. w.goal \in files' /\ \A n \in files' : n <= w.goal
    BY <1>2, <2>2, Constants DEF GetPage
  <2>4. w.page # NoPage => w.page \in inited /\ Tip(w.page, w.pos) /\ w.goal = w.page + 1
    BY <1>2 DEF GetPage, WriterOK, WriterGoal, RollsOver
  <2>5. Tip(w.page, w.pos) => Tip(w.page, w.pos)'
    BY <1>0, <2>1 DEF Tip
  <2>. QED  BY <1>0, <1>2, <2>1, <2>2, <2>3, <2>4, <2>5 DEF WriterOK, WriterPlace, WriterFrame,
            WriterGoal, RollsOver, Has, Writing, GetPage, Tip
<1>3. CASE Load
  <2>1. w.goal \in Pages /\ w.goal \in files /\ \A n \in files : n <= w.goal
    BY <1>3 DEF Load, WriterOK, WriterGoal
  <2>2. w.goal \in inited' /\ inited \subseteq inited' /\ files' = files
    BY <1>3 DEF Load
  <2>3. CASE w.page = NoPage
    <3>1. w'.pc = "idle" /\ w'.page = w.goal /\ w'.pos = 0
      BY <1>0, <1>3, <2>3 DEF Load
    <3>. QED  BY <2>1, <2>2, <3>1 DEF WriterOK, WriterPlace, WriterFrame,
              WriterGoal, RollsOver, Has, Writing, Boundary
  <2>4. CASE w.page # NoPage
    <3>1. w'.pc = "finish" /\ w'.page = w.page /\ w'.pos = w.pos /\ w'.goal = w.goal
      BY <1>0, <1>3, <2>4 DEF Load
    <3>2. w.page \in inited /\ Tip(w.page, w.pos) /\ w.goal = w.page + 1
      BY <1>3, <2>4 DEF Load, WriterOK, WriterGoal, RollsOver
    <3>3. Tip(w.page, w.pos)'
      BY <1>0, <3>1, <3>2 DEF Tip
    <3>. QED  BY <2>1, <2>2, <2>4, <3>1, <3>2, <3>3 DEF WriterOK, WriterPlace, WriterFrame,
              WriterGoal, RollsOver, Has, Writing
  <2>. QED  BY <2>3, <2>4
<1>4. CASE LoadNextPage
  <2>1. /\ w'.pc = "get" /\ w'.page = w.page /\ w'.pos = w.pos /\ w'.goal = w.page + 1
        /\ files' = files /\ inited' = inited
    BY <1>0, <1>4 DEF LoadNextPage
  <2>2. /\ w.page \in inited /\ w.page \in Pages /\ w.page < MaxPage
        /\ w.pos \in Cells /\ Boundary(w.page, w.pos) /\ \A n \in files : n <= w.page
    BY <1>4, WriterHas DEF LoadNextPage, Has, WriterOK, WriterPlace
  <2>3. ~Begins(w.page, w.pos)
    BY <1>4 DEF LoadNextPage, Begins, At
  <2>4. Tip(w.page, w.pos)'
    BY <1>0, <2>1, <2>2, <2>3 DEF Tip
  <2>5. w'.goal \in Pages /\ \A n \in files' : n <= w'.goal
    BY <1>0, <2>1, <2>2, Constants
  <2>. QED  BY <2>1, <2>2, <2>4, <2>5 DEF WriterOK, WriterPlace, WriterFrame,
            WriterGoal, RollsOver, Has, Writing
<1>5. CASE Locate
  <2>1. /\ w'.pc = "located" /\ w'.page = w.page /\ w'.pos = w.pos
        /\ files' = files /\ inited' = inited
    BY <1>0, <1>5 DEF Locate
  <2>2. w.page \in inited /\ Boundary(w.page, w.pos) /\ \A n \in files : n <= w.page
    BY <1>5 DEF Locate, Has, WriterOK, WriterPlace
  <2>3. ~Begins(w.page, w.pos) /\ w.pos + Headroom < PageCells
    BY <1>5 DEF Locate, Begins, At, Writable
  <2>. QED  BY <1>0, <2>1, <2>2, <2>3 DEF WriterOK, WriterPlace, WriterFrame,
            WriterGoal, RollsOver, Has, Writing
<1>6. CASE SkipWritten \/ PassFrame
  <2>1. /\ w'.pc = "idle" /\ w'.page = w.page /\ w'.pos = w.pos + At(w).len
        /\ files' = files /\ inited' = inited
    BY <1>0, <1>6 DEF SkipWritten, PassFrame
  <2>2. /\ w.page \in inited /\ w.page \in Pages /\ w.pos \in Cells
        /\ Boundary(w.page, w.pos) /\ \A n \in files : n <= w.page
    BY <1>6, WriterHas DEF SkipWritten, PassFrame, Has, WriterOK, WriterPlace
  <2>3. Begins(w.page, w.pos)
    BY <1>6, <2>2, WrittenBegins DEF SkipWritten, PassFrame, At, WriterOK, WriterPlace
  <2>4. Boundary(w.page, w.pos + At(w).len)
    BY <2>2, <2>3, BehindFrame DEF At
  <2>. QED  BY <1>0, <2>1, <2>2, <2>4 DEF WriterOK, WriterPlace, WriterFrame,
            WriterGoal, RollsOver, Has, Writing
<1>7. CASE Crash
  <2>1. w'.pc = "down" /\ w'.page = NoPage
    BY <1>7 DEF Crash, Down
  <2>. QED  BY <2>1 DEF WriterOK, WriterPlace, WriterFrame,
            WriterGoal, RollsOver, Has, Writing
<1>. QED  BY <1>1, <1>2, <1>3, <1>4, <1>5, <1>6, <1>7

(* The writer's stores. *)
LEMMA WriterStores ==
  ASSUME IInv, FinishPage \/ WriteFrame
  PROVE  WriterOK'
<1>. USE DEF IInv
<1>0. /\ w \in WriterRecord /\ inited \subseteq files /\ files \subseteq Pages
      /\ 0 \in Cells /\ UNCHANGED <<files, inited>>
  BY Constants DEF FinishPage, WriteFrame, CopyData, SetFrameLength, ResetNextEntry, SetStatus,
                   PassFrame, TypeOK, WriterRecord
<1>a. ASSUME NEW n \in Pages, NEW i \in Cells
      PROVE  /\ Boundary(n, i) => Boundary(n, i)'
             /\ ~SetStatus => (Begins(n, i)' <=> Begins(n, i))
  BY StepMemory DEF Next, WriterStep
<1>. USE DEF WriterRecord
<1>1. CASE FinishPage
  <2>1. w'.pc = "idle" /\ w'.page = w.goal /\ w'.pos = 0
    BY <1>0, <1>1 DEF FinishPage
  <2>2. w.goal \in inited /\ RollsOver /\ w.goal = w.page + 1
    BY <1>1 DEF FinishPage, WriterOK, WriterGoal, RollsOver
  <2>3. \A n \in files : n <= w.goal
    BY <1>1, <2>2 DEF FinishPage, WriterOK, WriterGoal
  <2>. QED  BY <1>0, <2>1, <2>2, <2>3 DEF WriterOK, WriterPlace, WriterFrame, WriterGoal,
            RollsOver, Has, Writing, Boundary
<1>2. CASE CopyData
  <2>1. PICK len \in Lengths : w' = [w EXCEPT !.pc = "length", !.len = len]
    BY <1>2 DEF CopyData
  <2>2. w'.pc = "length" /\ w'.page = w.page /\ w'.pos = w.pos /\ w'.len \in Lengths
    BY <1>0, <2>1
  <2>3. /\ w.page \in Pages /\ w.page \in inited /\ w.pos \in Cells
        /\ Boundary(w.page, w.pos) /\ \A n \in files : n <= w.page
        /\ ~Begins(w.page, w.pos) /\ w.pos + Headroom < PageCells
    BY <1>2, WriterHas DEF CopyData, Has, Writing, WriterOK, WriterPlace
  <2>4. Boundary(w.page, w.pos)' /\ ~Begins(w.page, w.pos)'
    BY <1>2, <1>a, <2>2, <2>3 DEF CopyData, SetStatus
  <2>5. written' = written /\ written < MaxFrames
    BY <1>2 DEF CopyData
  <2>. QED  BY <1>0, <2>2, <2>3, <2>4, <2>5 DEF WriterOK, WriterPlace, WriterFrame, WriterGoal,
            RollsOver, Has, Writing
<1>3. CASE SetFrameLength
  <2>1. /\ w'.pc = "next" /\ w'.page = w.page /\ w'.pos = w.pos /\ w'.len = w.len
        /\ written' = written
    BY <1>0, <1>3 DEF SetFrameLength
  <2>2. /\ w.page \in Pages /\ w.page \in inited /\ w.pos \in Cells
        /\ Boundary(w.page, w.pos) /\ \A n \in files : n <= w.page
        /\ ~Begins(w.page, w.pos) /\ w.pos + Headroom < PageCells
        /\ w.len \in Lengths /\ written < MaxFrames
    BY <1>3, WriterHas DEF SetFrameLength, Has, Writing, WriterOK, WriterPlace, WriterFrame
  <2>3. Boundary(w.page, w.pos)' /\ ~Begins(w.page, w.pos)'
    BY <1>3, <1>a, <2>1, <2>2 DEF SetFrameLength, SetStatus
  <2>4. mem'[w.page][w.pos] = [mem[w.page][w.pos] EXCEPT !.len = w.len, !.frame = written + 1]
    BY <1>3, <2>2 DEF SetFrameLength, TypeOK
  <2>5. mem'[w.page][w.pos].len = w.len /\ mem'[w.page][w.pos].frame = written + 1
    <3>1. mem[w.page][w.pos] \in Cell
      BY <2>2, CellType
    <3>. QED  BY <2>4, <3>1 DEF Cell
  <2>6. At(w)' = mem'[w.page][w.pos]
    BY <2>1 DEF At
  <2>. QED  BY <1>0, <2>1, <2>2, <2>3, <2>5, <2>6 DEF WriterOK, WriterPlace, WriterFrame,
            WriterGoal, RollsOver, Has, Writing
<1>4. CASE ResetNextEntry
  <2>1. /\ w'.pc = "status" /\ w'.page = w.page /\ w'.pos = w.pos /\ w'.len = w.len
        /\ written' = written
    BY <1>0, <1>4 DEF ResetNextEntry
  <2>2. /\ w.page \in Pages /\ w.page \in inited /\ w.pos \in Cells
        /\ Boundary(w.page, w.pos) /\ \A n \in files : n <= w.page
        /\ ~Begins(w.page, w.pos) /\ w.pos + Headroom < PageCells
        /\ w.len \in Lengths /\ written < MaxFrames
        /\ At(w).len = w.len /\ At(w).frame = written + 1
    BY <1>4, WriterHas DEF ResetNextEntry, Has, Writing, WriterOK, WriterPlace, WriterFrame
  <2>3. Boundary(w.page, w.pos)' /\ ~Begins(w.page, w.pos)'
    BY <1>4, <1>a, <2>1, <2>2 DEF ResetNextEntry, SetStatus
  <2>4. w.pos + w.len \in Cells /\ w.pos + w.len # w.pos
    BY <1>4, RoomToWrite, Constants DEF ResetNextEntry
  <2>5. mem' = [mem EXCEPT ![w.page][w.pos + w.len] = [mem[w.page][w.pos + w.len]
                                                         EXCEPT !.st = "raw"]]
    BY <1>4, <2>2 DEF ResetNextEntry
  <2>6. mem'[w.page][w.pos] = mem[w.page][w.pos]
        /\ mem'[w.page][w.pos + w.len] = [mem[w.page][w.pos + w.len] EXCEPT !.st = "raw"]
    BY <2>2, <2>4, <2>5 DEF TypeOK
  <2>7. mem'[w.page][w.pos + w.len].st = "raw"
    <3>1. mem[w.page][w.pos + w.len] \in Cell
      BY <2>2, <2>4, CellType
    <3>. QED  BY <2>6, <3>1 DEF Cell
  <2>8. At(w)' = At(w)
    BY <2>1, <2>6 DEF At
  <2>. QED  BY <1>0, <2>1, <2>2, <2>3, <2>7, <2>8 DEF WriterOK, WriterPlace, WriterFrame,
            WriterGoal, RollsOver, Has, Writing
<1>5. CASE SetStatus
  <2>1. w'.pc = "pass" /\ w'.page = w.page /\ w'.pos = w.pos
    BY <1>0, <1>5 DEF SetStatus
  <2>2. /\ w.page \in Pages /\ w.page \in inited /\ w.pos \in Cells
        /\ Boundary(w.page, w.pos) /\ \A n \in files : n <= w.page
    BY <1>5, WriterHas DEF SetStatus, Has, WriterOK, WriterPlace
  <2>3. Boundary(w.page, w.pos)'
    BY <1>a, <2>1, <2>2
  <2>4. \A n \in Pages : \A i \in Cells : n = w.page /\ i = w.pos => Begins(n, i)'
    BY <1>5, PublishStep
  <2>5. Begins(w.page, w.pos)'
    BY <2>1, <2>2, <2>4
  <2>. QED  BY <1>0, <2>1, <2>2, <2>3, <2>5 DEF WriterOK, WriterPlace, WriterFrame,
            WriterGoal, RollsOver, Has, Writing
<1>6. CASE PassFrame
  BY <1>6, WriterMoves
<1>. QED  BY <1>1, <1>2, <1>3, <1>4, <1>5, <1>6 DEF WriteFrame

-----------------------------------------------------------------------------
(* The readers. *)

(* What is true of the place of a reader that does not move stays true. *)
LEMMA PlaceStays ==
  ASSUME IInv, [Next]_vars, TypeOK', NEW r \in Readers, rd'[r] = rd[r]
  PROVE  ReaderPlace(r)'
<1>. USE DEF IInv
<1>0. /\ ReaderPlace(r) /\ (HasPlace(r)' <=> HasPlace(r)) /\ (Placed(r)' <=> Placed(r))
      /\ inited \subseteq inited' /\ inited \subseteq files /\ files \subseteq Pages
  BY StepMemory DEF ReadersOK, TypeOK, HasPlace, Placed
<1>1. Placed(r) => /\ rd[r].page \in Pages /\ rd[r].pos \in Cells
                   /\ Boundary(rd[r].page, rd[r].pos)
  BY ReaderHas
<1>2. Placed(r) => Boundary(rd[r].page, rd[r].pos)'
  BY <1>1, StepMemory
<1>3. rd[r].pc = "next" => ~Begins(rd[r].page, rd[r].pos)'
  <2>. SUFFICES ASSUME rd[r].pc = "next" PROVE ~Begins(rd[r].page, rd[r].pos)'
    OBVIOUS
  <2>1. /\ Placed(r) /\ ~Begins(rd[r].page, rd[r].pos) /\ rd[r].page + 1 \in inited
    BY <1>0 DEF ReaderPlace, Placed, HasPlace
  <2>2. CASE SetStatus
    <3>1. rd[r].page + 1 <= w.page /\ w.page \in Pages
      BY <1>0, <2>1, <2>2, WriterHas DEF SetStatus, WriterOK, WriterPlace, Has
    <3>2. rd[r].page # w.page
      BY <1>1, <2>1, <3>1, Constants
    <3>3. \A n \in Pages : \A i \in Cells : Begins(n, i)' <=> Begins(n, i) \/ (n = w.page /\ i = w.pos)
      BY <2>2, PublishStep
    <3>. QED  BY <1>1, <2>1, <3>2, <3>3
  <2>3. CASE ~SetStatus
    <3>1. \A n \in Pages : \A i \in Cells : Begins(n, i)' <=> Begins(n, i)
      BY <2>3, StepMemory
    <3>. QED  BY <1>1, <2>1, <3>1
  <2>. QED  BY <2>2, <2>3
<1>4. rd[r].pc = "take" => Begins(rd[r].page, rd[r].pos)'
  <2>1. rd[r].pc = "take" => Placed(r) /\ Begins(rd[r].page, rd[r].pos)
    BY <1>0 DEF ReaderPlace, Placed, HasPlace
  <2>. QED  BY <1>1, <2>1, StepMemory
<1>. QED  BY <1>0, <1>2, <1>3, <1>4 DEF ReaderPlace

(* A step of the reader itself: only inited may change. *)
LEMMA ReaderMoves ==
  ASSUME IInv, NEW r \in Readers, Seek(r) \/ GetNextFrame(r) \/ Expire(r)
  PROVE  ReaderPlace(r)'
<1>. USE DEF IInv
<1>0. /\ mem' = mem /\ files' = files /\ rd[r] \in ReaderRecord /\ r \in DOMAIN rd
      /\ inited \subseteq inited' /\ inited \subseteq Pages
      /\ files \subseteq Pages /\ 0 \in Cells
  BY StepMemory, Constants DEF TypeOK, ReaderRecord, Next, Seek, GetNextFrame, Expire, TakeTime,
     ChoosePage, SeekTime, Skip, Poll, NextPage, Read, Take
<1>a. \A n, i : (Begins(n, i)' <=> Begins(n, i)) /\ (Boundary(n, i)' <=> Boundary(n, i))
  BY <1>0 DEF Begins, Boundary
<1>b. Placed(r) => /\ rd[r].page \in Pages /\ rd[r].page \in inited /\ rd[r].pos \in Cells
                   /\ Boundary(rd[r].page, rd[r].pos) /\ rd[r].page # NoPage
  BY ReaderHas, Constants DEF NoPage
<1>c. ReaderPlace(r)
  BY DEF ReadersOK
<1>. USE DEF ReaderRecord
<1>1. CASE TakeTime(r)
  <2>1. rd'[r].pc = "timed" /\ rd'[r].page = NoPage /\ rd'[r].pos = 0
    BY <1>0, <1>1 DEF TakeTime, Off
  <2>. QED  BY <2>1 DEF ReaderPlace, Placed, HasPlace
<1>2. CASE ChoosePage(r)
  <2>. DEFINE first == IF files = {} THEN 1 ELSE Least(files)
  <2>1. PageWithTime(r) \in Pages
    BY PageWithTimeType
  <2>2. first \in Pages
    BY <1>0, LeastPage, Constants
  <2>. HIDE DEF first
  <2>3. rd'[r].pc = "seek" /\ rd'[r].page = rd[r].page /\ rd'[r].pos = rd[r].pos
        /\ rd'[r].goal \in {PageWithTime(r), first}
    <3>1. PICK x : /\ rd' = [rd EXCEPT ![r] = x]
                   /\ \/ x = [rd[r] EXCEPT !.pc = "seek", !.known = {}, !.skip = TRUE,
                                           !.goal = PageWithTime(r)]
                      \/ x = [rd[r] EXCEPT !.pc = "seek", !.known = {}, !.since = 0,
                                           !.goal = first]
      BY <1>2 DEF ChoosePage, first
    <3>2. rd'[r] = x
      BY <1>0, <3>1
    <3>. QED  BY <1>0, <3>1, <3>2
  <2>4. rd[r].page = NoPage /\ rd[r].pos = 0
    BY <1>2, <1>c DEF ChoosePage, ReaderPlace
  <2>. QED  BY <2>1, <2>2, <2>3, <2>4 DEF ReaderPlace, Placed, HasPlace
<1>3. CASE SeekTime(r)
  <2>. DEFINE n == Page(r, rd[r].goal)
  <2>1. rd[r].goal \in Pages /\ rd[r].pos = 0
    BY <1>3, <1>c DEF SeekTime, ReaderPlace
  <2>2. n # NoPage => n \in Initialised(n)
    <3>1. rd[r].goal \in 0 .. MaxPage + 1
      BY <2>1, Constants
    <3>. QED  BY <3>1, PageType
  <2>3. inited' = Initialised(n)
    BY <1>3 DEF SeekTime
  <2>4. /\ rd'[r].page = n /\ rd'[r].pos = rd[r].pos /\ rd'[r].expired = (n = NoPage)
        /\ rd'[r].pc \in {"skip", "poll"} /\ (rd'[r].pc = "skip" => n # NoPage)
    <3>. HIDE DEF n
    <3>1. rd' = [rd EXCEPT ![r] = [rd[r] EXCEPT
                     !.page = n, !.expired = (n = NoPage), !.goal = NoPage,
                     !.pc = IF n # NoPage /\ rd[r].skip THEN "skip" ELSE "poll",
                     !.since = IF n # NoPage THEN @ ELSE 0]]
      BY <1>3 DEF SeekTime, n
    <3>. QED  BY <1>0, <3>1
  <2>. HIDE DEF n
  <2>5. Placed(r)' => n # NoPage
    BY <2>4 DEF Placed, HasPlace
  <2>. QED  BY <2>1, <2>2, <2>3, <2>4, <2>5 DEF ReaderPlace, Boundary
<1>4. CASE Skip(r)
  <2>1. Placed(r)
    BY <1>4 DEF Skip, Placed
  <2>2. CASE At(rd[r]).st = "written"
    <3>1. rd'[r].pc = "skip" /\ rd'[r].page = rd[r].page /\ rd'[r].pos = rd[r].pos + At(rd[r]).len
      BY <1>0, <1>4, <2>2 DEF Skip
    <3>2. Begins(rd[r].page, rd[r].pos)
      BY <1>b, <2>1, <2>2, WrittenBegins DEF At
    <3>3. Boundary(rd[r].page, rd[r].pos + At(rd[r]).len)
      BY <1>b, <2>1, <3>2, BehindFrame DEF At
    <3>. QED  BY <1>0, <1>a, <1>b, <2>1, <3>1, <3>3 DEF ReaderPlace
  <2>3. CASE At(rd[r]).st # "written"
    <3>1. rd'[r].pc = "poll" /\ rd'[r].page = rd[r].page /\ rd'[r].pos = rd[r].pos
      BY <1>0, <1>4, <2>3 DEF Skip
    <3>. QED  BY <1>0, <1>a, <1>b, <2>1, <3>1 DEF ReaderPlace
  <2>. QED  BY <2>2, <2>3
<1>5. CASE Poll(r)
  <2>1. Placed(r) /\ ~rd[r].expired
    BY <1>5 DEF Poll, Placed, HasPlace
  <2>2. /\ rd'[r].page = rd[r].page /\ rd'[r].pos = rd[r].pos /\ rd'[r].expired = rd[r].expired
        /\ rd'[r].pc = IF At(rd[r]).st = "end" THEN "next" ELSE "read"
    BY <1>0, <1>5, <1>b, <2>1 DEF Poll
  <2>3. At(rd[r]).st = "end" => /\ ~Begins(rd[r].page, rd[r].pos)
                                /\ rd[r].page + 1 \in inited
    BY <1>b, <2>1 DEF Begins, At, MemOK, TipsOK, Tip
  <2>. QED  BY <1>0, <1>a, <1>b, <2>1, <2>2, <2>3 DEF ReaderPlace
<1>6. CASE NextPage(r)
  <2>1. Placed(r) /\ ~rd[r].expired /\ rd[r].page + 1 \in inited
    BY <1>6, <1>c DEF NextPage, Placed, HasPlace, ReaderPlace
  <2>2. Page(r, rd[r].page + 1) = rd[r].page + 1
    BY <2>1 DEF Page, TypeOK
  <2>3. /\ rd'[r].pc = "read" /\ rd'[r].page = rd[r].page + 1 /\ rd'[r].pos = 0
        /\ rd'[r].expired = rd[r].expired
    BY <1>0, <1>6, <2>2 DEF NextPage
  <2>. QED  BY <1>0, <2>1, <2>3 DEF ReaderPlace, Boundary
<1>7. CASE Read(r)
  <2>1. Placed(r) /\ ~rd[r].expired
    BY <1>7, <1>c DEF Read, Placed, HasPlace, ReaderPlace
  <2>2. /\ rd'[r].page = rd[r].page /\ rd'[r].pos = rd[r].pos /\ rd'[r].expired = rd[r].expired
        /\ rd'[r].pc = IF At(rd[r]).st = "written" THEN "take" ELSE "poll"
    BY <1>0, <1>7, <1>b, <2>1 DEF Read
  <2>3. At(rd[r]).st = "written" => Begins(rd[r].page, rd[r].pos)
    BY <1>b, <2>1, WrittenBegins DEF At
  <2>. QED  BY <1>0, <1>a, <1>b, <2>1, <2>2, <2>3 DEF ReaderPlace
<1>8. CASE Take(r)
  <2>1. Placed(r) /\ ~rd[r].expired /\ Begins(rd[r].page, rd[r].pos)
    BY <1>8, <1>c DEF Take, Placed, HasPlace, ReaderPlace
  <2>2. /\ rd'[r].pc = "poll" /\ rd'[r].page = rd[r].page
        /\ rd'[r].pos = rd[r].pos + At(rd[r]).len
    BY <1>0, <1>8 DEF Take
  <2>3. Boundary(rd[r].page, rd[r].pos + At(rd[r]).len)
    BY <1>b, <2>1, BehindFrame DEF At
  <2>. QED  BY <1>0, <1>a, <1>b, <2>1, <2>2, <2>3 DEF ReaderPlace
<1>9. CASE Expire(r)
  <2>1. rd'[r].pc = "poll" /\ rd'[r].expired
    BY <1>0, <1>9 DEF Expire
  <2>. QED  BY <2>1 DEF ReaderPlace, Placed, HasPlace
<1>. QED  BY <1>1, <1>2, <1>3, <1>4, <1>5, <1>6, <1>7, <1>8, <1>9 DEF Seek, GetNextFrame

LEMMA OwnSteps ==
  ASSUME IInv, [Next]_vars, NEW r \in Readers, rd'[r] # rd[r]
  PROVE  Seek(r) \/ GetNextFrame(r) \/ Expire(r)
<1>1. ASSUME NEW q \in Readers, Seek(q) \/ GetNextFrame(q) \/ Expire(q), q # r
      PROVE  rd'[r] = rd[r]
  BY <1>1 DEF Seek, TakeTime, ChoosePage, SeekTime, Skip, GetNextFrame, Poll, NextPage, Read,
     Take, Expire, IInv, TypeOK
<1>2. ASSUME WriterStep \/ UNCHANGED vars PROVE rd'[r] = rd[r]
  BY <1>2 DEF WriterStep, WriteFrame, SeekToEnd, GetPage, Load, FinishPage, SkipWritten, Locate,
     LoadNextPage, CopyData, SetFrameLength, ResetNextEntry, SetStatus, PassFrame, Crash, vars
<1>. QED  BY <1>1, <1>2 DEF Next

LEMMA ReadersKept ==
  ASSUME IInv, [Next]_vars, TypeOK'
  PROVE  ReadersOK'
<1>. SUFFICES ASSUME NEW r \in Readers PROVE ReaderPlace(r)'
  BY DEF ReadersOK
<1>1. CASE rd'[r] = rd[r]
  BY <1>1, PlaceStays
<1>2. CASE rd'[r] # rd[r]
  BY <1>2, OwnSteps, ReaderMoves
<1>. QED  BY <1>1, <1>2

(* The frames there were at a time stay where they are. *)
LEMMA FramesGrow ==
  ASSUME IInv, [Next]_vars, TypeOK'
  PROVE  /\ Frames \subseteq Frames'
         /\ \A S \in SUBSET Frames, T \in SUBSET Frames' :
              S \subseteq T => /\ Cardinality(S) \in Nat /\ Cardinality(T) \in Nat
                               /\ Cardinality(S) <= Cardinality(T)
<1>1. Frames \subseteq Frames'
  BY StepMemory DEF Frames
<1>2. IsFiniteSet(Frames')
  <2>1. Frames' \in SUBSET (Pages \X Cells)
    BY DEF Frames
  <2>. QED  BY <2>1, PlacesFinite
<1>3. ASSUME NEW S \in SUBSET Frames, NEW T \in SUBSET Frames', S \subseteq T
      PROVE  /\ Cardinality(S) \in Nat /\ Cardinality(T) \in Nat
             /\ Cardinality(S) <= Cardinality(T)
  <2>1. IsFiniteSet(T)
    BY <1>2, FS_Subset
  <2>. QED  BY <1>3, <2>1, FS_Subset, FS_CardinalityType
<1>. QED  BY <1>1, <1>3

LEMMA TimeStays ==
  ASSUME IInv, [Next]_vars, TypeOK', NEW r \in Readers, rd'[r] = rd[r]
  PROVE  ReaderTime(r)'
<1>. USE DEF IInv
<1>1. ReaderTime(r) /\ inited \subseteq inited' /\ Frames \subseteq Frames'
      /\ rd[r].since \in Nat
  BY StepMemory, FramesGrow, Constants DEF TimesOK, TypeOK
<1>3. \A n : Cardinality(FramesUpTo(n)) <= Cardinality(FramesUpTo(n)')
             /\ Cardinality(FramesUpTo(n)) \in Nat /\ Cardinality(FramesUpTo(n)') \in Nat
  <2>. TAKE n
  <2>1. FramesUpTo(n) \in SUBSET Frames /\ FramesUpTo(n)' \in SUBSET Frames'
        /\ FramesUpTo(n) \subseteq FramesUpTo(n)'
    BY <1>1 DEF FramesUpTo
  <2>. QED  BY <2>1, FramesGrow
<1>4. rd'[r].known \subseteq inited'
  BY <1>1 DEF ReaderTime
<1>5. rd[r].pc = "timed" =>
        rd[r].since <= Cardinality({x \in Frames : x[1] \in rd[r].known})'
  <2>. DEFINE K == rd[r].known
              S == {x \in Frames : x[1] \in K}  T == {x \in Frames' : x[1] \in K}
  <2>1. S \in SUBSET Frames /\ T \in SUBSET Frames' /\ S \subseteq T
    BY <1>1
  <2>2. /\ Cardinality(S) \in Nat /\ Cardinality(T) \in Nat
        /\ Cardinality(S) <= Cardinality(T)
    BY <2>1, FramesGrow
  <2>3. rd[r].pc = "timed" => rd[r].since <= Cardinality(S)
    BY <1>1 DEF ReaderTime
  <2>4. {x \in Frames : x[1] \in rd[r].known}' = T
    OBVIOUS
  <2>. HIDE DEF K, S, T
  <2>5. rd[r].pc = "timed" => rd[r].since <= Cardinality(T)
    BY <1>1, <2>2, <2>3
  <2>. QED  BY <2>4, <2>5
<1>6. rd[r].pc = "seek" /\ rd[r].skip => rd[r].since <= Cardinality(FramesUpTo(rd[r].goal))'
  BY <1>1, <1>3 DEF ReaderTime
<1>7. rd[r].pc = "skip" => rd[r].since <= Cardinality(FramesUpTo(rd[r].page))'
  BY <1>1, <1>3 DEF ReaderTime
<1>. QED  BY <1>4, <1>5, <1>6, <1>7 DEF ReaderTime

LEMMA TimeMoves ==
  ASSUME IInv, NEW r \in Readers, Seek(r) \/ GetNextFrame(r) \/ Expire(r)
  PROVE  ReaderTime(r)'
<1>. USE DEF IInv
<1>0. /\ mem' = mem /\ rd[r] \in ReaderRecord /\ r \in DOMAIN rd
      /\ inited \subseteq inited' /\ inited \subseteq files
  BY StepMemory DEF TypeOK, ReaderRecord, Next, Seek, GetNextFrame, Expire, TakeTime,
     ChoosePage, SeekTime, Skip, Poll, NextPage, Read, Take
<1>a. Frames' = Frames /\ \A n : FramesUpTo(n)' = FramesUpTo(n)
  BY <1>0 DEF Frames, Begins, FramesUpTo
<1>b. ReaderTime(r) /\ rd[r].known \subseteq inited'
  BY <1>0 DEF TimesOK, ReaderTime
<1>. USE DEF ReaderRecord
<1>1. CASE TakeTime(r)
  <2>1. rd'[r].pc = "timed" /\ rd'[r].known = inited /\ rd'[r].since = written
    BY <1>0, <1>1 DEF TakeTime, Off
  <2>2. {x \in Frames : x[1] \in inited} = Frames
    BY DEF Frames, MemOK, FramesFit
  <2>3. written <= Cardinality(Frames)
    BY Constants DEF Counted, TypeOK
  <2>4. {x \in Frames : x[1] \in rd[r].known}' = {x \in Frames : x[1] \in inited}
    BY <1>a, <2>1
  <2>. QED  BY <1>0, <2>1, <2>2, <2>3, <2>4 DEF ReaderTime
<1>2. CASE ChoosePage(r)
  <2>. DEFINE first == IF files = {} THEN 1 ELSE Least(files)
  <2>. HIDE DEF first
  <2>1. PICK to : /\ rd' = [rd EXCEPT ![r] = to]
                  /\ \/ to = [rd[r] EXCEPT !.pc = "seek", !.known = {}, !.skip = TRUE,
                                           !.goal = PageWithTime(r)]
                     \/ to = [rd[r] EXCEPT !.pc = "seek", !.known = {}, !.since = 0,
                                           !.goal = first]
    BY <1>2 DEF ChoosePage, first
  <2>2. /\ rd'[r].pc = "seek" /\ rd'[r].known = {}
        /\ \/ rd'[r].goal = PageWithTime(r) /\ rd'[r].since = rd[r].since
           \/ rd'[r].since = 0
    BY <1>0, <2>1
  <2>3. Cardinality(FramesUpTo(rd'[r].goal)) \in Nat
    BY FramesFinite DEF FramesUpTo
  <2>4. rd[r].since <= Cardinality(FramesUpTo(PageWithTime(r)))
    <3>. DEFINE S == {x \in Frames : x[1] \in rd[r].known}
    <3>1. rd[r].since <= Cardinality(S)
      BY <1>2, <1>b DEF ChoosePage, ReaderTime
    <3>2. S \subseteq FramesUpTo(PageWithTime(r))
      BY <1>0, <1>b, PageWithTimeType DEF FramesUpTo, ReaderTime
    <3>3. FramesUpTo(PageWithTime(r)) \subseteq Frames /\ S \subseteq Frames
      BY DEF FramesUpTo
    <3>4. /\ Cardinality(S) \in Nat /\ Cardinality(FramesUpTo(PageWithTime(r))) \in Nat
          /\ Cardinality(S) <= Cardinality(FramesUpTo(PageWithTime(r)))
      BY <3>2, <3>3, FramesFinite, FS_Subset
    <3>5. rd[r].since \in Nat
      BY <1>0, Constants
    <3>. HIDE DEF S
    <3>. QED  BY <3>1, <3>4, <3>5
  <2>5. rd'[r].since <= Cardinality(FramesUpTo(rd'[r].goal))
    BY <2>2, <2>3, <2>4
  <2>6. FramesUpTo(rd[r].goal)' = FramesUpTo(rd'[r].goal)
    BY <1>a DEF FramesUpTo
  <2>. QED  BY <2>2, <2>5, <2>6 DEF ReaderTime
<1>3. CASE SeekTime(r)
  <2>. DEFINE n == Page(r, rd[r].goal)
  <2>1. n # NoPage => n = rd[r].goal
    BY DEF Page
  <2>. HIDE DEF n
  <2>2. rd' = [rd EXCEPT ![r] = [rd[r] EXCEPT
                   !.page = n, !.expired = (n = NoPage), !.goal = NoPage,
                   !.pc = IF n # NoPage /\ rd[r].skip THEN "skip" ELSE "poll",
                   !.since = IF n # NoPage THEN @ ELSE 0]]
    BY <1>3 DEF SeekTime, n
  <2>3. /\ rd'[r].known = rd[r].known /\ rd'[r].pc \in {"skip", "poll"}
        /\ rd'[r].pc = "skip" => /\ n # NoPage /\ rd[r].skip /\ rd'[r].page = n
                                 /\ rd'[r].since = rd[r].since
    BY <1>0, <2>2
  <2>4. rd[r].skip => rd[r].since <= Cardinality(FramesUpTo(rd[r].goal))
    BY <1>3, <1>b DEF SeekTime, ReaderTime
  <2>5. FramesUpTo(rd[r].page)' = FramesUpTo(rd'[r].page)
    BY <1>a DEF FramesUpTo
  <2>. QED  BY <1>b, <2>1, <2>3, <2>4, <2>5 DEF ReaderTime
<1>4. CASE Skip(r)
  <2>1. rd[r].since <= Cardinality(FramesUpTo(rd[r].page))
    BY <1>4, <1>b DEF Skip, ReaderTime
  <2>2. /\ rd'[r].known = rd[r].known /\ rd'[r].pc \in {"skip", "poll"}
        /\ rd'[r].page = rd[r].page
        /\ rd'[r].pc = "skip" => rd'[r].since = rd[r].since
    <3>1. CASE At(rd[r]).st = "written"
      BY <1>0, <1>4, <3>1 DEF Skip
    <3>2. CASE At(rd[r]).st # "written"
      BY <1>0, <1>4, <3>2 DEF Skip
    <3>. QED  BY <3>1, <3>2
  <2>3. FramesUpTo(rd[r].page)' = FramesUpTo(rd'[r].page)
    BY <1>a DEF FramesUpTo
  <2>. QED  BY <1>a, <1>b, <2>1, <2>2, <2>3 DEF ReaderTime
<1>5. CASE GetNextFrame(r) \/ Expire(r)
  <2>1. rd'[r].known = rd[r].known /\ rd'[r].pc \in {"poll", "next", "read", "take"}
    <3>1. CASE Poll(r) \/ Read(r)
      BY <1>0, <3>1 DEF Poll, Read
    <3>2. CASE NextPage(r)
      BY <1>0, <3>2 DEF NextPage
    <3>3. CASE Take(r)
      BY <1>0, <3>3 DEF Take
    <3>4. CASE Expire(r)
      BY <1>0, <3>4 DEF Expire
    <3>. QED  BY <1>5, <3>1, <3>2, <3>3, <3>4 DEF GetNextFrame
  <2>. QED  BY <1>b, <2>1 DEF ReaderTime
<1>. QED  BY <1>1, <1>2, <1>3, <1>4, <1>5 DEF Seek

LEMMA TimesKept ==
  ASSUME IInv, [Next]_vars, TypeOK'
  PROVE  TimesOK'
<1>. SUFFICES ASSUME NEW r \in Readers PROVE ReaderTime(r)'
  BY DEF TimesOK
<1>1. CASE rd'[r] = rd[r]
  BY <1>1, TimeStays
<1>2. CASE rd'[r] # rd[r]
  BY <1>2, OwnSteps, TimeMoves
<1>. QED  BY <1>1, <1>2

-----------------------------------------------------------------------------
(* The theorems.                                                           *)

LEMMA InitInvariant == Init => IInv
<1>. SUFFICES ASSUME Init PROVE IInv
  OBVIOUS
<1>1. TypeOK
  BY InitType
<1>2. \A n, i : n \in Pages /\ i \in Cells => mem[n][i] = Raw
  BY DEF Init
<1>3. \A n \in Pages : \A i \in Cells : ~Begins(n, i)
  BY <1>2 DEF Begins, Raw
<1>4. MemOK
  BY <1>2, <1>3 DEF MemOK, FramesFit, FramesApart, TipsOK, Raw
<1>5. Frames = {}
  BY <1>3 DEF Frames
<1>6. Counted
  BY <1>5, FS_EmptySet DEF Counted, Init
<1>7. WriterOK
  BY DEF Init, Down, WriterOK, WriterPlace, WriterFrame, WriterGoal, Has, Writing, RollsOver
<1>8. ReadersOK /\ TimesOK
  BY DEF Init, Off, ReadersOK, ReaderPlace, Placed, HasPlace, TimesOK, ReaderTime
<1>. QED  BY <1>1, <1>4, <1>6, <1>7, <1>8 DEF IInv

LEMMA StepInvariant ==
  ASSUME IInv, [Next]_vars
  PROVE  IInv'
<1>1. TypeOK'
  BY StepType
<1>2. MemOK'
  BY StepMemory
<1>3. WriterOK'
  <2>1. CASE WriterStep
    BY <2>1, WriterMoves, WriterStores DEF WriterStep, WriteFrame
  <2>2. ASSUME NEW r \in Readers, Seek(r) \/ GetNextFrame(r) \/ Expire(r)
        PROVE  UNCHANGED <<w, mem, files, written>>
    BY <2>2 DEF Seek, TakeTime, ChoosePage, SeekTime, Skip, GetNextFrame, Poll, NextPage, Read,
       Take, Expire
  <2>3. inited \subseteq inited'
    BY StepMemory
  <2>. QED  BY <2>1, <2>2, <2>3, WriterKept DEF Next, vars
<1>. QED  BY <1>1, <1>2, <1>3, CountedKept, ReadersKept, TimesKept DEF IInv

LEMMA Invariance == Spec => []IInv
<1>. QED  BY InitInvariant, StepInvariant, PTL DEF Spec

(* Every variable keeps its type: no position of the writer or of a reader *)
(* gets out of a page (PassFrame, LocateWritableFrame).                    *)
THEOREM TypeCorrect == Spec => []TypeOK
<1>1. IInv => TypeOK
  BY DEF IInv
<1>. QED  BY <1>1, Invariance, PTL

(* What a reader hands out is a frame that was written (GetNextFrame,      *)
(* SetStatusWritten).                                                      *)
THEOREM ReadersGetFrames == Spec => []HandsOutFrames
<1>1. IInv => HandsOutFrames
  BY DEF IInv, ReadersOK, ReaderPlace, HandsOutFrames
<1>. QED  BY <1>1, Invariance, PTL

(* No step of any writer or reader changes a frame that was written        *)
(* (WriteFrameFull, FinishPage, LocateWritableFrame).                      *)
THEOREM FramesAreKept == Spec => FramesStay
<1>1. IInv /\ [Next]_vars =>
        [\A n \in Pages : \A i \in Cells : Begins(n, i) => mem'[n][i] = mem[n][i]]_vars
  BY StepMemory
<1>. QED  BY <1>1, Invariance, PTL DEF Spec, FramesStay

(* A reader that starts at a time begins behind all frames there were then *)
(* (GetPageNumWithTime, SkipWrittenFrame).                                 *)
THEOREM NoneFromBefore == Spec => NoOldFrames
<1>. DEFINE A == \A r \in Readers : rd[r].pc = "skip" /\ rd'[r].pc = "poll" =>
                   Cardinality(Passed(r)) >= rd[r].since
<1>1. ASSUME IInv, [Next]_vars PROVE A
  <2>. SUFFICES ASSUME NEW r \in Readers, rd[r].pc = "skip", rd'[r].pc = "poll"
                PROVE  Cardinality(Passed(r)) >= rd[r].since
    OBVIOUS
  <2>. USE <1>1 DEF IInv
  <2>1. Skip(r)
    BY OwnSteps DEF Seek, TakeTime, ChoosePage, SeekTime, GetNextFrame, Poll, NextPage, Read,
       Take, Expire
  <2>2. At(rd[r]).st # "written"
    BY <2>1 DEF Skip, TypeOK
  <2>3. Placed(r) /\ Tip(rd[r].page, rd[r].pos) /\ rd[r].page \in Pages /\ rd[r].pos \in Cells
    BY <2>2, ReaderHas DEF Placed, Tip, Begins, At
  <2>4. FramesUpTo(rd[r].page) \subseteq Passed(r)
    <3>. SUFFICES ASSUME NEW x \in FramesUpTo(rd[r].page) PROVE x \in Passed(r)
      OBVIOUS
    <3>1. x \in Pages \X Cells /\ Begins(x[1], x[2]) /\ x[1] <= rd[r].page
      BY DEF FramesUpTo, Frames
    <3>2. x[1] = rd[r].page => x[2] < rd[r].pos
      BY <2>3, <3>1, BeforeTip
    <3>3. x[1] < rd[r].page \/ x[1] = rd[r].page
      BY <2>3, <3>1, Constants
    <3>. QED  BY <3>1, <3>2, <3>3 DEF Passed
  <2>5. Passed(r) \subseteq Frames
    BY DEF Passed, Frames
  <2>6. /\ Cardinality(FramesUpTo(rd[r].page)) <= Cardinality(Passed(r))
        /\ Cardinality(Passed(r)) \in Nat /\ Cardinality(FramesUpTo(rd[r].page)) \in Nat
    BY <2>4, <2>5, FramesFinite, FS_Subset
  <2>7. rd[r].since <= Cardinality(FramesUpTo(rd[r].page)) /\ rd[r].since \in Nat
    <3>1. rd[r].since \in Nat
      BY Constants DEF TypeOK
    <3>. QED  BY <3>1 DEF TimesOK, ReaderTime
  <2>. QED  BY <2>6, <2>7
<1>2. IInv /\ [Next]_vars => [A]_vars
  BY <1>1
<1>. QED  BY <1>2, Invariance, PTL DEF Spec, NoOldFrames

-----------------------------------------------------------------------------
(* The refinement of Journal.                                              *)

Place(r) == IF HasPlace(r) THEN Cardinality(Passed(r)) ELSE -1
Places == [r \in Readers |-> Place(r)]

LEMMA PassedCount ==
  ASSUME IInv, NEW r \in Readers
  PROVE  Passed(r) \subseteq Frames /\ Cardinality(Passed(r)) \in 0 .. written
<1>1. Passed(r) \subseteq Frames
  BY DEF Passed, Frames
<1>2. Cardinality(Passed(r)) \in Nat /\ Cardinality(Passed(r)) <= written /\ written \in Nat
  BY <1>1, FramesFinite, Constants DEF IInv, Counted, TypeOK
<1>. QED  BY <1>1, <1>2

(* No frame begins before the place of a reader. *)
LEMMA PassedStays ==
  ASSUME IInv, [Next]_vars, NEW r \in Readers, rd'[r] = rd[r]
  PROVE  Place(r)' = Place(r)
<1>. USE DEF IInv
<1>1. HasPlace(r)' <=> HasPlace(r)
  BY DEF HasPlace
<1>2. ASSUME HasPlace(r) PROVE Passed(r)' = Passed(r)
  <2>1. CASE SetStatus
    <3>0. /\ rd[r].page \in Pages /\ rd[r].pos \in Cells /\ rd[r].page \in inited
          /\ Boundary(rd[r].page, rd[r].pos)
      BY <1>2, ReaderHas DEF Placed
    <3>1. /\ w.page \in Pages /\ w.pos \in Cells /\ Tip(w.page, w.pos)
          /\ \A n \in Pages : \A i \in Cells :
               Begins(n, i)' <=> Begins(n, i) \/ (n = w.page /\ i = w.pos)
      BY <2>1, PublishStep
    <3>2. rd[r].page <= w.page
      BY <2>1, <3>0 DEF SetStatus, WriterOK, WriterPlace, Has, TypeOK
    <3>3. rd[r].page = w.page => rd[r].pos <= w.pos
      <4>. SUFFICES ASSUME rd[r].page = w.page, rd[r].pos # 0 PROVE rd[r].pos <= w.pos
        BY <3>1, Constants
      <4>1. PICK j \in Cells : Begins(w.page, j) /\ rd[r].pos = j + mem[w.page][j].len
        BY <3>0 DEF Boundary
      <4>. QED  BY <3>1, <4>1, BeforeTip
    <3>4. ~ (\/ w.page < rd[r].page
             \/ w.page = rd[r].page /\ w.pos < rd[r].pos)
      BY <3>0, <3>1, <3>2, <3>3, Constants
    <3>5. ASSUME NEW x \in Pages \X Cells
          PROVE  x \in Passed(r)' <=> x \in Passed(r)
      <4>1. x[1] \in Pages /\ x[2] \in Cells
        OBVIOUS
      <4>2. Begins(x[1], x[2])' <=> Begins(x[1], x[2]) \/ (x[1] = w.page /\ x[2] = w.pos)
        BY <3>1, <4>1
      <4>. QED  BY <3>4, <4>2 DEF Passed
    <3>6. Passed(r) \subseteq Pages \X Cells /\ Passed(r)' \subseteq Pages \X Cells
      BY DEF Passed
    <3>. QED  BY <3>5, <3>6
  <2>2. CASE ~SetStatus
    <3>1. \A n \in Pages : \A i \in Cells : Begins(n, i)' <=> Begins(n, i)
      BY <2>2, StepMemory
    <3>. QED  BY <3>1 DEF Passed
  <2>. QED  BY <2>1, <2>2
<1>. QED  BY <1>1, <1>2 DEF Place

(* What a reader's step does to its own place. *)
LEMMA ReaderPlaceStep ==
  ASSUME IInv, NEW r \in Readers, Seek(r) \/ GetNextFrame(r) \/ Expire(r)
  PROVE  \/ Place(r)' = Place(r)
         \/ Place(r)' = -1
         \/ Place(r) = -1 /\ Place(r)' \in 0 .. written
         \/ Place(r) \in 0 .. written - 1 /\ Place(r)' = Place(r) + 1
<1>. USE DEF IInv
<1>0. /\ mem' = mem /\ written' = written /\ rd[r] \in ReaderRecord /\ r \in DOMAIN rd
  BY DEF TypeOK, ReaderRecord, Seek, GetNextFrame, Expire, TakeTime,
     ChoosePage, SeekTime, Skip, Poll, NextPage, Read, Take
<1>a. /\ \A n, i : Begins(n, i)' <=> Begins(n, i)
      /\ Passed(r)' \subseteq Frames
  BY <1>0 DEF Begins, Passed, Frames
<1>b. Cardinality(Passed(r)') \in 0 .. written
  <2>1. Cardinality(Passed(r)') \in Nat /\ Cardinality(Passed(r)') <= written /\ written \in Nat
    BY <1>a, FramesFinite, Constants DEF Counted, TypeOK
  <2>. QED  BY <2>1
<1>c. HasPlace(r) => /\ rd[r].page \in Pages /\ rd[r].pos \in Cells /\ ~rd[r].expired
                     /\ Boundary(rd[r].page, rd[r].pos) /\ ReaderPlace(r)
  BY ReaderHas DEF Placed, HasPlace, ReadersOK
<1>. USE DEF ReaderRecord
<1>1. CASE Seek(r) /\ rd[r].pc # "poll"
  <2>1. ~HasPlace(r)
    BY <1>1 DEF HasPlace, Seek, TakeTime, ChoosePage, SeekTime, Skip
  <2>2. Place(r) = -1 /\ Place(r)' \in {-1} \cup 0 .. written
    BY <1>b, <2>1 DEF Place
  <2>. QED  BY <2>2
<1>2. CASE TakeTime(r) \/ Expire(r)
  <2>1. ~HasPlace(r)'
    <3>1. CASE TakeTime(r)
      BY <1>0, <3>1 DEF TakeTime, Off, HasPlace
    <3>2. CASE Expire(r)
      BY <1>0, <3>2 DEF Expire, HasPlace
    <3>. QED  BY <1>2, <3>1, <3>2
  <2>. QED  BY <2>1 DEF Place
<1>3. CASE Poll(r) \/ Read(r)
  <2>1. /\ rd'[r].page = rd[r].page /\ rd'[r].pos = rd[r].pos /\ rd'[r].expired = rd[r].expired
        /\ rd'[r].pc \in {"next", "read", "poll", "take"} /\ rd[r].pc \in {"poll", "read"}
    BY <1>0, <1>3 DEF Poll, Read
  <2>2. Passed(r)' = Passed(r) /\ (HasPlace(r)' <=> HasPlace(r))
    BY <1>a, <2>1 DEF Passed, HasPlace
  <2>. QED  BY <2>2 DEF Place
<1>4. CASE NextPage(r)
  <2>1. HasPlace(r) /\ ~Begins(rd[r].page, rd[r].pos) /\ rd[r].page + 1 \in inited
    BY <1>4 DEF NextPage, HasPlace, ReadersOK, ReaderPlace
  <2>2. Page(r, rd[r].page + 1) = rd[r].page + 1
    BY <2>1 DEF Page, TypeOK
  <2>3. /\ rd'[r].pc = "read" /\ rd'[r].page = rd[r].page + 1 /\ rd'[r].pos = 0
        /\ rd'[r].expired = rd[r].expired
    BY <1>0, <1>4, <2>2 DEF NextPage
  <2>4. Tip(rd[r].page, rd[r].pos)
    BY <1>c, <2>1 DEF Tip
  <2>5. ASSUME NEW x \in Pages \X Cells
        PROVE  x \in Passed(r)' <=> x \in Passed(r)
    <3>1. x[1] \in Nat /\ x[2] \in Nat /\ rd[r].page \in Nat /\ x[1] \in Pages /\ x[2] \in Cells
      BY <1>c, <2>1, Constants
    <3>2. ~ (x[2] < 0) /\ (x[1] < rd[r].page + 1 <=> x[1] < rd[r].page \/ x[1] = rd[r].page)
      BY <3>1
    <3>3. Begins(x[1], x[2]) /\ x[1] = rd[r].page => x[2] < rd[r].pos
      BY <1>c, <2>1, <2>4, <3>1, BeforeTip
    <3>. QED  BY <1>a, <2>3, <3>2, <3>3 DEF Passed
  <2>6. Passed(r) \subseteq Pages \X Cells /\ Passed(r)' \subseteq Pages \X Cells
    BY DEF Passed
  <2>7. Passed(r)' = Passed(r) /\ HasPlace(r)'
    BY <1>c, <2>1, <2>3, <2>5, <2>6 DEF HasPlace
  <2>. QED  BY <2>1, <2>7 DEF Place
<1>5. CASE Take(r)
  <2>1. HasPlace(r) /\ Begins(rd[r].page, rd[r].pos)
    BY <1>5 DEF Take, HasPlace, ReadersOK, ReaderPlace
  <2>. DEFINE k == mem[rd[r].page][rd[r].pos].len
              here == <<rd[r].page, rd[r].pos>>
  <2>2. /\ rd'[r].pc = "poll" /\ rd'[r].page = rd[r].page /\ rd'[r].pos = rd[r].pos + k
        /\ rd'[r].expired = rd[r].expired
    BY <1>0, <1>5 DEF Take, At
  <2>3. k \in Nat /\ k >= 1 /\ rd[r].pos \in Nat /\ rd[r].page \in Nat
    BY <1>c, <2>1, BehindFrame, Constants
  <2>4. ASSUME NEW x \in Pages \X Cells
        PROVE  x \in Passed(r)' <=> x \in Passed(r) \/ x = here
    <3>1. x[2] \in Nat /\ x[1] \in Pages /\ x[2] \in Cells /\ x = <<x[1], x[2]>>
      BY Constants
    <3>2. Begins(x[1], x[2]) /\ x[1] = rd[r].page /\ rd[r].pos < x[2] => rd[r].pos + k <= x[2]
      BY <1>c, <2>1, <3>1 DEF MemOK, FramesApart
    <3>3. Begins(x[1], x[2]) /\ x[1] = rd[r].page =>
            (x[2] < rd[r].pos + k <=> x[2] < rd[r].pos \/ x[2] = rd[r].pos)
      BY <2>3, <3>1, <3>2
    <3>4. x = here <=> x[1] = rd[r].page /\ x[2] = rd[r].pos
      BY <3>1
    <3>. HIDE DEF here, k
    <3>. QED  BY <1>a, <2>1, <2>2, <2>3, <3>3, <3>4 DEF Passed
  <2>5. /\ Passed(r) \subseteq Pages \X Cells /\ Passed(r)' \subseteq Pages \X Cells
        /\ here \in Pages \X Cells
    BY <1>c, <2>1 DEF Passed
  <2>6. here \notin Passed(r)
    BY <2>3 DEF Passed
  <2>. HIDE DEF here, k
  <2>7. Passed(r)' = Passed(r) \cup {here}
    BY <2>4, <2>5
  <2>8. IsFiniteSet(Passed(r))
    BY PassedCount, FramesFinite
  <2>9. Cardinality(Passed(r)') = Cardinality(Passed(r)) + 1
    BY <2>6, <2>7, <2>8, FS_AddElement
  <2>10. HasPlace(r)'
    BY <1>c, <2>1, <2>2 DEF HasPlace
  <2>11. Cardinality(Passed(r)) \in Nat /\ written \in Nat
    BY PassedCount, Constants DEF TypeOK
  <2>12. Place(r) = Cardinality(Passed(r)) /\ Place(r)' = Cardinality(Passed(r)')
    BY <2>1, <2>10 DEF Place
  <2>. QED  BY <1>b, <2>9, <2>11, <2>12
<1>. QED  BY <1>1, <1>2, <1>3, <1>4, <1>5 DEF Seek, GetNextFrame, ChoosePage, SeekTime, Skip

LEMMA InitRefines == Init => Abstract!Init
<1>. SUFFICES ASSUME Init PROVE Abstract!Init
  OBVIOUS
<1>1. \A r \in Readers : ~HasPlace(r)
  BY DEF Init, Off, HasPlace
<1>. QED  BY <1>1 DEF Init, Abstract!Init

(* SetStatus is Append, Take is Take; a seek opens or closes a place,      *)
(* Expire closes it, and every other step is a stutter.                    *)
LEMMA StepRefines ==
  ASSUME IInv, [Next]_vars
  PROVE  [Abstract!Next]_Abstract!vars
<1>. DEFINE at == [r \in Readers |-> IF HasPlace(r) THEN Cardinality(Passed(r)) ELSE -1]
<1>0. at = Places /\ at' = Places'
  BY DEF Places, Place
<1>1. CASE WriterStep \/ UNCHANGED vars
  <2>1. \A r \in Readers : rd'[r] = rd[r]
    BY <1>1 DEF WriterStep, WriteFrame, SeekToEnd, GetPage, Load, FinishPage, SkipWritten, Locate,
       LoadNextPage, CopyData, SetFrameLength, ResetNextEntry, SetStatus, PassFrame, Crash, vars
  <2>2. \A r \in Readers : Place(r)' = Place(r)
    BY <2>1, PassedStays
  <2>3. at' = at
    BY <1>0, <2>2 DEF Places
  <2>4. written' = written \/ written' = written + 1
    BY <1>1 DEF WriterStep, WriteFrame, SeekToEnd, GetPage, Load, FinishPage, SkipWritten, Locate,
       LoadNextPage, CopyData, SetFrameLength, ResetNextEntry, SetStatus, PassFrame, Crash, vars
  <2>. QED  BY <2>3, <2>4 DEF Abstract!Next, Abstract!Append, Abstract!vars
<1>2. ASSUME NEW r \in Readers, Seek(r) \/ GetNextFrame(r) \/ Expire(r)
      PROVE  [Abstract!Next]_Abstract!vars
  <2>1. \A q \in Readers : q # r => rd'[q] = rd[q]
    BY <1>2 DEF Seek, TakeTime, ChoosePage, SeekTime, Skip, GetNextFrame, Poll, NextPage, Read,
       Take, Expire, IInv, TypeOK
  <2>2. \A q \in Readers : q # r => Place(q)' = Place(q)
    BY <2>1, PassedStays
  <2>3. written' = written
    BY <1>2 DEF Seek, TakeTime, ChoosePage, SeekTime, Skip, GetNextFrame, Poll, NextPage, Read,
       Take, Expire
  <2>4. Places' = [Places EXCEPT ![r] = Place(r)']
    BY <2>2 DEF Places
  <2>5. Places[r] = Place(r)
    BY DEF Places
  <2>6. CASE Place(r)' = Place(r)
    <3>1. Places' = Places
      BY <2>4, <2>5, <2>6 DEF Places
    <3>. QED  BY <1>0, <2>3, <3>1 DEF Abstract!vars
  <2>7. CASE Place(r)' = -1
    BY <1>0, <2>3, <2>4, <2>7 DEF Abstract!Next, Abstract!Close
  <2>8. CASE Place(r) = -1 /\ Place(r)' \in 0 .. written
    BY <1>0, <2>3, <2>4, <2>5, <2>8 DEF Abstract!Next, Abstract!Open
  <2>9. CASE Place(r) \in 0 .. written - 1 /\ Place(r)' = Place(r) + 1
    BY <1>0, <2>3, <2>4, <2>5, <2>9 DEF Abstract!Next, Abstract!Take
  <2>. QED  BY <1>2, <2>6, <2>7, <2>8, <2>9, ReaderPlaceStep
<1>. QED  BY <1>1, <1>2 DEF Next

(* A unit is a journal, for any number of readers and pages and wherever   *)
(* writers are killed: every reader takes each frame once and in order     *)
(* from the place where it began.                                          *)
THEOREM UnitIsJournal == Spec => IsJournal
<1>1. Init => Abstract!Init
  BY InitRefines
<1>2. IInv /\ [Next]_vars => [Abstract!Next]_Abstract!vars
  BY StepRefines
<1>. QED  BY <1>1, <1>2, Invariance, PTL DEF Spec, IsJournal, Abstract!Spec
=============================================================================
