---------------------------- MODULE UnitJournal ----------------------------
(***************************************************************************)
(* One unit as its writer and its readers see it: pages of shared memory   *)
(* in which frames lie one after another.  There is no lock: a frame is    *)
(* published by its status, which is written last, and the status of the   *)
(* frame after it is reset before.  Every store and load that another      *)
(* process can observe is an action of its own.                            *)
(*                                                                         *)
(* The pages come from the page service (PageService.tla); here a writer   *)
(* gets the page it asks for, a reader only one that exists.               *)
(***************************************************************************)
EXTENDS Integers, FiniteSets

CONSTANTS
  Readers,
  Revisers,    \* readers that may change a page (mReviseAllowed)
  MaxPage,     \* bound: the highest page number
  PageCells,   \* UNIT_PAGE_SIZE, in cells; a frame header takes one cell
  Headroom,    \* PAGE_MIN_HEADROOM, in cells
  Lengths,     \* lengths of frames, with the header
  Junk,        \* what payload looks like where a status is expected
  MaxFrames,   \* bound: the number of frames
  MayCrash     \* where the writer may be killed

Pages == 1 .. MaxPage
Cells == 0 .. PageCells - 1
NoPage == 0
Statuses == {"raw", "written", "end"}
WriterAt == {"down", "get", "load", "finish", "idle", "located", "length",
             "next", "status", "pass"}
ReaderAt == {"off", "timed", "seek", "skip", "poll", "next", "read", "take"}

ASSUME JournalAssumption ==
  /\ Revisers \subseteq Readers
  /\ MaxPage \in Nat \ {0} /\ MaxFrames \in Nat
  /\ Headroom \in Nat /\ PageCells \in Nat /\ Headroom < PageCells
  /\ Lengths \subseteq 1 .. Headroom
  /\ Junk \subseteq Statuses
  /\ MayCrash \subseteq WriterAt

VARIABLES
  files,    \* pages that exist
  inited,   \* pages whose header is INITED
  mem,      \* their cells: what a status, a length and a frame would be there
  w,        \* the writer: pc, mCurPage and mPosition, page asked for, length;
            \* history: whether one was killed while it went on to a page
  rd,       \* the readers: pc, mCurPage and mPosition, page asked for,
            \* mExpired, and what was there when the time to seek was taken
  written   \* how many frames were written

vars == <<files, inited, mem, w, rd, written>>

Cell == [st : Statuses, len : Nat, frame : Nat]
Raw == [st |-> "raw", len |-> 0, frame |-> 0]
Payload(g) == [st |-> g, len |-> 1, frame |-> 0]

Down == [pc |-> "down", page |-> NoPage, pos |-> 0, goal |-> NoPage, len |-> 0,
         cut |-> FALSE]
Off == [pc |-> "off", page |-> NoPage, pos |-> 0, goal |-> NoPage, skip |-> FALSE,
        expired |-> FALSE, known |-> {}, since |-> 0]

At(x) == mem[x.page][x.pos]
Biggest(S) == CHOOSE n \in S : \A m \in S : m <= n
Least(S) == CHOOSE n \in S : \A m \in S : n <= m

Init ==
  /\ files = {} /\ inited = {} /\ written = 0
  /\ mem = [n \in Pages |-> [i \in Cells |-> Raw]]
  /\ w = Down
  /\ rd = [r \in Readers |-> Off]

(***************************************************************************)
(* The writer                                                              *)
(***************************************************************************)

(* UnitWriter::Init: SeekTime(TIME_TO_LAST) picks the last page, or 1. *)
SeekToEnd ==
  /\ w.pc = "down"
  /\ w' = [w EXCEPT !.pc = "get", !.goal = IF files = {} THEN 1 ELSE Biggest(files)]
  /\ UNCHANGED <<files, inited, mem, rd, written>>

(* GetPage: the page service creates the page if it does not exist. *)
GetPage ==
  /\ w.pc = "get"
  /\ files' = files \cup {w.goal}
  /\ w' = [w EXCEPT !.pc = "load"]
  /\ UNCHANGED <<inited, mem, rd, written>>

(* Page::Load initialises the header.  In SeekTime the page is current at  *)
(* once; in LoadNextPage the old one is finished first.                    *)
Load ==
  /\ w.pc = "load"
  /\ inited' = inited \cup {w.goal}
  /\ w' = IF w.page = NoPage
          THEN [w EXCEPT !.pc = "idle", !.page = w.goal, !.pos = 0, !.goal = NoPage]
          ELSE [w EXCEPT !.pc = "finish"]
  /\ UNCHANGED <<files, mem, rd, written>>

(* Mutant of FinishPage: PAGE_END is not written. *)
FinishPageSilently ==
  /\ w.pc = "finish"
  /\ w' = [w EXCEPT !.pc = "idle", !.page = w.goal, !.pos = 0, !.goal = NoPage]
  /\ UNCHANGED <<files, inited, mem, rd, written>>

(* FinishPage: PAGE_END at the current frame; the new page is current. *)
FinishPage ==
  /\ w.pc = "finish"
  /\ mem' = [mem EXCEPT ![w.page][w.pos].st = "end"]
  /\ w' = [w EXCEPT !.pc = "idle", !.page = w.goal, !.pos = 0, !.goal = NoPage]
  /\ UNCHANGED <<files, inited, rd, written>>

(* LocateWritableFrame: one written frame is skipped ... *)
SkipWritten ==
  /\ w.pc = "idle" /\ At(w).st = "written"
  /\ w' = [w EXCEPT !.pos = @ + At(w).len]
  /\ UNCHANGED <<files, inited, mem, rd, written>>

(* Mutant of Writable: one cell less of headroom. *)
WritableAtLimit == At(w).st = "raw" /\ w.pos + Headroom <= PageCells
(* Mutant of Locate: written frames are not skipped first. *)
LocateAnywhere ==
  /\ w.pc = "idle" /\ w.pos + Headroom < PageCells
  /\ w' = [w EXCEPT !.pc = "located"]
  /\ UNCHANGED <<files, inited, mem, rd, written>>

(* ... or the frame is free and there is room for it ... *)
Writable == At(w).st = "raw" /\ w.pos + Headroom < PageCells
Locate ==
  /\ w.pc = "idle" /\ At(w).st # "written" /\ Writable
  /\ w' = [w EXCEPT !.pc = "located"]
  /\ UNCHANGED <<files, inited, mem, rd, written>>

(* ... or the next page is loaded. *)
LoadNextPage ==
  /\ w.pc = "idle" /\ At(w).st # "written" /\ ~Writable
  /\ w.page < MaxPage
  /\ w' = [w EXCEPT !.pc = "get", !.goal = w.page + 1]
  /\ UNCHANGED <<files, inited, mem, rd, written>>

(* WriteFrameFull: the data are copied behind the header ... *)
CopyData ==
  /\ w.pc = "located" /\ written < MaxFrames
  /\ \E n \in Lengths : \E g \in Junk :
       /\ mem' = [mem EXCEPT ![w.page] =
                    [i \in Cells |-> IF i \in w.pos + 1 .. w.pos + n - 1
                                     THEN Payload(g) ELSE @[i]]]
       /\ w' = [w EXCEPT !.pc = "length", !.len = n]
  /\ UNCHANGED <<files, inited, rd, written>>

(* ... the header is filled in ... *)
SetFrameLength ==
  /\ w.pc = "length"
  /\ mem' = [mem EXCEPT ![w.page][w.pos] =
               [@ EXCEPT !.len = w.len, !.frame = written + 1]]
  /\ w' = [w EXCEPT !.pc = "next"]
  /\ UNCHANGED <<files, inited, rd, written>>

(* Mutant of ResetNextEntry: the status that follows is left as it is. *)
KeepNextEntry ==
  /\ w.pc = "next"
  /\ w' = [w EXCEPT !.pc = "status"]
  /\ UNCHANGED <<files, inited, mem, rd, written>>

(* ... SetStatusWritten resets the status of the frame that will follow ... *)
ResetNextEntry ==
  /\ w.pc = "next"
  /\ mem' = [mem EXCEPT ![w.page][w.pos + At(w).len].st = "raw"]
  /\ w' = [w EXCEPT !.pc = "status"]
  /\ UNCHANGED <<files, inited, rd, written>>

(* ... and publishes this one. *)
SetStatus ==
  /\ w.pc = "status"
  /\ mem' = [mem EXCEPT ![w.page][w.pos].st = "written"]
  /\ written' = written + 1
  /\ w' = [w EXCEPT !.pc = "pass"]
  /\ UNCHANGED <<files, inited, rd>>

PassFrame ==
  /\ w.pc = "pass"
  /\ w' = [w EXCEPT !.pc = "idle", !.pos = @ + At(w).len, !.len = 0]
  /\ UNCHANGED <<files, inited, mem, rd, written>>

(* The process ends or is killed; another writer may start later. *)
Crash ==
  /\ w.pc \in MayCrash
  /\ w' = [Down EXCEPT !.cut = w.cut \/ (w.pc \in {"load", "finish"} /\ w.page # NoPage)]
  /\ UNCHANGED <<files, inited, mem, rd, written>>

(***************************************************************************)
(* The readers                                                             *)
(***************************************************************************)

(* UnitReader::Create with GetNanoTime(), or SeekTimeUnit. *)
TakeTime(r) ==
  /\ rd[r].pc \in {"off", "poll"}
  /\ rd' = [rd EXCEPT ![r] = [Off EXCEPT !.pc = "timed", !.known = inited,
                                         !.since = written]]
  /\ UNCHANGED <<files, inited, mem, w, written>>

(* GetPageNumWithTime: the last page that was not started later; a header  *)
(* still RAW has StartNano 0.                                              *)
PageWithTime(r) ==
  LET S == {n \in files : n \in inited => n \in rd[r].known}
  IN  IF S = {} THEN 1 ELSE Biggest(S)

(* SeekTime, the page number: by time, or TIME_FROM_FIRST. *)
ChoosePage(r) ==
  /\ rd[r].pc = "timed"
  /\ \/ rd' = [rd EXCEPT ![r] = [@ EXCEPT !.pc = "seek", !.known = {}, !.skip = TRUE,
                                          !.goal = PageWithTime(r)]]
     \/ rd' = [rd EXCEPT ![r] = [@ EXCEPT !.pc = "seek", !.known = {}, !.since = 0,
                                          !.goal = IF files = {} THEN 1 ELSE Least(files)]]
  /\ UNCHANGED <<files, inited, mem, w, written>>

(* GetPage of a reader: NON_EXIST, or Page::Load, which gives nullptr for  *)
(* a RAW header unless the reader may initialise it.                       *)
Page(r, n) == IF n \in files /\ (n \in inited \/ r \in Revisers) THEN n ELSE NoPage
Initialised(n) == IF n = NoPage THEN inited ELSE inited \cup {n}

(* SeekTime, the page. *)
SeekTime(r) ==
  /\ rd[r].pc = "seek"
  /\ LET n == Page(r, rd[r].goal)
     IN  /\ inited' = Initialised(n)
         /\ rd' = [rd EXCEPT ![r] = [rd[r] EXCEPT
                     !.page = n, !.expired = (n = NoPage), !.goal = NoPage,
                     !.pc = IF n # NoPage /\ rd[r].skip THEN "skip" ELSE "poll",
                     !.since = IF n # NoPage THEN @ ELSE 0]]
  /\ UNCHANGED <<files, mem, w, written>>

(* Mutant of Skip: nothing is skipped. *)
SkipNothing(r) ==
  /\ rd[r].pc = "skip"
  /\ rd' = [rd EXCEPT ![r] = [@ EXCEPT !.pc = "poll", !.since = 0, !.skip = FALSE]]
  /\ UNCHANGED <<files, inited, mem, w, written>>

(* SkipWrittenFrame *)
Skip(r) ==
  /\ rd[r].pc = "skip"
  /\ rd' = [rd EXCEPT ![r] =
              IF At(rd[r]).st = "written"
              THEN [rd[r] EXCEPT !.pos = @ + At(rd[r]).len]
              ELSE [@ EXCEPT !.pc = "poll", !.since = 0, !.skip = FALSE]]
  /\ UNCHANGED <<files, inited, mem, w, written>>

(* GetNextFrame, LocateFrame: is the page at its end? *)
Poll(r) ==
  /\ rd[r].pc = "poll" /\ ~rd[r].expired
  /\ rd' = [rd EXCEPT ![r].pc =
              IF rd[r].page = NoPage THEN "next"
              ELSE IF At(rd[r]).st = "end" THEN "next" ELSE "read"]
  /\ UNCHANGED <<files, inited, mem, w, written>>

(* Mutant of NextPage: the position in the old page is kept. *)
NextPageKeepsPosition(r) ==
  /\ rd[r].pc = "next"
  /\ rd[r].page < MaxPage
  /\ LET n == Page(r, rd[r].page + 1)
     IN  /\ inited' = Initialised(n)
         /\ rd' = [rd EXCEPT ![r] = [@ EXCEPT !.page = n, !.pc = "read"]]
  /\ UNCHANGED <<files, mem, w, written>>

(* LoadNextPage: the next page, or page 1 if there is none. *)
NextPage(r) ==
  /\ rd[r].pc = "next"
  /\ rd[r].page < MaxPage
  /\ LET n == Page(r, rd[r].page + 1)
     IN  /\ inited' = Initialised(n)
         /\ rd' = [rd EXCEPT ![r] = [@ EXCEPT !.page = n, !.pos = 0, !.pc = "read"]]
  /\ UNCHANGED <<files, mem, w, written>>

(* LocateReadableFrame: the status is loaded again. *)
Read(r) ==
  /\ rd[r].pc = "read"
  /\ rd' = [rd EXCEPT ![r].pc =
              IF rd[r].page = NoPage THEN "poll"
              ELSE IF At(rd[r]).st = "written" THEN "take" ELSE "poll"]
  /\ UNCHANGED <<files, inited, mem, w, written>>

(* The frame is handed out; PassFrame. *)
Take(r) ==
  /\ rd[r].pc = "take"
  /\ rd' = [rd EXCEPT ![r] = [rd[r] EXCEPT !.pc = "poll", !.pos = @ + At(rd[r]).len]]
  /\ UNCHANGED <<files, inited, mem, w, written>>

(* Expire: the page is given up until the next SeekTime. *)
Expire(r) ==
  /\ rd[r].pc = "poll" /\ ~rd[r].expired
  /\ rd' = [rd EXCEPT ![r] = [@ EXCEPT !.page = NoPage, !.pos = 0, !.expired = TRUE]]
  /\ UNCHANGED <<files, inited, mem, w, written>>

(***************************************************************************)
(* Specification                                                           *)
(***************************************************************************)

WriteFrame == CopyData \/ SetFrameLength \/ ResetNextEntry \/ SetStatus \/ PassFrame
WriterStep == \/ SeekToEnd \/ GetPage \/ Load \/ FinishPage
              \/ SkipWritten \/ Locate \/ LoadNextPage \/ WriteFrame \/ Crash

Seek(r) == TakeTime(r) \/ ChoosePage(r) \/ SeekTime(r) \/ Skip(r)
GetNextFrame(r) == Poll(r) \/ NextPage(r) \/ Read(r) \/ Take(r)

Next == WriterStep \/ \E r \in Readers : Seek(r) \/ GetNextFrame(r) \/ Expire(r)

Spec == Init /\ [][Next]_vars

(* A reader that was started keeps calling GetNextFrame; the writer may    *)
(* stop anywhere.                                                          *)
FairSpec == Spec /\ \A r \in Readers : WF_vars(GetNextFrame(r))

(***************************************************************************)
(* Properties                                                              *)
(***************************************************************************)

(* Every variable has its type; no position lies outside of a page. *)
TypeOK ==
  /\ inited \subseteq files /\ files \subseteq Pages
  /\ mem \in [Pages -> [Cells -> Cell]]
  /\ w \in [pc : WriterAt, page : 0 .. MaxPage, pos : Cells, goal : 0 .. MaxPage,
            len : Lengths \cup {0}, cut : BOOLEAN]
  /\ rd \in [Readers -> [pc : ReaderAt, page : 0 .. MaxPage, pos : Cells,
                         goal : 0 .. MaxPage, skip : BOOLEAN, expired : BOOLEAN,
                         known : SUBSET Pages, since : 0 .. MaxFrames]]
  /\ written \in 0 .. MaxFrames

(* The cells where a frame that was written begins. *)
Begins(n, i) == mem[n][i].st = "written" /\ mem[n][i].frame > 0

(* The frames that lie before the reader's place. *)
Passed(r) ==
  {x \in Pages \X Cells :
     /\ Begins(x[1], x[2])
     /\ x[1] < rd[r].page \/ (x[1] = rd[r].page /\ x[2] < rd[r].pos)}

(* A reader hands out frames, never bytes of a payload or the remains of a *)
(* frame whose writer was killed (SetStatusWritten).                       *)
HandsOutFrames ==
  \A r \in Readers : rd[r].pc = "take" => Begins(rd[r].page, rd[r].pos)

(* A frame that was written is never changed, whatever writers come later  *)
(* ("an unit can only be appended in the back", UnitWriter.h).             *)
FramesStay ==
  [][\A n \in Pages : \A i \in Cells :
       Begins(n, i) => mem'[n][i] = mem[n][i]]_vars

(* The unit is a journal: every reader takes each frame once and in order  *)
(* from the place where it began, across pages and crashes of the writer.  *)
HasPlace(r) == rd[r].pc \in {"poll", "next", "read", "take"} /\ ~rd[r].expired
Abstract == INSTANCE Journal WITH
  size <- written,
  at <- [r \in Readers |-> IF HasPlace(r) THEN Cardinality(Passed(r)) ELSE -1]
IsJournal == Abstract!Spec

(* A reader that starts at a time gets no frame from before (SeekTime).    *)
NoOldFrames ==
  [][\A r \in Readers : rd[r].pc = "skip" /\ rd'[r].pc = "poll" =>
       Cardinality(Passed(r)) >= rd[r].since]_vars

(* A reader that starts at a time gets every frame from then on. *)
NoneSkipped ==
  [][\A r \in Readers : rd[r].pc = "skip" /\ rd'[r].pc = "poll" =>
       Cardinality(Passed(r)) <= rd[r].since]_vars

CaughtUp(r) == HasPlace(r) => Cardinality(Passed(r)) = written

(* A reader that has a place comes to the end of the unit again and again, *)
(* unless a writer was killed after it had created a page and before it    *)
(* ended the one before (LoadNextPage, FinishPage, LocateFrame).           *)
CatchesUp == \A r \in Readers : []<>(w.cut \/ CaughtUp(r))

(* It does so wherever writers are killed ("continues unit abstraction",   *)
(* Page.h).                                                                *)
AlwaysCatchesUp == \A r \in Readers : []<>CaughtUp(r)
=============================================================================
