------------------------ MODULE DfuRefinementProofs ------------------------
(***************************************************************************)
(* The proof that the media backend implements SectorStore when no job is  *)
(* dropped in the middle of a poll: every step of dfu_flash.c is one of    *)
(* SectorStore or changes nothing it promises about.                       *)
(***************************************************************************)
EXTENDS DfuStoreProofs

(***************************************************************************)
(* The refinement mapping of DfuFlash, by name.                            *)
(***************************************************************************)
Disk   == [a \in AppCell |-> flash[a]]
Kept   == [a \in AppCell |-> KeptCell(a)]
Image  == [a \in AppCell |-> ImageCell(a)]
Mode   == IF media.finishing THEN "commit" ELSE IF media.type = "none" THEN "idle" ELSE "job"
Failed == media.err # "none" \/ (mpc = "erasePublish" /\ loc.ret # "none")

AppSectors == {SectorAt(s) : s \in {a \in AppCell : a % SectorCells = 0}}

\* The cells the job at hand still has to write or to erase.
JobCovers(c) ==
  \/ media.type = "write" /\ c - media.addr \in media.pos .. media.len - 1
  \/ media.type = "erase" /\ c \in SectorAt(media.addr)

\* What a step of the main thread may make of the store: work on one sector,
\* or the end of a request or commit.
StoreMoves ==
  \/ \E s \in AppSectors : Store!Work(s) \/ Store!FailErase(s)
  \/ Store!Complete \/ Store!EndCommit
  \/ UNCHANGED Store!storeVars

\* An aligned address of the application starts a sector of it.
LEMMA AppSector ==
  ASSUME NEW s \in Nat, s % SectorCells = 0, AppBase <= s, s < AppEnd
  PROVE  SectorAt(s) \in AppSectors /\ SectorAt(s) \subseteq AppCell
<1>1. s + SectorCells <= AppEnd
  BY GeometryAssumption, MultiplesApart
<1>2. SectorAt(s) \subseteq AppCell
  BY <1>1, Sizes DEF SectorAt, AppCell
<1>3. s \in {a \in AppCell : a % SectorCells = 0}
  BY Sizes DEF AppCell
<1> QED
  BY <1>2, <1>3 DEF AppSectors

\* What the host is entitled to changes with the kept content only where the
\* job at hand does not cover it.
LEMMA ImageOfSameJob ==
  ASSUME SameJob, NEW c, KeptCell(c)' = KeptCell(c) \/ JobCovers(c)
  PROVE  ImageCell(c)' = ImageCell(c)
  BY DEF SameJob, ImageCell, JobCovers, SectorAt

\* A step that leaves all of it alone is a stutter of the abstract one.
LEMMA Stutter ==
  ASSUME SameJob, UNCHANGED flash, Failed' = Failed,
         \A c \in AppCell : KeptCell(c)' = KeptCell(c)
  PROVE  StoreMoves
<1>1. Disk' = Disk /\ Mode' = Mode
  BY DEF Disk, Mode, SameJob
<1>2. Kept' = Kept /\ Image' = Image
  BY ImageOfSameJob DEF Kept, Image
<1> QED
  BY <1>1, <1>2 DEF StoreMoves, Store!storeVars, Disk, Kept, Image, Mode, Failed

\* A step on one sector that moves disk towards kept or through erased and
\* torn cells, and kept towards image, is abstract work on it.
LEMMA WorkStep ==
  ASSUME NEW s \in Nat, s % SectorCells = 0, AppBase <= s, s < AppEnd,
         Busy(media), SameJob, Failed' = Failed \/ Failed' = TRUE,
         \A c \in AppCell \ SectorAt(s) : flash'[c] = flash[c] /\ KeptCell(c)' = KeptCell(c),
         \A c \in SectorAt(s) :
           /\ flash'[c] \in {flash[c], KeptCell(c), Erased, Junk}
           /\ \/ KeptCell(c)' = KeptCell(c)
              \/ JobCovers(c) /\ KeptCell(c)' \in {ImageCell(c), flash'[c]}
  PROVE  StoreMoves
<1> DEFINE t == SectorAt(s)
<1>1. t \in AppSectors /\ t \subseteq AppCell
  BY AppSector
<1>2. Mode # "idle" /\ Mode' = Mode
  BY DEF Busy, Mode, SameJob
<1>3. Image' = Image
  <2>1. ASSUME NEW c \in AppCell PROVE ImageCell(c)' = ImageCell(c)
    BY ImageOfSameJob
  <2> QED
    BY <2>1 DEF Image
<1>4. \A c \in AppCell \ t : Disk'[c] = Disk[c] /\ Kept'[c] = Kept[c]
  BY DEF Disk, Kept
<1>5. \A c \in t : Disk'[c] \in {Disk[c], Kept[c], Erased, Junk}
                   /\ Kept'[c] \in {Kept[c], Image[c], Disk'[c]}
  BY <1>1 DEF Disk, Kept, Image
<1>6. Failed' \in {Failed, TRUE}
  OBVIOUS
<1> HIDE DEF t
<1>7. Store!Work(t)
  BY <1>2, <1>3, <1>4, <1>5, <1>6 DEF Store!Work, Disk, Kept, Image, Mode, Failed
<1> QED
  BY <1>1, <1>7 DEF StoreMoves

(***************************************************************************)
(* The steps of dfu_flash_poll.                                            *)
(***************************************************************************)

\* Steps that only move the main thread on.
LEMMA MoveOnMoves ==
  ASSUME PollReturn \/ PollWrite \/ PollFinish \/ FlushClean \/ FlushProgram \/ WriteLookup,
         MediaInv
  PROVE  StoreMoves
<1>1. UNCHANGED <<flash, sector, sectorAddr, media>>
  BY DEF PollReturn, PollWrite, PollFinish, FlushClean, FlushProgram, WriteLookup
<1>2. mpc # "erasePublish"
  BY DEF PollReturn, PollWrite, PollFinish, FlushClean, FlushProgram, WriteLookup
<1>3. mpc' # "erasePublish"
  <2>1. CASE FlushClean
    BY <2>1, FlushReturns DEF FlushClean, FlushPc
  <2> QED
    BY <2>1
       DEF PollReturn, PollWrite, PollFinish, FlushProgram, WriteLookup, Return, Goto
<1> QED
  BY <1>1, <1>2, <1>3, Stutter DEF SameJob, Failed, KeptCell, Cached, SectorAt

\* A flush that has nothing to program, or has programmed it all.
LEMMA FlushEndMoves ==
  ASSUME MediaInv, FlushSame \/ VerifyPassed
  PROVE  StoreMoves
<1>1. /\ CacheMatchesFlash /\ mpc \in FlushPc
      /\ media' = [media EXCEPT !.dirty = FALSE]
      /\ UNCHANGED <<flash, sector, sectorAddr>>
  BY DEF FlushSame, VerifyPassed, FlushPc
<1>2. mpc' # "erasePublish"
  BY FlushReturns DEF FlushSame, VerifyPassed, FlushPc
<1>3. SameJob /\ media'.err = media.err /\ ~media'.dirty
  BY <1>1 DEF SameJob, MediaInv, MediaTypeOK, MediaType
<1>4. ASSUME NEW c PROVE KeptCell(c)' = KeptCell(c)
  BY <1>1, <1>3 DEF CacheMatchesFlash, KeptCell, Cached
<1>5. Failed' = Failed
  BY <1>1, <1>2, <1>3 DEF Failed, FlushPc
<1> QED
  BY <1>1, <1>3, <1>4, <1>5, Stutter

\* The job that erases the cached sector first drops the bytes cached for it.
LEMMA PollEraseMoves ==
  ASSUME StoreInv, PollErase
  PROVE  StoreMoves
<1> USE DEF StoreInv, MediaInv, MediaTypeOK, MediaType
<1>0. /\ media.type = "erase" /\ mpc = "enter" /\ mpc' \in {"prepare", "flush"}
      /\ UNCHANGED <<flash, sector, sectorAddr>>
  BY DEF PollErase, Goto
<1>1. Failed' = Failed
  BY <1>0 DEF Failed, PollErase
<1>2. CASE ~(media.valid /\ sectorAddr = media.addr)
  <2>1. media' = media
    BY <1>2 DEF PollErase
  <2> QED
    BY <1>0, <1>1, <2>1, Stutter DEF SameJob, KeptCell, Cached, SectorAt
<1>3. CASE media.valid /\ sectorAddr = media.addr
  <2>1. SameJob /\ ~media'.dirty
    BY <1>3 DEF PollErase, SameJob
  <2>2. /\ sectorAddr \in Nat /\ sectorAddr % SectorCells = 0
        /\ AppBase <= sectorAddr /\ sectorAddr < AppEnd
    BY <1>0, <1>3, Sizes DEF JobInApp, AppCell
  <2>3. \A c : KeptCell(c)' = flash'[c]
    BY <2>1 DEF KeptCell
  <2>4. \A c : c \notin SectorAt(sectorAddr) => KeptCell(c) = flash[c]
    BY DEF KeptCell
  <2>5. \A c \in SectorAt(sectorAddr) : JobCovers(c)
    BY <1>0, <1>3 DEF JobCovers
  <2> QED
    BY <1>0, <1>1, <2>1, <2>2, <2>3, <2>4, <2>5, WorkStep DEF Busy
<1> QED
  BY <1>2, <1>3

\* A step of the flash controller works on the sector under way.
LEMMA BurnMoves ==
  ASSUME StoreInv, mpc \in BurnPc, SameJob, Failed' = Failed \/ Failed' = TRUE,
         media'.valid = media.valid, media'.dirty = media.dirty,
         UNCHANGED <<sector, sectorAddr>>,
         \A c \in Addr \ SectorAt(OpSector) : flash'[c] = flash[c],
         \A c \in SectorAt(OpSector) :
           flash'[c] \in {flash[c], Erased, Junk}
           \/ (loc.sub = "flush" /\ flash'[c] = Cached(c))
  PROVE  StoreMoves
<1>1. /\ OpSector \in Nat /\ OpSector % SectorCells = 0
      /\ AppBase <= OpSector /\ OpSector < AppEnd
  BY OpSectorBelowEnd, Sizes
<1>2. Busy(media)
  BY MidPollIsBusy DEF StoreInv, Quiet, BurnPc
<1>3. loc.sub \in {"flush", "job"}
  BY DEF StoreInv, MediaInv, MediaTypeOK, LocalsType, LocalsInApp
<1>4. media.dirty = (loc.sub = "flush") /\ (media.dirty => media.valid)
  BY DEF StoreInv, JobInv, CacheAtStep
<1>5. \A c \in AppCell : c \in Addr
  BY Sizes DEF AppCell, Addr
<1>6. CASE loc.sub = "flush"
  <2>1. OpSector = sectorAddr /\ media.valid /\ media.dirty
    BY <1>4, <1>6 DEF OpSector
  <2>2. \A c \in SectorAt(OpSector) : KeptCell(c) = Cached(c) /\ KeptCell(c)' = KeptCell(c)
    BY <2>1 DEF KeptCell, Cached, SectorAt
  <2>3. \A c \in AppCell \ SectorAt(OpSector) :
          flash'[c] = flash[c] /\ KeptCell(c)' = KeptCell(c)
    BY <1>5, <2>1 DEF KeptCell, SectorAt
  <2> QED
    BY <1>1, <1>2, <1>6, <2>2, <2>3, WorkStep
<1>7. CASE loc.sub = "job"
  <2>1. ~media.dirty /\ OpSector = loc.addr
    BY <1>4, <1>7 DEF OpSector
  <2>2. media.type = "erase" /\ loc.addr = media.addr
    <3>1. ForErase
      BY <1>7 DEF ForErase, StoreInv, MediaInv, LocalsInApp, BurnPc, ErasePc, FlushPc
    <3> QED
      BY <3>1 DEF StoreInv, JobInv, LocalsAreJob
  <2>3. \A c : KeptCell(c) = flash[c] /\ KeptCell(c)' = flash'[c]
    BY <2>1 DEF KeptCell
  <2>4. \A c \in SectorAt(OpSector) : JobCovers(c)
    BY <2>1, <2>2 DEF JobCovers
  <2>5. \A c \in AppCell \ SectorAt(OpSector) : flash'[c] = flash[c]
    BY <1>5
  <2> QED
    BY <1>1, <1>2, <1>7, <2>3, <2>4, <2>5, WorkStep
<1> QED
  BY <1>3, <1>6, <1>7

\* A failed operation leaves the job, and its error is one to report.
LEMMA OpFailedKeepsJob ==
  ASSUME MediaInv, mpc \in BurnPc, NEW e \in {"erase", "write", "verify"}, OpFailed(e)
  PROVE  /\ SameJob /\ media'.valid = media.valid /\ media'.dirty = media.dirty
         /\ Failed' = Failed \/ Failed' = TRUE
<1> USE DEF MediaInv, MediaTypeOK, MediaType, LocalsType
<1>1. CASE loc.sub = "flush"
  <2>1. media' = [media EXCEPT !.err = e]
    BY <1>1 DEF OpFailed
  <2> QED
    BY <2>1 DEF SameJob, Failed
<1>2. CASE loc.sub = "job"
  <2>1. media' = media /\ mpc' = "eraseDone"
    BY <1>2 DEF OpFailed, Goto
  <2> QED
    BY <2>1 DEF SameJob, Failed, BurnPc
<1> QED
  BY <1>1, <1>2 DEF OpFailed

\* The sector under way consists of addresses.
LEMMA OpSectorInSpace == StoreInv /\ mpc \in BurnPc => SectorAt(OpSector) \subseteq Addr
<1> SUFFICES ASSUME StoreInv, mpc \in BurnPc PROVE SectorAt(OpSector) \subseteq Addr
  OBVIOUS
<1>1. OpSector \in Nat /\ OpSector % SectorCells = 0 /\ OpSector + SectorCells <= AppEnd
  BY OpSectorBelowEnd
<1>2. OpSector \in Addr
  BY <1>1, Sizes DEF Addr
<1> QED
  BY <1>1, <1>2, SectorInSpace

\* Erases, programmed pages and their failures are such steps.
LEMMA EraseAndProgramMove ==
  ASSUME StoreInv,
         \/ EraseStart \/ EraseRefused \/ EraseEnd \/ EraseFailed
         \/ ProgramPage \/ ProgramWrong \/ ProgramFailed \/ VerifyFailed
  PROVE  StoreMoves
<1>0. mpc \in BurnPc /\ UNCHANGED <<sector, sectorAddr>> /\ MediaInv
  BY DEF EraseStart, EraseRefused, EraseEnd, EraseFailed, ProgramPage, ProgramWrong,
         ProgramFailed, VerifyFailed, BurnPc, StoreInv
<1>1. flash \in [Addr -> Cell] /\ SectorAt(OpSector) \subseteq Addr
  BY <1>0, OpSectorInSpace DEF MediaInv, MediaTypeOK
<1>2. CASE EraseStart \/ EraseEnd \/ ProgramPage \/ ProgramWrong
  <2>1. media' = media /\ mpc' # "erasePublish"
    BY <1>2 DEF EraseStart, EraseEnd, ProgramPage, ProgramWrong, NextPage, Goto
  <2>2. SameJob /\ Failed' = Failed
    BY <1>0, <2>1 DEF SameJob, Failed, BurnPc
  <2>3. \A c \in Addr \ SectorAt(OpSector) : flash'[c] = flash[c]
    BY <1>2 DEF EraseStart, EraseEnd, ProgramPage, ProgramWrong, PageAt
  <2>4. \A c \in SectorAt(OpSector) : flash'[c] \in {flash[c], Erased, Junk}
                                      \/ (loc.sub = "flush" /\ flash'[c] = Cached(c))
    <3>1. CASE EraseStart \/ EraseEnd \/ ProgramWrong
      BY <1>1, <3>1 DEF EraseStart, EraseEnd, ProgramWrong
    <3>2. CASE ProgramPage
      <4>1. loc.sub = "flush"
        BY <1>0, <3>2 DEF ProgramPage, MediaInv, LocalsInApp
      <4> QED
        BY <1>1, <3>2, <4>1 DEF ProgramPage
    <3> QED
      BY <1>2, <3>1, <3>2
  <2> QED
    BY <1>0, <2>1, <2>2, <2>3, <2>4, BurnMoves
<1>3. CASE EraseRefused \/ EraseFailed \/ ProgramFailed \/ VerifyFailed
  <2>1. PICK e \in {"erase", "write", "verify"} : OpFailed(e)
    BY <1>3 DEF EraseRefused, EraseFailed, ProgramFailed, VerifyFailed
  <2>2. /\ SameJob /\ media'.valid = media.valid /\ media'.dirty = media.dirty
        /\ Failed' = Failed \/ Failed' = TRUE
    BY <1>0, <2>1, OpFailedKeepsJob
  <2>3. \/ flash' = flash
        \/ flash' = [a \in Addr |-> IF a \in PageAt(loc.page) THEN Junk ELSE flash[a]]
    BY <1>3 DEF EraseRefused, EraseFailed, ProgramFailed, VerifyFailed
  <2>4. \A c \in Addr \ SectorAt(OpSector) : flash'[c] = flash[c]
    BY <2>3 DEF PageAt
  <2>5. \A c \in SectorAt(OpSector) : flash'[c] \in {flash[c], Erased, Junk}
    BY <1>1, <2>3
  <2> QED
    BY <1>0, <2>2, <2>4, <2>5, BurnMoves
<1> QED
  BY <1>2, <1>3

\* dfu_flash.c:412 ends the erase: completely, or with an error to publish.
LEMMA EraseReleaseMoves ==
  ASSUME StoreInv, EraseRelease
  PROVE  StoreMoves
<1> USE DEF StoreInv, MediaInv, MediaTypeOK, MediaType
<1>0. /\ mpc = "eraseDone" /\ mpc' = "erasePublish" /\ media' = [media EXCEPT !.type = "none"]
      /\ UNCHANGED <<flash, sector, sectorAddr, loc>>
  BY DEF EraseRelease, Goto
<1>1. media.type = "erase" /\ loc.addr = media.addr /\ ~media.dirty /\ ~media.finishing
  BY <1>0 DEF JobInv, LocalsAreJob, ForErase, CacheAtStep, JobToDo
<1>2. /\ media'.type = "none" /\ ~media'.dirty /\ ~media'.finishing /\ media'.err = media.err
  BY <1>0, <1>1
<1>3. Mode = "job" /\ Mode' = "idle" /\ Disk' = Disk
  BY <1>0, <1>1, <1>2 DEF Mode, Disk
<1>4. \A c : KeptCell(c) = flash[c] /\ KeptCell(c)' = flash[c] /\ ImageCell(c)' = flash[c]
  BY <1>0, <1>1, <1>2 DEF KeptCell, ImageCell
<1>5. \A c : ImageCell(c) = IF c \in SectorAt(loc.addr) THEN Erased ELSE flash[c]
  BY <1>1, <1>4 DEF ImageCell
<1>6. CASE loc.ret = "none"
  <2>1. \A c \in SectorAt(loc.addr) : flash[c] = Erased
    BY <1>0, <1>6 DEF CopyDone
  <2>2. Kept' = Kept /\ Image' = Image /\ Kept = Image
    BY <1>4, <1>5, <2>1 DEF Kept, Image
  <2>3. Failed' = Failed
    BY <1>0, <1>2, <1>6 DEF Failed
  <2>4. Store!Complete
    BY <1>3, <2>2, <2>3 DEF Store!Complete, Disk, Kept, Image, Mode, Failed
  <2> QED
    BY <2>4 DEF StoreMoves
<1>7. CASE loc.ret # "none"
  <2> DEFINE s == SectorAt(loc.addr)
  <2>1. s \in AppSectors
    <3>1. /\ loc.addr \in Nat /\ AppBase <= loc.addr /\ loc.addr < AppEnd
          /\ loc.addr % SectorCells = 0
      BY <1>1, Sizes DEF JobInApp, AppCell
    <3> QED
      BY <3>1, AppSector
  <2>2. Failed' = TRUE
    BY <1>0, <1>7 DEF Failed
  <2>3. Kept' = Image' /\ Image' = [c \in AppCell |-> IF c \in s THEN Disk[c] ELSE Image[c]]
    BY <1>4, <1>5 DEF Kept, Image, Disk
  <2> HIDE DEF s
  <2>4. Store!FailErase(s)
    BY <1>3, <2>2, <2>3 DEF Store!FailErase, Store!Fill, Disk, Kept, Image, Mode, Failed
  <2> QED
    BY <2>1, <2>4 DEF StoreMoves
<1> QED
  BY <1>6, <1>7

\* Publishing the error, loading the cache and the end of the poll change
\* nothing that was promised.
LEMMA PublishMoves ==
  ASSUME StoreInv, ErasePublish
  PROVE  StoreMoves
<1> USE DEF StoreInv, MediaInv, MediaTypeOK, MediaType
<1>1. /\ mpc = "erasePublish" /\ mpc' = "polled"
      /\ media' = IF loc.ret = "none" THEN media ELSE [media EXCEPT !.err = loc.ret]
      /\ UNCHANGED <<flash, sector, sectorAddr>>
  BY DEF ErasePublish, Return, Goto
<1>2. SameJob /\ media'.valid = media.valid /\ media'.dirty = media.dirty
  BY <1>1 DEF SameJob
<1>3. Failed' = Failed
  BY <1>1 DEF Failed
<1> QED
  BY <1>1, <1>2, <1>3, Stutter DEF KeptCell, Cached, SectorAt

\* Loading the sector into a clean cache.
LEMMA WriteLoadMoves ==
  ASSUME StoreInv, WriteLoad
  PROVE  StoreMoves
<1> USE DEF StoreInv, MediaInv, MediaTypeOK, MediaType
<1>1. /\ mpc = "load" /\ mpc' = "copy" /\ UNCHANGED flash
      /\ media' = [media EXCEPT !.valid = TRUE, !.dirty = FALSE]
  BY DEF WriteLoad, Goto
<1>2. SameJob /\ ~media'.dirty /\ media'.err = media.err
  BY <1>1 DEF SameJob
<1>3. ~media.dirty
  BY <1>1 DEF JobInv, CacheAtStep
<1>4. Failed' = Failed
  BY <1>1, <1>2 DEF Failed
<1> QED
  BY <1>1, <1>2, <1>3, <1>4, Stutter DEF KeptCell

\* The end of a poll, and the next one.
LEMMA EndOfPollMoves ==
  ASSUME MediaInv, FinishDone \/ PollAgain
  PROVE  StoreMoves
<1> USE DEF MediaInv, MediaTypeOK, MediaType
<1>1. /\ mpc \in {"finishDone", "polled"} /\ mpc' \in {"polled", "enter"}
      /\ media' = media \/ media' = [media EXCEPT !.done = TRUE]
      /\ UNCHANGED <<flash, sector, sectorAddr>>
  BY DEF FinishDone, PollAgain, Return, Goto
<1>2. /\ SameJob /\ media'.valid = media.valid /\ media'.dirty = media.dirty
      /\ media'.err = media.err
  BY <1>1 DEF SameJob
<1>3. Failed' = Failed
  BY <1>1, <1>2 DEF Failed
<1> QED
  BY <1>1, <1>2, <1>3, Stutter DEF KeptCell, Cached, SectorAt

\* Where the chunk at hand lies: in the cached sector and in the job.
LEMMA ChunkInJob ==
  ASSUME StoreInv, mpc \in {"copy", "setDirty", "advance"}
  PROVE  /\ media.type = "write" /\ media.valid /\ Busy(media)
         /\ loc.addr = media.addr + media.pos /\ loc.pos = media.pos
         /\ media.addr \in Nat /\ media.pos \in Nat /\ media.len \in Nat
         /\ loc.chunk \in 1 .. media.len - media.pos
         /\ sectorAddr \in Nat /\ sectorAddr % SectorCells = 0
         /\ AppBase <= sectorAddr /\ sectorAddr < AppEnd
         /\ \A c \in Nat : InChunk(c) => c \in SectorAt(sectorAddr) /\ JobCovers(c)
                                         /\ ImageCell(c) = media.data[c - media.addr]
<1> USE DEF StoreInv, MediaInv, MediaTypeOK, MediaType
<1>1. ForWrite
  BY DEF ForWrite
<1>2. /\ media.type = "write" /\ media.valid /\ loc.addr = media.addr + media.pos
      /\ loc.pos = media.pos /\ sectorAddr = SectorBase(loc.addr)
  BY <1>1 DEF JobInv, LocalsAreJob, CacheAtStep
<1>3. media.addr \in Nat /\ media.pos \in Nat /\ media.len \in Nat
  BY Sizes DEF Addr
<1>4. /\ loc.addr \in Nat /\ AppBase <= loc.addr
      /\ loc.chunk \in 1 .. media.len - media.pos
      /\ loc.addr + loc.chunk <= sectorAddr + SectorCells
      /\ sectorAddr \in Nat /\ sectorAddr <= loc.addr
  BY <1>1, <1>2, ChunkInApp
<1>5. sectorAddr % SectorCells = 0 /\ AppBase <= sectorAddr /\ sectorAddr < AppEnd
  BY <1>2 DEF CacheInApp, JobInv, CacheAtStep
<1>6. ASSUME NEW c \in Nat, InChunk(c)
      PROVE  /\ c \in SectorAt(sectorAddr)
             /\ c - media.addr \in media.pos .. media.len - 1
  <2> HIDE DEF StoreInv, MediaInv, MediaTypeOK, MediaType
  <2>1. loc.addr <= c /\ c <= loc.addr + loc.chunk - 1 /\ loc.chunk \in Nat
    BY <1>3, <1>4, <1>6 DEF InChunk
  <2>2. c \in SectorAt(sectorAddr)
    BY <1>4, <1>6, <2>1, Sizes DEF SectorAt
  <2>3. c - media.addr \in media.pos .. media.len - 1
    BY <1>2, <1>3, <1>4, <1>6, <2>1
  <2> QED
    BY <2>2, <2>3
<1> QED
  BY <1>2, <1>3, <1>4, <1>5, <1>6 DEF Busy, JobCovers, ImageCell

\* memcpy brings the chunk into the cache, and the flag declares it kept.
LEMMA CopyMoves ==
  ASSUME StoreInv, WriteCopy \/ WriteSetDirty
  PROVE  StoreMoves
<1> USE DEF StoreInv, MediaInv, MediaTypeOK, MediaType
<1>0. /\ mpc \in {"copy", "setDirty"} /\ mpc' \in {"setDirty", "advance"}
      /\ UNCHANGED <<flash, sectorAddr>>
      /\ media' = media \/ media' = [media EXCEPT !.dirty = TRUE]
  BY DEF WriteCopy, WriteSetDirty, Goto
<1>1. SameJob /\ media'.valid = media.valid /\ media'.err = media.err
  BY <1>0 DEF SameJob
<1>2. Failed' = Failed
  BY <1>0, <1>1 DEF Failed
<1>3. ASSUME NEW c \in SectorAt(sectorAddr)
      PROVE  Cached(c)' = IF InChunk(c) THEN ImageCell(c) ELSE KeptCell(c)
  <2>1. c \in Nat
    BY <1>0, <1>3, ChunkInJob, Sizes DEF SectorAt
  <2>2. InChunk(c) => ImageCell(c) = media.data[c - media.addr]
    BY <1>0, <2>1, ChunkInJob
  <2>3. CASE WriteCopy
    BY <1>3, <2>2, <2>3, CopiedBytes
  <2>4. CASE WriteSetDirty
    <3>1. Cached(c)' = Cached(c) /\ mpc = "setDirty"
      BY <2>4 DEF WriteSetDirty, Cached
    <3> QED
      BY <1>3, <2>2, <3>1 DEF CopyDone
  <2> QED
    BY <2>3, <2>4
<1>4. ASSUME NEW c \in SectorAt(sectorAddr)
      PROVE  \/ KeptCell(c)' = KeptCell(c)
             \/ JobCovers(c) /\ KeptCell(c)' \in {ImageCell(c), flash'[c]}
  <2>1. c \in Nat
    BY <1>0, <1>4, ChunkInJob, Sizes DEF SectorAt
  <2>2. InChunk(c) => JobCovers(c)
    BY <1>0, <2>1, ChunkInJob
  <2>3. media.valid /\ media'.valid
    BY <1>0, <1>1, ChunkInJob
  <2>4. CASE media'.dirty
    <3>1. KeptCell(c)' = Cached(c)'
      BY <1>0, <1>4, <2>3, <2>4 DEF KeptCell, SectorAt
    <3> QED
      BY <1>3, <1>4, <2>2, <3>1
  <2>5. CASE ~media'.dirty
    <3>1. ~media.dirty
      BY <1>0, <2>5
    <3> QED
      BY <1>0, <2>5, <3>1 DEF KeptCell
  <2> QED
    BY <2>4, <2>5
<1>5. \A c \in AppCell \ SectorAt(sectorAddr) :
        flash'[c] = flash[c] /\ KeptCell(c)' = KeptCell(c)
  BY <1>0 DEF KeptCell, SectorAt
<1>6. /\ Busy(media) /\ sectorAddr \in Nat /\ sectorAddr % SectorCells = 0
      /\ AppBase <= sectorAddr /\ sectorAddr < AppEnd
  BY <1>0, ChunkInJob
<1> QED
  BY <1>0, <1>1, <1>2, <1>4, <1>5, <1>6, WorkStep

\* Taking the chunk off the job changes nothing, and its last one ends it.
LEMMA WriteAdvanceMoves ==
  ASSUME StoreInv, WriteAdvance
  PROVE  StoreMoves
<1> USE DEF StoreInv, MediaInv, MediaTypeOK, MediaType
<1> DEFINE q == loc.pos + loc.chunk
<1>0. mpc = "advance" /\ mpc' = "polled" /\ UNCHANGED <<flash, sector, sectorAddr>>
  BY DEF WriteAdvance, Return, Goto
<1>1. media' = [media EXCEPT !.pos = q, !.type = IF q = media.len THEN "none" ELSE @]
  <2>1. PICK p \in PosReads, n \in LenReads :
          media' = [media EXCEPT !.pos = (p + loc.chunk) % PosMod,
                                 !.type = IF (p + loc.chunk) % PosMod = n THEN "none" ELSE @]
    BY DEF WriteAdvance
  <2>2. p = loc.pos /\ n = media.len /\ (loc.pos + loc.chunk) % PosMod = q
    BY <1>0, PositionAfterChunk
  <2> QED
    BY <2>1, <2>2
<1>2. /\ media.type = "write" /\ media.valid /\ loc.addr = media.addr + media.pos
      /\ loc.pos = media.pos /\ loc.chunk \in 1 .. media.len - media.pos
      /\ media.addr \in Nat /\ media.pos \in Nat /\ media.len \in Nat
  BY <1>0, ChunkInJob
<1>3. q \in Nat /\ media.pos < q /\ q <= media.len
  BY <1>2
<1> HIDE DEF q
<1>4. /\ media'.pos = q /\ media'.type = IF q = media.len THEN "none" ELSE "write"
      /\ media'.len = media.len /\ media'.addr = media.addr /\ media'.data = media.data
      /\ media'.valid = media.valid /\ media'.dirty = media.dirty
      /\ media'.finishing = media.finishing /\ media'.err = media.err
  BY <1>1, <1>2
<1>5. ASSUME NEW c PROVE KeptCell(c)' = KeptCell(c)
  BY <1>0, <1>4 DEF KeptCell, Cached, SectorAt
<1>6. ASSUME NEW c \in Nat, c - media.addr \in media.pos .. q - 1
      PROVE  ImageCell(c) = KeptCell(c)
  <2>1. InChunk(c)
    BY <1>2, <1>6 DEF InChunk, q
  <2>2. c \in SectorAt(sectorAddr) /\ ImageCell(c) = media.data[c - media.addr]
    BY <1>0, <2>1, ChunkInJob
  <2>3. media.dirty /\ Cached(c) = media.data[c - media.addr]
    BY <1>0, <2>1, <2>2 DEF CopyDone, JobInv, CacheAtStep
  <2> QED
    BY <1>2, <2>2, <2>3 DEF KeptCell
<1>7. ASSUME NEW c \in AppCell PROVE ImageCell(c)' = ImageCell(c)
  <2>1. c \in Nat /\ c - media.addr \in Int
    BY <1>2, Sizes DEF AppCell
  <2>2. CASE c - media.addr \in media.pos .. q - 1
    <3>1. ImageCell(c)' = KeptCell(c)'
      BY <1>3, <1>4, <2>1, <2>2 DEF ImageCell
    <3> QED
      BY <1>5, <1>6, <2>1, <2>2, <3>1
  <2>3. CASE c - media.addr \notin media.pos .. q - 1
    <3>1. CASE c - media.addr \in media.pos .. media.len - 1
      <4>1. c - media.addr \in q .. media.len - 1 /\ q # media.len
        BY <1>2, <1>3, <2>1, <2>3, <3>1
      <4> QED
        BY <1>2, <1>4, <3>1, <4>1 DEF ImageCell
    <3>2. CASE c - media.addr \notin media.pos .. media.len - 1
      <4>1. c - media.addr \notin q .. media.len - 1
        BY <1>2, <1>3, <2>1, <3>2
      <4>2. ImageCell(c) = KeptCell(c)
        BY <1>2, <3>2 DEF ImageCell
      <4>3. ImageCell(c)' = KeptCell(c)'
        BY <1>4, <4>1 DEF ImageCell
      <4> QED
        BY <1>5, <4>2, <4>3
    <3> QED
      BY <3>1, <3>2
  <2> QED
    BY <2>2, <2>3
<1>8. Disk' = Disk /\ Kept' = Kept /\ Image' = Image /\ Failed' = Failed
  <2>1. Disk' = Disk
    BY <1>0 DEF Disk
  <2>2. Kept' = Kept /\ Image' = Image
    BY <1>5, <1>7 DEF Kept, Image
  <2>3. Failed' = Failed
    BY <1>0, <1>4 DEF Failed
  <2> QED
    BY <2>1, <2>2, <2>3
<1>9. ~media.finishing
  BY <1>2 DEF JobInv, JobToDo
<1>10. CASE q # media.len
  <2>1. Mode' = Mode
    BY <1>2, <1>4, <1>9, <1>10 DEF Mode
  <2> QED
    BY <1>8, <2>1 DEF StoreMoves, Store!storeVars, Disk, Kept, Image, Mode, Failed
<1>11. CASE q = media.len
  <2>1. Mode = "job" /\ Mode' = "idle"
    BY <1>2, <1>4, <1>9, <1>11 DEF Mode
  <2>2. Kept = Image
    <3>1. ASSUME NEW c \in AppCell PROVE KeptCell(c) = ImageCell(c)
      <4>1. c \in Nat /\ c - media.addr \in Int
        BY <1>2, Sizes DEF AppCell
      <4>2. CASE c - media.addr \in media.pos .. media.len - 1
        BY <1>6, <1>11, <4>1, <4>2
      <4>3. CASE c - media.addr \notin media.pos .. media.len - 1
        BY <1>2, <4>3 DEF ImageCell
      <4> QED
        BY <4>2, <4>3
    <3> QED
      BY <3>1 DEF Kept, Image
  <2>3. Store!Complete
    BY <1>8, <2>1, <2>2 DEF Store!Complete, Disk, Kept, Image, Mode, Failed
  <2> QED
    BY <2>3 DEF StoreMoves
<1> QED
  BY <1>10, <1>11

\* The final flush ends with everything in the flash.
LEMMA FinishClearMoves ==
  ASSUME StoreInv, FinishClear
  PROVE  StoreMoves
<1> USE DEF StoreInv, MediaInv, MediaTypeOK, MediaType
<1>1. /\ mpc = "finishClear" /\ mpc' = "finishDone"
      /\ media' = [media EXCEPT !.finishing = FALSE]
      /\ UNCHANGED <<flash, sector, sectorAddr, loc>>
  BY DEF FinishClear, Goto
<1>2. media.finishing /\ media.type = "none" /\ ~media.dirty
  BY <1>1 DEF JobInv, LocalsAreJob, ForFinish, CacheAtStep, JobToDo
<1>3. ~media'.finishing /\ media'.type = "none" /\ ~media'.dirty /\ media'.err = media.err
  BY <1>1, <1>2
<1>4. \A c : /\ KeptCell(c) = flash[c] /\ ImageCell(c) = flash[c]
             /\ KeptCell(c)' = flash[c] /\ ImageCell(c)' = flash[c]
  BY <1>1, <1>2, <1>3 DEF KeptCell, ImageCell
<1>5. /\ Disk' = Disk /\ Kept' = Kept /\ Image' = Image /\ Kept = Image /\ Disk = Image
  BY <1>1, <1>4 DEF Disk, Kept, Image
<1>6. Mode = "commit" /\ Mode' = "idle" /\ Failed' = Failed
  BY <1>1, <1>2, <1>3 DEF Mode, Failed
<1>7. Store!EndCommit
  BY <1>5, <1>6 DEF Store!EndCommit, Disk, Kept, Image, Mode, Failed
<1> QED
  BY <1>7 DEF StoreMoves

\* Every step of dfu_flash_poll moves the store so.
LEMMA PollMovesStore ==
  ASSUME StoreInv, PollStep
  PROVE  StoreMoves
<1>0. MediaInv
  BY DEF StoreInv
<1>1. CASE PollReturn \/ PollWrite \/ PollFinish \/ FlushClean \/ FlushProgram \/ WriteLookup
  BY <1>0, <1>1, MoveOnMoves
<1>2. CASE FlushSame \/ VerifyPassed
  BY <1>0, <1>2, FlushEndMoves
<1>3. CASE PollErase
  BY <1>3, PollEraseMoves
<1>4. CASE \/ EraseStart \/ EraseRefused \/ EraseEnd \/ EraseFailed
           \/ ProgramPage \/ ProgramWrong \/ ProgramFailed \/ VerifyFailed
  BY <1>4, EraseAndProgramMove
<1>5. CASE EraseRelease
  BY <1>5, EraseReleaseMoves
<1>6. CASE ErasePublish
  BY <1>6, PublishMoves
<1>7. CASE WriteLoad
  BY <1>7, WriteLoadMoves
<1>8. CASE WriteCopy \/ WriteSetDirty
  BY <1>8, CopyMoves
<1>9. CASE WriteAdvance
  BY <1>9, WriteAdvanceMoves
<1>10. CASE FinishClear
  BY <1>10, FinishClearMoves
<1>11. CASE FinishDone
  BY <1>0, <1>11, EndOfPollMoves
<1> QED
  BY <1>1, <1>2, <1>3, <1>4, <1>5, <1>6, <1>7, <1>8, <1>9, <1>10, <1>11 DEF PollStep

(***************************************************************************)
(* The calls of the interrupt and the power.                               *)
(***************************************************************************)

\* A record with no job and no valid cache: all that is left is the flash.
LEMMA NothingPending ==
  ASSUME media'.type = "none", ~media'.valid, ~media'.finishing
  PROVE  Kept' = Disk' /\ Image' = Disk' /\ Mode' = "idle"
  BY DEF Disk, Kept, Image, Mode, KeptCell, ImageCell

\* dfu_flash_cancel and dfu_flash_begin discard what did not reach the flash.
LEMMA DropDiscards ==
  ASSUME MediaInv, UNCHANGED flash,
         media'.type = "none", ~media'.valid, ~media'.finishing
  PROVE  Store!Next
<1>1. Disk' = Disk /\ Kept' = Disk /\ Image' = Disk /\ Mode' = "idle"
  BY NothingPending DEF Disk
<1>2. Failed' \in BOOLEAN
  BY DEF Failed
<1>3. Store!Discard
  BY <1>1, <1>2 DEF Store!Discard, Disk, Kept, Image, Mode, Failed
<1> QED
  BY <1>3 DEF Store!Next

\* A refused request leaves its error and nothing else.
LEMMA RefusalRefuses ==
  ASSUME MediaInv, UNCHANGED <<flash, sector, sectorAddr, mpc, loc>>,
         NEW e \in MediaError \ {"none"}, media' = [media EXCEPT !.err = e]
  PROVE  Store!Next
<1>1. /\ SameJob /\ media'.valid = media.valid /\ media'.dirty = media.dirty
      /\ media'.err # "none"
  BY DEF SameJob, MediaInv, MediaTypeOK, MediaType
<1>2. \A c : KeptCell(c)' = KeptCell(c) /\ ImageCell(c)' = ImageCell(c)
  <2>1. ASSUME NEW c PROVE KeptCell(c)' = KeptCell(c)
    BY <1>1 DEF KeptCell, Cached, SectorAt
  <2> QED
    BY <1>1, <2>1, ImageOfSameJob
<1>3. Disk' = Disk /\ Kept' = Kept /\ Image' = Image /\ Mode' = Mode
  BY <1>1, <1>2 DEF Disk, Kept, Image, Mode, SameJob
<1>4. Failed' = TRUE
  BY <1>1 DEF Failed
<1>5. Store!Refuse
  BY <1>3, <1>4 DEF Store!Refuse, Disk, Kept, Image, Mode, Failed
<1> QED
  BY <1>5 DEF Store!Next

\* dfu_flash_begin_finish begins the commit.
LEMMA FinishCommits ==
  ASSUME MediaInv, IsrFinish
  PROVE  Store!Next
<1> USE DEF MediaInv, MediaTypeOK, MediaType
<1>1. /\ media' = [media EXCEPT !.finishing = TRUE, !.done = FALSE] /\ ~Busy(media)
      /\ UNCHANGED <<flash, sector, sectorAddr, mpc, loc>>
  BY DEF IsrFinish, IsrCall, Finish
<1>2. /\ media'.finishing /\ media.type = "none" /\ media'.type = "none"
      /\ media'.valid = media.valid /\ media'.dirty = media.dirty /\ media'.err = media.err
      /\ ~media.finishing
  BY <1>1 DEF Busy
<1>3. \A c : KeptCell(c)' = KeptCell(c) /\ ImageCell(c) = KeptCell(c)
             /\ ImageCell(c)' = KeptCell(c)'
  BY <1>1, <1>2 DEF KeptCell, ImageCell, Cached, SectorAt
<1>4. Disk' = Disk /\ Kept' = Kept /\ Image' = Image
  BY <1>1, <1>3 DEF Disk, Kept, Image
<1>5. Mode = "idle" /\ Mode' = "commit" /\ Failed' = Failed
  BY <1>1, <1>2 DEF Mode, Failed
<1>6. Store!BeginCommit
  BY <1>4, <1>5 DEF Store!BeginCommit, Disk, Kept, Image, Mode, Failed
<1> QED
  BY <1>6 DEF Store!Next

\* What dfu_flash_queue_write makes of a record it accepts.
LEMMA QueuedWrite ==
  ASSUME NEW m, RequestOK(m), NEW a \in Nat, NEW p \in Payloads,
         WriteAccepted(m, a, Length(p)), media' = QueueWrite(m, a, p)
  PROVE  /\ DualBank /\ m.type = "none" /\ ~m.finishing
         /\ media'.type = "write" /\ ~media'.finishing /\ media'.err = m.err
         /\ media'.valid = m.valid /\ media'.dirty = m.dirty
         /\ \A c \in AppCell : ImageCell(c)' = IF c - a \in DOMAIN p THEN p[c - a]
                                               ELSE KeptCell(c)'
<1>1. DualBank /\ ~Busy(m) /\ m.finishing \in BOOLEAN
  BY DataAssumption DEF WriteAccepted, WriteRefusal, RequestOK, MediaType
<1> DEFINE d == [i \in DOMAIN m.data |-> IF i \in DOMAIN p THEN p[i] ELSE m.data[i]]
<1>2. media' = [m EXCEPT !.type = "write", !.addr = a, !.len = Length(p), !.pos = 0, !.data = d]
  BY DEF QueueWrite
<1>3. \A i \in DOMAIN p : d[i] = p[i]
  <2>1. DOMAIN m.data = 0 .. XferCells - 1
    BY DEF RequestOK, MediaType
  <2>2. DOMAIN p \subseteq 0 .. XferCells - 1
    BY PayloadFacts, Sizes
  <2> QED
    BY <2>1, <2>2
<1> HIDE DEF d
<1>4. /\ media'.type = "write" /\ media'.addr = a /\ media'.len = Length(p)
      /\ media'.pos = 0 /\ media'.data = d /\ media'.finishing = m.finishing
      /\ media'.err = m.err /\ media'.valid = m.valid /\ media'.dirty = m.dirty
  BY <1>2 DEF RequestOK, MediaType
<1>5. ASSUME NEW c \in AppCell
      PROVE  ImageCell(c)' = IF c - a \in DOMAIN p THEN p[c - a] ELSE KeptCell(c)'
  BY <1>3, <1>4, PayloadFacts DEF ImageCell
<1> QED
  BY <1>1, <1>4, <1>5 DEF Busy

\* A queued write is an abstract one, and so is the first of a new download.
LEMMA WriteRefines ==
  ASSUME StoreInv, "cancel" \notin Races, NEW a \in HostAddrs, NEW p \in Payloads,
         IsrWrite(a, p) \/ IsrFirst(a, p)
  PROVE  Store!Next
<1>0. /\ UNCHANGED <<flash, sector, sectorAddr, mpc, loc>>
      /\ MediaInv /\ a \in Nat /\ RequestOK(media) /\ RequestOK(Begin(media))
  BY CancelOK, DataAssumption
     DEF StoreInv, IsrWrite, IsrFirst, IsrCall, MediaInv, MediaTypeOK, JobInApp, RequestOK
<1>1. CASE IsrWrite(a, p) /\ WriteAccepted(media, a, Length(p))
  <2>1. media' = QueueWrite(media, a, p)
    BY <1>1 DEF IsrWrite, IsrCall
  <2>2. /\ media.type = "none" /\ ~media.finishing
        /\ media'.type = "write" /\ ~media'.finishing /\ media'.err = media.err
        /\ media'.valid = media.valid /\ media'.dirty = media.dirty
        /\ \A c \in AppCell : ImageCell(c)' = IF c - a \in DOMAIN p THEN p[c - a]
                                              ELSE KeptCell(c)'
    BY <1>0, <1>1, <2>1, QueuedWrite
  <2>3. \A c : KeptCell(c)' = KeptCell(c) /\ ImageCell(c) = KeptCell(c)
    BY <1>0, <2>2 DEF KeptCell, ImageCell, Cached, SectorAt
  <2>4. /\ Disk' = Disk /\ Kept' = Kept
        /\ Image' = [c \in AppCell |-> IF c - a \in DOMAIN p THEN p[c - a] ELSE Image[c]]
    BY <1>0, <2>2, <2>3 DEF Disk, Kept, Image
  <2>5. Mode = "idle" /\ Mode' = "job" /\ Failed' = Failed
    BY <1>0, <2>2 DEF Mode, Failed
  <2>6. Store!Write(a, p)
    BY <2>4, <2>5 DEF Store!Write, Store!Overlay, Disk, Kept, Image, Mode, Failed
  <2> QED
    BY <2>6 DEF Store!Next
<1>2. CASE IsrWrite(a, p) /\ ~WriteAccepted(media, a, Length(p))
  <2>1. media' = [media EXCEPT !.err = WriteRefusal(media, a, Length(p))]
    BY <1>2 DEF IsrWrite, IsrCall, QueueWrite
  <2>2. WriteRefusal(media, a, Length(p)) \in MediaError \ {"none"}
    BY <1>2 DEF WriteAccepted, WriteRefusal, MediaError
  <2> QED
    BY <1>0, <2>1, <2>2, RefusalRefuses
<1>3. CASE IsrFirst(a, p) /\ WriteAccepted(Begin(media), a, Length(p))
  <2>1. media' = QueueWrite(Begin(media), a, p)
    BY <1>3 DEF IsrFirst, IsrCall
  <2>2. /\ DualBank /\ media'.type = "write" /\ ~media'.finishing
        /\ media'.err = Begin(media).err /\ media'.valid = Begin(media).valid
        /\ \A c \in AppCell : ImageCell(c)' = IF c - a \in DOMAIN p THEN p[c - a]
                                              ELSE KeptCell(c)'
    BY <1>0, <1>3, <2>1, QueuedWrite
  <2>3. media'.err = "none" /\ ~media'.valid
    BY <2>2 DEF Begin, Cancel, TargetError, MediaType, MediaInv, MediaTypeOK, StoreInv
  <2>4. \A c : KeptCell(c)' = flash[c]
    BY <1>0, <2>3 DEF KeptCell
  <2>5. /\ Disk' = Disk /\ Kept' = Disk
        /\ Image' = [c \in AppCell |-> IF c - a \in DOMAIN p THEN p[c - a] ELSE Disk[c]]
    BY <1>0, <2>2, <2>4 DEF Disk, Kept, Image
  <2>6. mpc' # "erasePublish"
    BY <1>0, <1>3 DEF IsrFirst, MayDrop, BetweenPolls, PollPc
  <2>7. Mode' = "job" /\ Failed' = FALSE
    BY <2>2, <2>3, <2>6 DEF Mode, Failed
  <2>8. Store!DiscardAndWrite(a, p)
    BY <2>5, <2>7 DEF Store!DiscardAndWrite, Store!Overlay, Disk, Kept, Image, Mode, Failed
  <2> QED
    BY <2>8 DEF Store!Next
<1>4. CASE IsrFirst(a, p) /\ ~WriteAccepted(Begin(media), a, Length(p))
  <2>1. media' = [Begin(media) EXCEPT !.err = WriteRefusal(Begin(media), a, Length(p))]
    BY <1>4 DEF IsrFirst, IsrCall, QueueWrite
  <2>2. media'.type = "none" /\ ~media'.valid /\ ~media'.finishing
    BY <1>0, <2>1 DEF Begin, Cancel, MediaType, MediaInv, MediaTypeOK
  <2> QED
    BY <1>0, <2>2, DropDiscards
<1> QED
  BY <1>1, <1>2, <1>3, <1>4

\* A queued erase is an abstract one.
LEMMA EraseRefines ==
  ASSUME StoreInv, NEW a \in HostAddrs, IsrErase(a)
  PROVE  Store!Next
<1>0. /\ UNCHANGED <<flash, sector, sectorAddr, mpc, loc>> /\ MediaInv /\ a \in Nat
      /\ media' = QueueErase(media, a)
  BY DataAssumption DEF StoreInv, IsrErase, IsrCall
<1>1. CASE EraseAccepted(media, a)
  <2>1. a \in AppCell /\ a % SectorCells = 0 /\ ~Busy(media)
    BY <1>1, DataAssumption DEF EraseAccepted, EraseRefusal, AddressValid
  <2> DEFINE s == SectorAt(a)
  <2>2. s \in AppSectors
    BY <2>1 DEF AppSectors
  <2>3. media.type = "none" /\ ~media.finishing
    BY <2>1 DEF Busy
  <2>4. /\ media'.type = "erase" /\ ~media'.finishing /\ media'.addr = a
        /\ media'.err = media.err /\ media'.valid = media.valid /\ media'.dirty = media.dirty
    BY <1>0, <1>1, <2>3 DEF QueueErase, MediaType, MediaInv, MediaTypeOK
  <2>5. \A c : /\ KeptCell(c)' = KeptCell(c) /\ ImageCell(c) = KeptCell(c)
               /\ ImageCell(c)' = IF c \in s THEN Erased ELSE KeptCell(c)
    BY <1>0, <2>3, <2>4 DEF KeptCell, ImageCell, Cached, SectorAt
  <2>6. /\ Disk' = Disk /\ Kept' = Kept
        /\ Image' = [c \in AppCell |-> IF c \in s THEN Erased ELSE Image[c]]
    BY <1>0, <2>5 DEF Disk, Kept, Image
  <2>7. Mode = "idle" /\ Mode' = "job" /\ Failed' = Failed
    BY <1>0, <2>3, <2>4 DEF Mode, Failed
  <2> HIDE DEF s
  <2>8. Store!Erase(s)
    BY <2>6, <2>7 DEF Store!Erase, Store!Fill, Disk, Kept, Image, Mode, Failed
  <2> QED
    BY <2>2, <2>8 DEF Store!Next, AppSectors
<1>2. CASE ~EraseAccepted(media, a)
  <2>1. media' = [media EXCEPT !.err = EraseRefusal(media, a)]
    BY <1>0, <1>2 DEF QueueErase
  <2>2. EraseRefusal(media, a) \in MediaError \ {"none"}
    BY <1>2 DEF EraseAccepted, EraseRefusal, MediaError
  <2> QED
    BY <1>0, <2>1, <2>2, RefusalRefuses
<1> QED
  BY <1>1, <1>2

\* A power loss keeps what is in the flash, but for a page it tears.
LEMMA PowerLossRefines ==
  ASSUME StoreInv, PowerLoss
  PROVE  Store!Next
<1>0. MediaInv /\ flash \in [Addr -> Cell]
  BY DEF StoreInv, MediaInv, MediaTypeOK
<1>1. Kept' = Disk' /\ Image' = Disk' /\ Mode' = "idle" /\ Failed' \in BOOLEAN
  BY NothingPending DEF PowerLoss, ResetStatics, InitMedia, Failed
<1>2. \A c \in AppCell : c \in Addr
  BY Sizes DEF AppCell, Addr
<1>3. PICK s \in AppSectors : /\ \A c \in AppCell \ s : flash'[c] = flash[c]
                              /\ \A c \in s : c \in AppCell /\ flash'[c] \in {flash[c], Junk}
  <2>1. CASE UNCHANGED flash
    <3>1. SectorAt(AppBase) \in AppSectors /\ SectorAt(AppBase) \subseteq AppCell
      BY AppSector, GeometryAssumption
    <3> QED
      BY <2>1, <3>1
  <2>2. CASE /\ mpc = "program"
             /\ flash' = [c \in Addr |-> IF c \in PageAt(loc.page) THEN Junk ELSE flash[c]]
    <3>1. /\ OpSector \in Nat /\ OpSector % SectorCells = 0
          /\ AppBase <= OpSector /\ OpSector < AppEnd
      BY <2>2, OpSectorBelowEnd, Sizes DEF BurnPc
    <3>2. SectorAt(OpSector) \in AppSectors /\ SectorAt(OpSector) \subseteq AppCell
      BY <3>1, AppSector
    <3> QED
      BY <1>2, <2>2, <3>2 DEF PageAt
  <2> QED
    BY <2>1, <2>2 DEF PowerLoss, PowerLossFlash
<1>4. /\ \A c \in AppCell \ s : Disk'[c] = Disk[c]
      /\ \A c \in s : Disk'[c] \in {Disk[c], Junk}
  BY <1>3 DEF Disk
<1>5. Store!PowerCut(s)
  BY <1>1, <1>4 DEF Store!PowerCut, Disk, Kept, Image, Mode, Failed
<1> QED
  BY <1>3, <1>5 DEF Store!Next, AppSectors

(***************************************************************************)
(* The refinement.                                                         *)
(***************************************************************************)

\* Initial states map to initial states.
LEMMA InitRefines == MediaInit => Store!Init
<1> SUFFICES ASSUME MediaInit PROVE Store!Init
  OBVIOUS
<1>1. media.type = "none" /\ ~media.valid /\ ~media.finishing
  BY DEF MediaInit, InitMedia
<1>2. \A c : KeptCell(c) = flash[c] /\ ImageCell(c) = flash[c]
  BY <1>1 DEF KeptCell, ImageCell
<1>3. Kept = Disk /\ Image = Disk
  BY <1>2 DEF Disk, Kept, Image
<1>4. Disk \in [AppCell -> Cell]
  <2>1. AppCell \subseteq Addr
    BY Sizes DEF AppCell, Addr
  <2> QED
    BY <2>1 DEF Disk, MediaInit
<1>5. Mode = "idle" /\ Failed \in BOOLEAN
  BY <1>1 DEF Mode, Failed
<1> QED
  BY <1>3, <1>4, <1>5 DEF Store!Init, Disk, Kept, Image, Mode, Failed

\* Every step maps to a step or a stutter.
LEMMA NextRefines ==
  ASSUME "cancel" \notin Races, StoreInv, [MediaNext]_mediaVars
  PROVE  [Store!Next]_(Store!storeVars)
<1>0. MediaInv
  BY DEF StoreInv
<1>a. StoreMoves => [Store!Next]_(Store!storeVars)
  BY DEF StoreMoves, Store!Next, AppSectors
<1>1. CASE PollStep
  BY <1>a, <1>1, PollMovesStore
<1>2. CASE PollAgain
  BY <1>a, <1>0, <1>2, EndOfPollMoves
<1>3. CASE IsrBegin \/ IsrCancel
  <2>1. media'.type = "none" /\ ~media'.valid /\ ~media'.finishing /\ UNCHANGED flash
    BY <1>0, <1>3 DEF IsrBegin, IsrCancel, IsrCall, Begin, Cancel, MediaInv, MediaTypeOK,
         MediaType
  <2> QED
    BY <1>0, <2>1, DropDiscards
<1>4. CASE IsrFinish
  BY <1>0, <1>4, FinishCommits
<1>5. ASSUME NEW a \in HostAddrs, IsrErase(a) PROVE Store!Next
  BY <1>5, EraseRefines
<1>6. ASSUME NEW a \in HostAddrs, NEW p \in Payloads, IsrWrite(a, p) \/ IsrFirst(a, p)
      PROVE  Store!Next
  BY <1>6, WriteRefines
<1>7. CASE PowerLoss
  BY <1>7, PowerLossRefines
<1>8. CASE UNCHANGED mediaVars
  BY <1>a, <1>8, Stutter DEF mediaVars, SameJob, Failed, KeptCell, Cached, SectorAt
<1> QED
  BY <1>1, <1>2, <1>3, <1>4, <1>5, <1>6, <1>7, <1>8 DEF MediaNext, IsrNext

\* When no job is dropped in the middle of a poll, the backend implements
\* SectorStore: nothing accepted is lost, nothing discarded reaches the flash,
\* and the final flush ends with all of it stored.
THEOREM BackendKeepsPromise == "cancel" \notin Races => (MediaSpec => KeepsStorePromise)
<1> SUFFICES ASSUME "cancel" \notin Races PROVE MediaSpec => KeepsStorePromise
  OBVIOUS
<1>1. StoreInv /\ [MediaNext]_mediaVars => [Store!Next]_(Store!storeVars)
  BY NextRefines
<1>2. MediaSpec => []StoreInv
  BY JobInvariant
<1> QED
  BY <1>1, <1>2, InitRefines, PTL DEF MediaSpec, KeepsStorePromise, Store!Spec
=============================================================================
