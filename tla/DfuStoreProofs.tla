--------------------------- MODULE DfuStoreProofs ---------------------------
(***************************************************************************)
(* What TLAPS proves of the media backend when no job is dropped in the    *)
(* middle of a poll ("cancel" \notin Races): the poll works for the job at *)
(* hand, copies exactly the bytes the host sent, stays below the end of    *)
(* the application, and implements SectorStore.                            *)
(***************************************************************************)
EXTENDS DfuFlashProofs

(***************************************************************************)
(* The inductive invariant.                                                *)
(***************************************************************************)

\* The steps of a poll that work for a write, for an erase and for the final
\* flush; at the others the job is not looked at.
ForWrite  == mpc \in {"lookup", "load", "copy", "setDirty", "advance"}
             \/ (mpc \in FlushPc /\ loc.after = "write")
ForErase  == mpc = "eraseDone" \/ (mpc \in FlushPc /\ loc.after = "erase")
ForFinish == mpc = "finishClear" \/ (mpc \in FlushPc /\ loc.after = "finish")

\* A queued write has bytes left, all of them for the application, and the
\* final flush waits for the last job.
JobToDo ==
  /\ media.type = "write" => media.pos < media.len /\ media.addr + media.len <= AppEnd
  /\ media.finishing => media.type = "none"

\* The locals of a poll are those of the job at hand.
LocalsAreJob ==
  /\ ForWrite => /\ media.type = "write"
                 /\ loc.pos = media.pos /\ loc.len = media.len
                 /\ loc.addr = media.addr + media.pos
                 /\ loc.chunk = Chunk(loc.addr, loc.pos, loc.len)
  /\ ForErase  => media.type = "erase" /\ loc.addr = media.addr
  /\ ForFinish => media.finishing

\* Where the cache stands at each step.
CacheAtStep ==
  /\ media.valid => sectorAddr < AppEnd
  /\ media.dirty => media.valid
  /\ mpc \in BurnPc => media.dirty = (loc.sub = "flush")
  /\ mpc \in {"load", "eraseDone", "finishClear"} => ~media.dirty
  /\ mpc \in {"copy", "setDirty", "advance"} => media.valid /\ sectorAddr = SectorBase(loc.addr)
  /\ mpc = "advance" => media.dirty

JobInv == JobToDo /\ LocalsAreJob /\ CacheAtStep

\* The bytes the last memcpy was to write, and those it was not.
InChunk(a) == a \in loc.addr .. loc.addr + loc.chunk - 1
CopyDone ==
  /\ mpc = "setDirty" =>
       \A a \in SectorAt(sectorAddr) :
         Cached(a) = IF InChunk(a) THEN media.data[a - media.addr] ELSE KeptCell(a)
  /\ mpc = "advance" =>
       \A a \in SectorAt(sectorAddr) : InChunk(a) => Cached(a) = media.data[a - media.addr]
  /\ mpc = "eraseDone" /\ loc.ret = "none" =>
       \A a \in SectorAt(loc.addr) : flash[a] = Erased

\* What a job to do says of any media record.
WorkToDo(m) ==
  /\ m.type = "write" => m.pos < m.len /\ m.addr + m.len <= AppEnd
  /\ m.finishing => m.type = "none"
  /\ m.dirty => m.valid

(***************************************************************************)
(* A step of the poll keeps it.                                            *)
(***************************************************************************)

\* The chunk of a job to do is not empty and ends inside job and sector.
LEMMA ChunkOfJob ==
  ASSUME NEW a \in Nat, NEW pos \in Nat, NEW len \in Nat, pos < len
  PROVE  /\ Chunk(a, pos, len) \in 1 .. len - pos
         /\ a + Chunk(a, pos, len) <= SectorBase(a) + SectorCells
<1>1. SectorBase(a) \in Nat /\ SectorBase(a) <= a /\ a < SectorBase(a) + SectorCells
  BY SectorBaseFacts
<1> QED
  BY <1>1, Sizes DEF Chunk, Remain

\* The position of a job at its next chunk does not wrap.
LEMMA PositionAfterChunk ==
  ASSUME MediaInv, JobInv, mpc = "advance"
  PROVE  /\ (loc.pos + loc.chunk) % PosMod = loc.pos + loc.chunk
         /\ loc.pos + loc.chunk \in 1 .. media.len
         /\ PosReads = {media.pos} /\ LenReads = {media.len}
         /\ loc.pos = media.pos /\ media.type = "write"
<1>1. /\ media.type = "write" /\ loc.pos = media.pos /\ loc.len = media.len
      /\ loc.addr = media.addr + media.pos /\ loc.chunk = Chunk(loc.addr, loc.pos, loc.len)
      /\ media.pos < media.len
  BY DEF JobInv, LocalsAreJob, JobToDo, ForWrite
<1>2. /\ loc.addr \in Nat /\ loc.pos \in Nat /\ loc.len \in Nat /\ loc.len <= XferCells
  BY Sizes DEF MediaInv, MediaTypeOK, LocalsType, Addr
<1>3. loc.chunk \in 1 .. loc.len - loc.pos
  BY <1>1, <1>2, ChunkOfJob
<1>4. loc.pos + loc.chunk \in 0 .. PosMod - 1 /\ loc.pos + loc.chunk \in 1 .. media.len
  BY <1>1, <1>2, <1>3, Sizes
<1>5. (loc.pos + loc.chunk) % PosMod = loc.pos + loc.chunk
  BY <1>4, Sizes
<1> QED
  BY <1>1, <1>4, <1>5 DEF PosReads, LenReads

\* The job and the request for the final flush.
SameJob ==
  /\ media'.type = media.type /\ media'.addr = media.addr /\ media'.len = media.len
  /\ media'.pos = media.pos /\ media'.data = media.data /\ media'.finishing = media.finishing

\* Only three steps of the poll touch them.
LEMMA PollTouchesJob ==
  ASSUME MediaInv, PollStep
  PROVE  SameJob \/ WriteAdvance \/ EraseRelease \/ FinishClear
<1> USE DEF MediaInv, MediaTypeOK, MediaType, SameJob
<1>1. CASE PollReturn \/ PollErase \/ PollWrite \/ PollFinish
  BY <1>1 DEF PollReturn, PollErase, PollWrite, PollFinish
<1>2. CASE FlushClean \/ FlushSame \/ FlushProgram \/ VerifyPassed
  BY <1>2 DEF FlushClean, FlushSame, FlushProgram, VerifyPassed
<1>3. CASE EraseStart \/ EraseEnd \/ ProgramPage \/ ProgramWrong
  BY <1>3 DEF EraseStart, EraseEnd, ProgramPage, ProgramWrong
<1>4. CASE EraseRefused \/ EraseFailed \/ ProgramFailed \/ VerifyFailed
  BY <1>4 DEF EraseRefused, EraseFailed, ProgramFailed, VerifyFailed, OpFailed
<1>5. CASE ErasePublish \/ WriteLookup \/ WriteLoad \/ WriteCopy \/ WriteSetDirty \/ FinishDone
  BY <1>5 DEF ErasePublish, WriteLookup, WriteLoad, WriteCopy, WriteSetDirty, FinishDone
<1> QED
  BY <1>1, <1>2, <1>3, <1>4, <1>5 DEF PollStep

\* The poll takes bytes off the job at hand, or ends it.
LEMMA PollKeepsJobToDo ==
  ASSUME MediaInv, JobInv, PollStep
  PROVE  JobToDo'
<1> USE DEF MediaInv, MediaTypeOK, MediaType
<1>0. JobToDo
  BY DEF JobInv
<1>1. CASE SameJob
  BY <1>0, <1>1 DEF SameJob, JobToDo
<1>2. CASE WriteAdvance
  <2>0. mpc = "advance"
    BY <1>2 DEF WriteAdvance
  <2>1. media' = [media EXCEPT !.pos = loc.pos + loc.chunk,
                               !.type = IF loc.pos + loc.chunk = media.len THEN "none" ELSE @]
    <3>1. PICK p \in PosReads, n \in LenReads :
            media' = [media EXCEPT !.pos = (p + loc.chunk) % PosMod,
                                   !.type = IF (p + loc.chunk) % PosMod = n THEN "none" ELSE @]
      BY <1>2 DEF WriteAdvance
    <3>2. p = loc.pos /\ n = media.len /\ (loc.pos + loc.chunk) % PosMod = loc.pos + loc.chunk
      BY <2>0, PositionAfterChunk
    <3> QED
      BY <3>1, <3>2
  <2>2. loc.pos + loc.chunk \in 1 .. media.len
    BY <2>0, PositionAfterChunk
  <2>3. media.len \in Nat /\ media.type = "write"
    BY <2>0, Sizes, PositionAfterChunk
  <2> QED
    BY <1>0, <2>1, <2>2, <2>3 DEF JobToDo
<1>3. CASE EraseRelease \/ FinishClear
  BY <1>0, <1>3 DEF EraseRelease, FinishClear, JobToDo
<1> QED
  BY <1>1, <1>2, <1>3, PollTouchesJob

\* The locals stay those of the job at hand, or the poll leaves it.
LEMMA PollKeepsLocalsAreJob ==
  ASSUME MediaInv, JobInv, PollStep
  PROVE  LocalsAreJob'
<1> USE DEF MediaInv, MediaTypeOK, MediaType, LocalsType, LocalsInApp, LocalsAreJob,
            ForWrite, ForErase, ForFinish, FlushPc, BurnPc, ErasePc, Goto
<1>0. LocalsAreJob /\ JobToDo
  BY DEF JobInv
<1>1. CASE PollReturn
  BY <1>1 DEF PollReturn, Return, NoLocals
<1>2. CASE PollErase
  BY <1>2 DEF PollErase
<1>3. CASE PollWrite
  BY <1>3 DEF PollWrite
<1>4. CASE PollFinish
  BY <1>4 DEF PollFinish
<1>5. CASE FlushClean
  BY <1>0, <1>5 DEF FlushClean, FlushReturn
<1>6. CASE FlushSame
  BY <1>0, <1>6 DEF FlushSame, FlushReturn
<1>7. CASE FlushProgram
  BY <1>0, <1>7 DEF FlushProgram
<1>8. CASE EraseStart
  BY <1>0, <1>8 DEF EraseStart
<1>9. CASE EraseRefused
  BY <1>0, <1>9 DEF EraseRefused, OpFailed, Return, NoLocals
<1>10. CASE EraseEnd
  BY <1>0, <1>10 DEF EraseEnd
<1>11. CASE EraseFailed
  BY <1>0, <1>11 DEF EraseFailed, OpFailed, Return, NoLocals
<1>12. CASE ProgramPage
  BY <1>0, <1>12 DEF ProgramPage, NextPage
<1>13. CASE ProgramWrong
  BY <1>0, <1>13 DEF ProgramWrong, NextPage
<1>14. CASE ProgramFailed
  BY <1>0, <1>14 DEF ProgramFailed, OpFailed, Return, NoLocals
<1>15. CASE VerifyPassed
  BY <1>0, <1>15 DEF VerifyPassed, FlushReturn
<1>16. CASE VerifyFailed
  BY <1>0, <1>16 DEF VerifyFailed, OpFailed, Return, NoLocals
<1>17. CASE EraseRelease
  BY <1>17 DEF EraseRelease
<1>18. CASE ErasePublish
  BY <1>18 DEF ErasePublish, Return, NoLocals
<1>19. CASE WriteLookup
  BY <1>0, <1>19 DEF WriteLookup
<1>20. CASE WriteLoad
  BY <1>0, <1>20 DEF WriteLoad
<1>21. CASE WriteCopy
  <2>1. loc' = loc
    BY <1>0, <1>21 DEF WriteCopy, PosReads
  <2> QED
    BY <1>0, <1>21, <2>1 DEF WriteCopy
<1>22. CASE WriteSetDirty
  BY <1>0, <1>22 DEF WriteSetDirty
<1>23. CASE WriteAdvance
  BY <1>23 DEF WriteAdvance, Return, NoLocals
<1>24. CASE FinishClear
  BY <1>24 DEF FinishClear
<1>25. CASE FinishDone
  BY <1>25 DEF FinishDone, Return, NoLocals
<1> QED
  BY <1>1, <1>2, <1>3, <1>4, <1>5, <1>6, <1>7, <1>8, <1>9, <1>10, <1>11, <1>12, <1>13,
       <1>14, <1>15, <1>16, <1>17, <1>18, <1>19, <1>20, <1>21, <1>22, <1>23, <1>24,
       <1>25 DEF PollStep

\* The chunk at hand lies in the application and in the sector of its address.
LEMMA ChunkInApp ==
  ASSUME MediaInv, JobInv, ForWrite
  PROVE  /\ loc.addr \in Nat /\ AppBase <= loc.addr
         /\ loc.chunk \in 1 .. media.len - media.pos
         /\ loc.addr + loc.chunk <= SectorBase(loc.addr) + SectorCells
         /\ SectorBase(loc.addr) \in Nat /\ SectorBase(loc.addr) <= loc.addr
         /\ SectorBase(loc.addr) + SectorCells <= AppEnd
<1>1. /\ media.type = "write" /\ loc.pos = media.pos /\ loc.len = media.len
      /\ loc.addr = media.addr + media.pos /\ loc.chunk = Chunk(loc.addr, loc.pos, loc.len)
      /\ media.pos < media.len /\ media.addr + media.len <= AppEnd
  BY DEF JobInv, LocalsAreJob, JobToDo
<1>2. /\ media.addr \in Nat /\ AppBase <= media.addr /\ media.pos \in Nat /\ media.len \in Nat
  BY <1>1, Sizes DEF MediaInv, MediaTypeOK, MediaType, JobInApp, AppCell, Addr
<1>3. loc.addr \in Nat /\ loc.addr < AppEnd /\ AppBase <= loc.addr
  BY <1>1, <1>2, Sizes
<1>4. AppEnd \in Nat /\ AppEnd % SectorCells = 0
  BY GeometryAssumption
<1>5. SectorBase(loc.addr) \in Nat /\ SectorBase(loc.addr) <= loc.addr
  BY <1>3, SectorBaseFacts
<1>6. SectorBase(loc.addr) + SectorCells <= AppEnd
  BY <1>3, <1>4, SectorBaseBounded
<1>7. /\ Chunk(loc.addr, media.pos, media.len) \in 1 .. media.len - media.pos
      /\ loc.addr + Chunk(loc.addr, media.pos, media.len) <= SectorBase(loc.addr) + SectorCells
  BY <1>1, <1>2, <1>3, ChunkOfJob
<1> QED
  BY <1>1, <1>3, <1>5, <1>6, <1>7

\* A flush that ends without an error leaves for its caller's next step.
LEMMA FlushReturns ==
  ASSUME MediaInv, mpc \in FlushPc, NEW r \in {"idle", "progress"}, FlushReturn(r)
  PROVE  /\ mpc' = IF loc.after = "erase" THEN "prepare"
                   ELSE IF loc.after = "write" THEN "load" ELSE "finishClear"
         /\ loc' \in LocalsType /\ loc'.addr = loc.addr /\ loc'.after = loc.after
         /\ loc'.sub = IF loc.after = "erase" THEN "job" ELSE "none"
         /\ loc'.chunk = loc.chunk /\ loc'.pos = loc.pos /\ loc'.len = loc.len
         /\ loc.after \in {"write", "erase", "finish"}
<1>1. loc \in LocalsType /\ loc.after \in {"write", "erase", "finish"}
  BY DEF MediaInv, MediaTypeOK, LocalsType, LocalsInApp
<1>2. loc' = [loc EXCEPT !.page = 0, !.ret = r,
                         !.sub = IF loc.after = "erase" THEN "job" ELSE "none"]
  BY DEF FlushReturn
<1>3. loc' \in LocalsType
  BY FlushReturnFacts
<1> QED
  BY <1>1, <1>2, <1>3 DEF FlushReturn, Goto, LocalsType

\* The cache is where the step needs it.
LEMMA PollKeepsCacheAtStep ==
  ASSUME MediaInv, JobInv, PollStep
  PROVE  CacheAtStep'
<1> USE DEF MediaInv, MediaTypeOK, MediaType, LocalsType, LocalsInApp, CacheAtStep,
            FlushPc, BurnPc, ErasePc, Goto
<1>0. CacheAtStep /\ LocalsAreJob /\ JobToDo
  BY DEF JobInv
<1>1. CASE PollReturn
  BY <1>0, <1>1 DEF PollReturn, Return, NoLocals
<1>2. CASE PollErase
  BY <1>0, <1>2 DEF PollErase
<1>3. CASE PollWrite
  BY <1>0, <1>3 DEF PollWrite
<1>4. CASE PollFinish
  BY <1>0, <1>4 DEF PollFinish
<1>5. CASE FlushClean
  BY <1>0, <1>5 DEF FlushClean, FlushReturn
<1>6. CASE FlushSame
  <2>1. mpc \in FlushPc /\ FlushReturn("idle") /\ media' = [media EXCEPT !.dirty = FALSE]
    BY <1>6 DEF FlushSame
  <2>2. /\ mpc' \in {"prepare", "load", "finishClear"}
        /\ mpc' = "prepare" => loc'.sub = "job"
    BY <2>1, FlushReturns
  <2> QED
    BY <1>0, <1>6, <2>1, <2>2 DEF FlushSame
<1>7. CASE FlushProgram
  BY <1>0, <1>7 DEF FlushProgram
<1>8. CASE EraseStart
  BY <1>0, <1>8 DEF EraseStart
<1>9. CASE EraseRefused
  BY <1>0, <1>9 DEF EraseRefused, OpFailed, Return, NoLocals
<1>10. CASE EraseEnd
  BY <1>0, <1>10 DEF EraseEnd
<1>11. CASE EraseFailed
  BY <1>0, <1>11 DEF EraseFailed, OpFailed, Return, NoLocals
<1>12. CASE ProgramPage
  BY <1>0, <1>12 DEF ProgramPage, NextPage
<1>13. CASE ProgramWrong
  BY <1>0, <1>13 DEF ProgramWrong, NextPage
<1>14. CASE ProgramFailed
  BY <1>0, <1>14 DEF ProgramFailed, OpFailed, Return, NoLocals
<1>15. CASE VerifyPassed
  <2>1. mpc \in FlushPc /\ FlushReturn("progress") /\ media' = [media EXCEPT !.dirty = FALSE]
    BY <1>15 DEF VerifyPassed
  <2>2. /\ mpc' \in {"prepare", "load", "finishClear"}
        /\ mpc' = "prepare" => loc'.sub = "job"
    BY <2>1, FlushReturns
  <2> QED
    BY <1>0, <1>15, <2>1, <2>2 DEF VerifyPassed
<1>16. CASE VerifyFailed
  BY <1>0, <1>16 DEF VerifyFailed, OpFailed, Return, NoLocals
<1>17. CASE EraseRelease
  BY <1>0, <1>17 DEF EraseRelease
<1>18. CASE ErasePublish
  BY <1>0, <1>18 DEF ErasePublish, Return, NoLocals
<1>19. CASE WriteLookup
  BY <1>0, <1>19 DEF WriteLookup
<1>20. CASE WriteLoad
  <2>0. ForWrite
    BY <1>20 DEF WriteLoad, ForWrite
  <2>1. SectorBase(loc.addr) \in Nat /\ SectorBase(loc.addr) + SectorCells <= AppEnd
    BY <2>0, ChunkInApp
  <2>2. SectorBase(loc.addr) < AppEnd
    BY <2>1, Sizes
  <2> QED
    BY <1>0, <1>20, <2>2 DEF WriteLoad
<1>21. CASE WriteCopy
  <2>1. loc'.addr = loc.addr
    BY <1>21 DEF WriteCopy
  <2> QED
    BY <1>0, <1>21, <2>1 DEF WriteCopy
<1>22. CASE WriteSetDirty
  BY <1>0, <1>22 DEF WriteSetDirty
<1>23. CASE WriteAdvance
  BY <1>0, <1>23 DEF WriteAdvance, Return, NoLocals
<1>24. CASE FinishClear
  BY <1>0, <1>24 DEF FinishClear
<1>25. CASE FinishDone
  BY <1>0, <1>25 DEF FinishDone, Return, NoLocals
<1> QED
  BY <1>1, <1>2, <1>3, <1>4, <1>5, <1>6, <1>7, <1>8, <1>9, <1>10, <1>11, <1>12, <1>13,
       <1>14, <1>15, <1>16, <1>17, <1>18, <1>19, <1>20, <1>21, <1>22, <1>23, <1>24,
       <1>25 DEF PollStep


\* The steps CopyDone is about are reached in one way each.
LEMMA CopyDoneEntered ==
  ASSUME MediaInv, PollStep
  PROVE  /\ mpc' = "setDirty" => WriteCopy
         /\ mpc' = "advance" => WriteSetDirty
         /\ mpc' = "eraseDone" => EraseEnd \/ loc'.ret # "none"
<1> USE DEF Goto, MediaInv, MediaTypeOK, LocalsType
<1>1. CASE FlushClean \/ FlushSame \/ VerifyPassed
  <2>1. PICK r \in {"idle", "progress"} : mpc \in FlushPc /\ FlushReturn(r)
    BY <1>1 DEF FlushClean, FlushSame, VerifyPassed, FlushPc
  <2> QED
    BY <2>1, FlushReturns
<1>2. CASE EraseRefused \/ EraseFailed \/ ProgramFailed \/ VerifyFailed
  BY <1>2 DEF EraseRefused, EraseFailed, ProgramFailed, VerifyFailed, OpFailed, Return
<1>3. CASE PollReturn \/ PollErase \/ PollWrite \/ PollFinish \/ FlushProgram \/ EraseStart
           \/ ProgramPage \/ ProgramWrong
  BY <1>3
     DEF PollReturn, PollErase, PollWrite, PollFinish, FlushProgram, EraseStart, Return,
         ProgramPage, ProgramWrong, NextPage
<1>4. CASE EraseRelease \/ ErasePublish \/ FinishClear \/ FinishDone \/ WriteLookup
           \/ WriteLoad \/ WriteSetDirty \/ WriteAdvance
  BY <1>4
     DEF EraseRelease, ErasePublish, FinishClear, FinishDone, WriteLookup, WriteLoad,
         WriteSetDirty, WriteAdvance, Return
<1>5. CASE EraseEnd
  BY <1>5 DEF EraseEnd
<1>6. CASE WriteCopy
  BY <1>6 DEF WriteCopy
<1> QED
  BY <1>1, <1>2, <1>3, <1>4, <1>5, <1>6 DEF PollStep

\* memcpy writes the bytes of the chunk into the cache and no other.
LEMMA CopiedBytes ==
  ASSUME MediaInv, CoherentInv, JobInv, WriteCopy, NEW a \in SectorAt(sectorAddr)
  PROVE  /\ InChunk(a) => a - media.addr \in 0 .. XferCells - 1
         /\ Cached(a)' = IF InChunk(a) THEN media.data[a - media.addr] ELSE KeptCell(a)
<1>1. ForWrite /\ mpc = "copy"
  BY DEF WriteCopy, ForWrite
<1>2. /\ media.type = "write" /\ loc.pos = media.pos /\ loc.len = media.len
      /\ loc.addr = media.addr + media.pos /\ media.pos < media.len
  BY <1>1 DEF JobInv, LocalsAreJob, JobToDo
<1>3. /\ media.valid /\ sectorAddr = SectorBase(loc.addr)
  BY <1>1 DEF JobInv, CacheAtStep
<1>4. /\ media.addr \in Nat /\ media.pos \in Nat /\ media.len \in 0 .. XferCells
      /\ loc.addr \in Nat /\ sectorAddr \in Nat /\ sectorAddr <= loc.addr
      /\ loc.chunk \in 1 .. media.len - media.pos
      /\ loc.addr + loc.chunk <= sectorAddr + SectorCells
  BY <1>1, <1>3, ChunkInApp, Sizes DEF MediaInv, MediaTypeOK, MediaType, Addr
<1> DEFINE off == loc.addr - sectorAddr
           i   == a - sectorAddr
<1>5. a \in Nat /\ i \in 0 .. SectorCells - 1 /\ off \in Nat
  BY <1>4, Sizes DEF SectorAt
<1>6. sectorAddr' = sectorAddr
      /\ sector' = [j \in 0 .. SectorCells - 1 |->
                      IF j \in off .. off + loc.chunk - 1
                      THEN JobCell(media.pos + j - off) ELSE sector[j]]
  BY <1>2, <1>3 DEF WriteCopy, PosReads
<1>7. Cached(a)' = IF i \in off .. off + loc.chunk - 1 THEN JobCell(media.pos + i - off)
                   ELSE sector[i]
  BY <1>5, <1>6 DEF Cached
<1>8. i \in off .. off + loc.chunk - 1 <=> InChunk(a)
  BY <1>4, <1>5 DEF InChunk
<1>9. ASSUME InChunk(a)
      PROVE  /\ a - media.addr \in 0 .. XferCells - 1
             /\ JobCell(media.pos + i - off) = media.data[a - media.addr]
  <2>1. media.pos + i - off = a - media.addr
    BY <1>2, <1>4, <1>5
  <2>2. a - media.addr \in 0 .. media.len - 1
    BY <1>2, <1>4, <1>5, <1>9 DEF InChunk
  <2>3. a - media.addr \in 0 .. XferCells - 1 /\ a - media.addr < XferCells
    BY <1>4, <2>2, Sizes
  <2> QED
    BY <2>1, <2>3 DEF JobCell
<1>10. KeptCell(a) = sector[i]
  <2>1. CASE media.dirty
    BY <1>3, <2>1 DEF KeptCell, Cached
  <2>2. CASE ~media.dirty
    <3>1. flash[a] = Cached(a)
      BY <1>1, <1>3, <2>2 DEF CoherentInv, CacheCoherent, CacheMatchesFlash
    <3> QED
      BY <2>2, <3>1 DEF KeptCell, Cached
  <2>3. media.dirty \in BOOLEAN
    BY DEF MediaInv, MediaTypeOK, MediaType
  <2> QED
    BY <2>1, <2>2, <2>3
<1> HIDE DEF off, i
<1> QED
  BY <1>7, <1>8, <1>9, <1>10

\* After memcpy the cache holds the chunk; after an erase the sector is blank.
LEMMA PollKeepsCopyDone ==
  ASSUME MediaInv, CoherentInv, JobInv, CopyDone, PollStep
  PROVE  CopyDone'
<1>1. CASE WriteCopy
  <2>1. mpc' = "setDirty" /\ UNCHANGED <<flash, sectorAddr, media>>
    BY <1>1 DEF WriteCopy, Goto
  <2>2. loc' = loc
    BY <1>1 DEF WriteCopy, PosReads, JobInv, LocalsAreJob, ForWrite, MediaInv, MediaTypeOK,
         LocalsType
  <2>3. ASSUME NEW a \in SectorAt(sectorAddr), ~InChunk(a) PROVE KeptCell(a)' = KeptCell(a)
    <3>1. Cached(a)' = KeptCell(a)
      BY <1>1, <2>3, CopiedBytes
    <3> QED
      BY <2>1, <3>1 DEF KeptCell, SectorAt
  <2> QED
    BY <1>1, <2>1, <2>2, <2>3, CopiedBytes DEF CopyDone, InChunk, SectorAt
<1>2. CASE WriteSetDirty
  <2>1. /\ mpc = "setDirty" /\ mpc' = "advance"
        /\ media'.data = media.data /\ media'.addr = media.addr
        /\ UNCHANGED <<sector, sectorAddr, loc>>
    BY <1>2 DEF WriteSetDirty, Goto
  <2> QED
    BY <2>1 DEF CopyDone, InChunk, SectorAt, Cached
<1>3. CASE EraseEnd
  <2>1. /\ mpc = "erasing" /\ mpc' \in {"program", "eraseDone"} /\ loc'.addr = loc.addr
        /\ mpc' = "eraseDone" => loc.sub = "job"
    BY <1>3 DEF EraseEnd, Goto, MediaInv, MediaTypeOK, LocalsType, LocalsInApp, BurnPc
  <2>2. ASSUME mpc' = "eraseDone", NEW a \in SectorAt(loc.addr) PROVE flash'[a] = Erased
    <3>1. loc.sub = "job" /\ OpSector = loc.addr
      BY <2>1, <2>2 DEF OpSector
    <3>2. loc.addr \in Addr /\ loc.addr % SectorCells = 0
      BY <2>1, <3>1 DEF MediaInv, MediaTypeOK, LocalsType, LocalsInApp, ErasePc, FlushPc
    <3>3. a \in Addr
      BY <2>2, <3>2, SectorInSpace
    <3> QED
      BY <1>3, <2>2, <3>1, <3>3 DEF EraseEnd
  <2> QED
    BY <2>1, <2>2 DEF CopyDone, SectorAt
<1>4. CASE ~(WriteCopy \/ WriteSetDirty \/ EraseEnd)
  BY <1>4, CopyDoneEntered DEF CopyDone
<1> QED
  BY <1>1, <1>2, <1>3, <1>4

(***************************************************************************)
(* So does a call of the interrupt that drops no job in mid-poll.          *)
(***************************************************************************)

\* The moments when the main thread does not work for a job.
Quiet == mpc \in {"enter", "polled", "erasePublish", "finishDone"}

\* What such a call makes of the media record: in mid-poll only its error.
CallOK(m) ==
  /\ RequestOK(m) /\ WorkToDo(m)
  /\ Quiet \/ m = [media EXCEPT !.err = m.err]

\* In mid-poll there is a job or a final flush to work for.
LEMMA MidPollIsBusy == MediaInv /\ JobInv /\ ~Quiet => Busy(media)
<1> SUFFICES ASSUME MediaInv, JobInv, ~Quiet PROVE Busy(media)
  OBVIOUS
<1>1. ForWrite \/ ForErase \/ ForFinish
  BY DEF MediaInv, MediaTypeOK, LocalsType, LocalsInApp, PollPc, Quiet, ForWrite, ForErase,
       ForFinish, FlushPc
<1> QED
  BY <1>1 DEF JobInv, LocalsAreJob, Busy

\* The record there is has its work to do.
LEMMA MediaWorkToDo == JobInv => WorkToDo(media)
  BY DEF JobInv, JobToDo, CacheAtStep, WorkToDo

\* So has what dfu_flash_queue_write leaves: its bytes fit the application.
LEMMA QueueWriteToDo ==
  ASSUME NEW m, RequestOK(m), WorkToDo(m), NEW a \in Nat, NEW p \in Payloads
  PROVE  WorkToDo(QueueWrite(m, a, p))
<1>1. CASE WriteAccepted(m, a, Length(p))
  <2>1. a \in AppCell /\ Length(p) <= AppEnd - a /\ ~Busy(m)
    BY <1>1, DataAssumption DEF WriteAccepted, WriteRefusal, AddressValid
  <2>2. Length(p) \in Nat /\ 0 < Length(p)
    BY PayloadFacts, Sizes
  <2>3. a + Length(p) <= AppEnd
    BY <2>1, <2>2, Sizes
  <2>4. /\ QueueWrite(m, a, p).type = "write" /\ QueueWrite(m, a, p).addr = a
        /\ QueueWrite(m, a, p).len = Length(p) /\ QueueWrite(m, a, p).pos = 0
        /\ QueueWrite(m, a, p).finishing = m.finishing
        /\ QueueWrite(m, a, p).dirty = m.dirty /\ QueueWrite(m, a, p).valid = m.valid
    BY <1>1 DEF QueueWrite, RequestOK, MediaType
  <2> QED
    BY <2>1, <2>2, <2>3, <2>4 DEF WorkToDo, Busy
<1>2. CASE ~WriteAccepted(m, a, Length(p))
  BY <1>2 DEF QueueWrite, RequestOK, MediaType, WorkToDo
<1> QED
  BY <1>1, <1>2

\* And dfu_flash_queue_erase.
LEMMA QueueEraseToDo ==
  ASSUME NEW m, RequestOK(m), WorkToDo(m), NEW a
  PROVE  WorkToDo(QueueErase(m, a))
<1>1. CASE EraseAccepted(m, a)
  <2>1. ~Busy(m)
    BY <1>1, DataAssumption DEF EraseAccepted, EraseRefusal
  <2> QED
    BY <1>1, <2>1 DEF QueueErase, RequestOK, MediaType, WorkToDo, Busy
<1>2. CASE ~EraseAccepted(m, a)
  BY <1>2 DEF QueueErase, RequestOK, MediaType, WorkToDo
<1> QED
  BY <1>1, <1>2

\* A busy backend refuses both and only notes the error.
LEMMA BusyRefuses ==
  ASSUME MediaInv, Busy(media), NEW a, NEW p
  PROVE  /\ QueueWrite(media, a, p) = [media EXCEPT !.err = WriteRefusal(media, a, Length(p))]
         /\ QueueErase(media, a) = [media EXCEPT !.err = EraseRefusal(media, a)]
  BY DataAssumption DEF QueueWrite, WriteAccepted, WriteRefusal, QueueErase, EraseAccepted,
       EraseRefusal

\* A cancelled record has nothing to do.
LEMMA CancelToDo == MediaInv => WorkToDo(Cancel(media)) /\ WorkToDo(Begin(media))
  BY DEF MediaInv, MediaTypeOK, MediaType, WorkToDo, Cancel, Begin

\* Every call of the interrupt is of that kind.
LEMMA IsrCallOK ==
  ASSUME MediaInv, JobInv, "cancel" \notin Races, IsrNext
  PROVE  CallOK(media')
<1>0. RequestOK(media') /\ RequestOK(media) /\ WorkToDo(media)
  BY IsrOK, MediaWorkToDo DEF MediaInv, MediaTypeOK, JobInApp, RequestOK
<1>1. MayDrop => Quiet
  BY DEF MayDrop, BetweenPolls, Quiet, MediaInv, MediaTypeOK
<1>2. CASE IsrBegin \/ IsrCancel
  BY <1>0, <1>1, <1>2, CancelToDo DEF IsrBegin, IsrCancel, IsrCall, CallOK
<1>3. CASE IsrFinish
  <2>1. media' = Finish(media) /\ ~Busy(media) /\ Quiet
    BY <1>1, <1>3 DEF IsrFinish, IsrCall
  <2>2. WorkToDo(media')
    BY <1>0, <2>1 DEF WorkToDo, Finish, Busy, MediaInv, MediaTypeOK, MediaType
  <2> QED
    BY <1>0, <2>1, <2>2 DEF CallOK
<1>4. ASSUME NEW a \in HostAddrs, IsrErase(a) PROVE CallOK(media')
  <2>1. media' = QueueErase(media, a)
    BY <1>4 DEF IsrErase, IsrCall
  <2>2. WorkToDo(media')
    BY <1>0, <2>1, QueueEraseToDo
  <2>3. ~Quiet => media' = [media EXCEPT !.err = media'.err]
    BY <2>1, MidPollIsBusy, BusyRefuses DEF MediaInv, MediaTypeOK, MediaType
  <2> QED
    BY <1>0, <2>2, <2>3 DEF CallOK
<1>5. ASSUME NEW a \in HostAddrs, NEW p \in Payloads, IsrWrite(a, p) PROVE CallOK(media')
  <2>1. media' = QueueWrite(media, a, p) /\ a \in Nat
    BY <1>5, DataAssumption DEF IsrWrite, IsrCall
  <2>2. WorkToDo(media')
    BY <1>0, <2>1, QueueWriteToDo
  <2>3. ~Quiet => media' = [media EXCEPT !.err = media'.err]
    BY <2>1, MidPollIsBusy, BusyRefuses DEF MediaInv, MediaTypeOK, MediaType
  <2> QED
    BY <1>0, <2>2, <2>3 DEF CallOK
<1>6. ASSUME NEW a \in HostAddrs, NEW p \in Payloads, IsrFirst(a, p) PROVE CallOK(media')
  <2>1. media' = QueueWrite(Begin(media), a, p) /\ a \in Nat /\ Quiet
    BY <1>1, <1>6, DataAssumption DEF IsrFirst, IsrCall
  <2>2. WorkToDo(media')
    BY <2>1, CancelOK, CancelToDo, QueueWriteToDo
  <2> QED
    BY <1>0, <2>1, <2>2 DEF CallOK
<1> QED
  BY <1>2, <1>3, <1>4, <1>5, <1>6 DEF IsrNext

\* Such a call keeps the invariant.
LEMMA CallKeepsJobInv ==
  ASSUME MediaInv, JobInv, CopyDone, CallOK(media'),
         UNCHANGED <<flash, sector, sectorAddr, mpc, loc>>
  PROVE  JobInv' /\ CopyDone'
<1>1. JobToDo'
  BY DEF CallOK, WorkToDo, JobToDo
<1>2. (media'.valid => media.valid) /\ (media'.dirty => media'.valid)
  BY DEF CallOK, RequestOK, WorkToDo
<1>3. CASE Quiet
  BY <1>1, <1>2, <1>3
     DEF Quiet, JobInv, LocalsAreJob, CacheAtStep, CopyDone, ForWrite, ForErase, ForFinish,
         FlushPc, BurnPc
<1>4. CASE ~Quiet
  <2>1. /\ media'.type = media.type /\ media'.addr = media.addr /\ media'.len = media.len
        /\ media'.pos = media.pos /\ media'.data = media.data
        /\ media'.finishing = media.finishing
        /\ media'.valid = media.valid /\ media'.dirty = media.dirty
    BY <1>4 DEF CallOK, MediaInv, MediaTypeOK, MediaType
  <2>2. LocalsAreJob' /\ CacheAtStep'
    BY <2>1 DEF JobInv, LocalsAreJob, CacheAtStep, ForWrite, ForErase, ForFinish
  <2>3. CopyDone'
    BY <2>1 DEF CopyDone, InChunk, KeptCell, Cached, SectorAt
  <2> QED
    BY <1>1, <2>2, <2>3 DEF JobInv
<1> QED
  BY <1>3, <1>4

\* A reset of the chip leaves no job and an empty cache.
LEMMA ResetMakesJobInv == ResetStatics => JobInv' /\ CopyDone'
  BY DEF ResetStatics, InitMedia, NoLocals, JobInv, JobToDo, LocalsAreJob, CacheAtStep, CopyDone,
       ForWrite, ForErase, ForFinish, FlushPc, BurnPc

\* With MediaInv and CoherentInv, the invariant is inductive.
LEMMA NextKeepsJobInv ==
  ASSUME "cancel" \notin Races, MediaInv, CoherentInv, JobInv, CopyDone,
         [MediaNext]_mediaVars
  PROVE  JobInv' /\ CopyDone'
<1>1. CASE PollStep
  BY <1>1, PollKeepsJobToDo, PollKeepsLocalsAreJob, PollKeepsCacheAtStep, PollKeepsCopyDone
     DEF JobInv
<1>2. CASE PollAgain
  <2>1. mpc' = "enter" /\ UNCHANGED <<sectorAddr, media>>
    BY <1>2 DEF PollAgain
  <2> QED
    BY <2>1 DEF JobInv, JobToDo, LocalsAreJob, CacheAtStep, CopyDone, ForWrite, ForErase,
         ForFinish, FlushPc, BurnPc
<1>3. CASE IsrNext
  BY <1>3, IsrOK, IsrCallOK, CallKeepsJobInv
<1>4. CASE PowerLoss
  BY <1>4, ResetMakesJobInv DEF PowerLoss
<1>5. CASE UNCHANGED mediaVars
  BY <1>5
     DEF mediaVars, JobInv, JobToDo, LocalsAreJob, CacheAtStep, CopyDone, ForWrite, ForErase,
         ForFinish, InChunk, KeptCell, Cached, SectorAt
<1> QED
  BY <1>1, <1>2, <1>3, <1>4, <1>5 DEF MediaNext

\* The invariant of the backend when no job is dropped in mid-poll.
StoreInv == MediaInv /\ CoherentInv /\ JobInv /\ CopyDone

\* The job, the locals of the poll that works for it and the cache agree.
THEOREM JobInvariant == "cancel" \notin Races => (MediaSpec => []StoreInv)
<1> SUFFICES ASSUME "cancel" \notin Races PROVE MediaSpec => []StoreInv
  OBVIOUS
<1>1. MediaInit => StoreInv
  <2> SUFFICES ASSUME MediaInit PROVE StoreInv
    OBVIOUS
  <2>1. CoherentInv
    BY DEF MediaInit, InitMedia, CoherentInv, CacheCoherent, FlushedIsDirty, ErasedIsUncached
  <2>2. JobInv /\ CopyDone
    BY DEF MediaInit, InitMedia, NoLocals, JobInv, JobToDo, LocalsAreJob, CacheAtStep, CopyDone,
         ForWrite, ForErase, ForFinish, FlushPc, BurnPc
  <2> QED
    BY <2>1, <2>2, InitMediaInv DEF StoreInv
<1>2. StoreInv /\ [MediaNext]_mediaVars => StoreInv'
  BY NextKeepsMediaInv, NextKeepsCoherentInv, NextKeepsJobInv DEF StoreInv
<1> QED
  BY <1>1, <1>2, PTL DEF MediaSpec

(***************************************************************************)
(* memcpy stays in bounds, and the flash beyond the application is safe.   *)
(***************************************************************************)

\* The chunk of a write ends inside the sector of its address, also when the
\* job it was computed from has been dropped.
ChunkFits ==
  mpc \in {"lookup", "load", "copy"} \/ (mpc \in FlushPc /\ loc.after = "write") =>
    loc.addr - SectorBase(loc.addr) + loc.chunk <= SectorCells

\* PollWrite makes it so, whatever position the job has reached.
LEMMA NewChunkFits == MediaInv /\ PollWrite => ChunkFits'
<1> SUFFICES ASSUME MediaInv, PollWrite PROVE ChunkFits'
  OBVIOUS
<1> DEFINE a == media.addr + media.pos
<1>1. /\ loc'.addr = a /\ loc'.chunk = Chunk(a, media.pos, media.len)
      /\ media.type = "write"
  BY DEF PollWrite, MediaInv, MediaTypeOK, LocalsType
<1>2. a \in Nat /\ media.pos \in Nat /\ media.len \in Nat
  BY <1>1, ChunkFacts, Sizes DEF MediaInv, MediaTypeOK, MediaType, Addr
<1>3. SectorBase(a) \in Nat /\ SectorBase(a) <= a /\ a < SectorBase(a) + SectorCells
  BY <1>2, SectorBaseFacts
<1>4. Chunk(a, media.pos, media.len) <= SectorBase(a) + SectorCells - a
  BY <1>2, <1>3, Sizes DEF Chunk, Remain
<1>5. Chunk(a, media.pos, media.len) \in Nat
  BY <1>2, <1>3, Sizes DEF Chunk, Remain
<1> HIDE DEF a
<1>6. a - SectorBase(a) + Chunk(a, media.pos, media.len) <= SectorCells
  BY <1>2, <1>3, <1>4, <1>5, Sizes
<1>7. SectorBase(loc.addr)' = SectorBase(a)
  BY <1>1 DEF SectorBase
<1> QED
  BY <1>1, <1>6, <1>7 DEF ChunkFits

\* Until the copy, no other step touches the address and the chunk.
LEMMA NextKeepsChunkFits == MediaInv /\ ChunkFits /\ [MediaNext]_mediaVars => ChunkFits'
<1> SUFFICES ASSUME MediaInv, ChunkFits, [MediaNext]_mediaVars PROVE ChunkFits'
  OBVIOUS
<1> USE DEF MediaInv, MediaTypeOK, LocalsType, ChunkFits, SectorBase, FlushPc, Goto
<1>1. CASE PollWrite
  BY <1>1, NewChunkFits
<1>2. CASE FlushClean \/ FlushSame \/ VerifyPassed
  <2>1. PICK r \in {"idle", "progress"} : mpc \in FlushPc /\ FlushReturn(r)
    BY <1>2 DEF FlushClean, FlushSame, VerifyPassed
  <2> QED
    BY <2>1, FlushReturns
<1>3. CASE EraseRefused \/ EraseFailed \/ ProgramFailed \/ VerifyFailed
  BY <1>3 DEF EraseRefused, EraseFailed, ProgramFailed, VerifyFailed, OpFailed, Return
<1>4. CASE PollReturn \/ PollErase \/ PollFinish \/ FlushProgram \/ EraseStart \/ EraseEnd
           \/ ProgramPage \/ ProgramWrong
  BY <1>4
     DEF PollReturn, PollErase, PollFinish, FlushProgram, EraseStart, EraseEnd, Return,
         ProgramPage, ProgramWrong, NextPage
<1>5. CASE EraseRelease \/ ErasePublish \/ FinishClear \/ FinishDone \/ WriteLookup
           \/ WriteLoad \/ WriteCopy \/ WriteSetDirty \/ WriteAdvance
  BY <1>5
     DEF EraseRelease, ErasePublish, FinishClear, FinishDone, WriteLookup, WriteLoad,
         WriteCopy, WriteSetDirty, WriteAdvance, Return
<1>6. CASE PollAgain \/ PowerLoss
  BY <1>6 DEF PollAgain, PowerLoss, ResetStatics
<1>7. CASE IsrNext \/ UNCHANGED mediaVars
  BY <1>7, IsrOK DEF mediaVars
<1> QED
  BY <1>1, <1>2, <1>3, <1>4, <1>5, <1>6, <1>7 DEF MediaNext, PollStep

\* dfu_flash_poll never writes past g_sector, whatever job replaces another
\* in mid-poll.
THEOREM CopyStaysInCache == MediaSpec => []CopyInCache
<1>1. MediaInit => ChunkFits
  BY DEF MediaInit, ChunkFits, FlushPc
<1>2. ChunkFits => CopyInCache
  BY DEF ChunkFits, CopyInCache
<1> QED
  BY <1>1, <1>2, NextKeepsChunkFits, MediaInvariant, PTL DEF MediaSpec

\* When no job is dropped in mid-poll, it reads no byte but those the host
\* sent for the job.
THEOREM CopyStaysInBounds == "cancel" \notin Races => (MediaSpec => []CopyInBounds)
<1> SUFFICES ASSUME "cancel" \notin Races PROVE MediaSpec => []CopyInBounds
  OBVIOUS
<1>1. StoreInv /\ CopyInCache => CopyInBounds
  <2> SUFFICES ASSUME StoreInv, mpc = "copy"
               PROVE  loc.pos + loc.chunk <= media.len
    BY DEF CopyInBounds
  <2>1. ForWrite
    BY DEF ForWrite
  <2>2. loc.chunk \in 1 .. media.len - media.pos /\ loc.pos = media.pos
    BY <2>1, ChunkInApp DEF StoreInv, JobInv, LocalsAreJob
  <2>3. media.len \in Nat /\ media.pos \in Nat
    BY Sizes DEF StoreInv, MediaInv, MediaTypeOK, MediaType
  <2> QED
    BY <2>2, <2>3
<1> QED
  BY <1>1, JobInvariant, CopyStaysInCache, PTL

\* The sector under way ends at or below the end of the application.
LEMMA OpSectorBelowEnd ==
  ASSUME StoreInv, mpc \in BurnPc
  PROVE  /\ OpSector \in Nat /\ OpSector % SectorCells = 0
         /\ AppBase <= OpSector /\ OpSector + SectorCells <= AppEnd
<1> USE DEF StoreInv, MediaInv, MediaTypeOK, LocalsType, MediaType
<1>1. loc.sub \in {"flush", "job"}
  BY DEF LocalsInApp
<1>2. CASE loc.sub = "flush"
  <2>1. media.valid
    BY <1>2 DEF JobInv, CacheAtStep
  <2>2. OpSector = sectorAddr /\ sectorAddr \in Nat
    BY <1>2, Sizes DEF OpSector, Addr
  <2>3. sectorAddr % SectorCells = 0 /\ AppBase <= sectorAddr /\ sectorAddr < AppEnd
    BY <2>1 DEF JobInv, CacheAtStep, CacheInApp
  <2> QED
    BY <2>2, <2>3, GeometryAssumption, MultiplesApart
<1>3. CASE loc.sub = "job"
  <2>1. loc.after = "erase" /\ mpc \in FlushPc
    BY <1>3 DEF LocalsInApp, BurnPc, ErasePc, FlushPc
  <2>2. media.type = "erase" /\ loc.addr = media.addr
    BY <2>1 DEF JobInv, LocalsAreJob, ForErase
  <2>3. /\ loc.addr \in Nat /\ AppBase <= loc.addr /\ loc.addr < AppEnd
        /\ loc.addr % SectorCells = 0
    BY <2>2, Sizes DEF JobInApp, AppCell
  <2>4. OpSector = loc.addr
    BY <1>3 DEF OpSector
  <2> QED
    BY <2>3, <2>4, GeometryAssumption, MultiplesApart
<1> QED
  BY <1>1, <1>2, <1>3

\* When no job is dropped in mid-poll, the flash beyond DFU_FLASH_APP_END is
\* never erased nor programmed.
THEOREM BeyondStaysIntact == "cancel" \notin Races => (MediaSpec => BeyondAppIntact)
<1> SUFFICES ASSUME "cancel" \notin Races PROVE MediaSpec => BeyondAppIntact
  OBVIOUS
<1>1. ASSUME StoreInv, [MediaNext]_mediaVars
      PROVE  [\A a \in AppEnd .. Top - 1 : flash'[a] = flash[a]]_mediaVars
  <2> SUFFICES ASSUME MediaNext, NEW a \in AppEnd .. Top - 1, flash'[a] # flash[a]
               PROVE  FALSE
    BY <1>1
  <2>1. a \in Addr
    BY Sizes DEF Addr
  <2>2. mpc \in BurnPc /\ a \in SectorAt(OpSector)
    BY <1>1, <2>1, FlashChanges DEF StoreInv
  <2>3. OpSector \in Nat /\ OpSector + SectorCells <= AppEnd
    BY <1>1, <2>2, OpSectorBelowEnd
  <2> QED
    BY <2>2, <2>3, Sizes DEF SectorAt
<1> QED
  BY <1>1, JobInvariant, PTL DEF MediaSpec, BeyondAppIntact
=============================================================================
