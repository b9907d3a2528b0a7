--------------------------- MODULE DfuFlashProofs ---------------------------
(***************************************************************************)
(* What TLAPS proves of the flash media backend, for every geometry and    *)
(* every set of payloads, faults and races that DfuFlash admits.           *)
(***************************************************************************)
EXTENDS DfuFlash, FiniteSetTheorems, TLAPS

(***************************************************************************)
(* Arithmetic of sectors and pages.                                        *)
(***************************************************************************)

\* Division leaves a quotient and a remainder, and a multiple none.
LEMMA Division ==
  ASSUME NEW a \in Nat, NEW n \in Nat \ {0}
  PROVE  /\ a \div n \in Nat /\ a % n \in 0 .. n - 1
         /\ a = (a \div n) * n + (a % n)
         /\ (a * n) % n = 0
  OBVIOUS

\* Two different multiples are at least one unit apart.
LEMMA MultiplesApart ==
  ASSUME NEW n \in Nat \ {0}, NEW a \in Nat, NEW b \in Nat,
         a % n = 0, b % n = 0, a < b
  PROVE  a + n <= b
<1> DEFINE j == a \div n
           k == b \div n
<1>1. j \in Nat /\ k \in Nat /\ a = j * n /\ b = k * n
  BY Division
<1>2. j < k
  <2> SUFFICES ASSUME k <= j PROVE FALSE
    BY <1>1
  <2>1. PICK d \in Nat : j = k + d
    BY <1>1
  <2>2. a = b + d * n /\ d * n \in Nat
    BY <1>1, <2>1
  <2> QED
    BY <2>2
<1>3. PICK d \in Nat : k = j + d + 1
  <2>1. k - j - 1 \in Nat /\ k = j + (k - j - 1) + 1
    BY <1>1, <1>2
  <2> QED
    BY <2>1
<1>4. b = a + d * n + n /\ d * n \in Nat
  BY <1>1, <1>3
<1> QED
  BY <1>4

\* The sector of an address starts at a multiple and holds the address.
LEMMA SectorBaseFacts ==
  ASSUME NEW a \in Nat
  PROVE  /\ SectorBase(a) \in Nat
         /\ SectorBase(a) % SectorCells = 0
         /\ SectorBase(a) <= a /\ a < SectorBase(a) + SectorCells
<1>1. SectorCells \in Nat \ {0}
  BY GeometryAssumption
<1> DEFINE q == a \div SectorCells
<1>2. q \in Nat /\ SectorBase(a) = q * SectorCells
  BY <1>1, Division DEF SectorBase
<1>3. a % SectorCells \in 0 .. SectorCells - 1
  BY <1>1, Division
<1>4. SectorBase(a) % SectorCells = 0
  BY <1>1, <1>2, Division
<1> QED
  BY <1>1, <1>2, <1>3, <1>4 DEF SectorBase

\* At or above an aligned bound, so is the whole sector; below one too.
LEMMA SectorBaseBounded ==
  ASSUME NEW a \in Nat, NEW b \in Nat, b % SectorCells = 0
  PROVE  /\ b <= a => b <= SectorBase(a)
         /\ a < b => SectorBase(a) + SectorCells <= b
<1>1. SectorCells \in Nat \ {0}
  BY GeometryAssumption
<1>2. ASSUME b <= a, SectorBase(a) < b PROVE FALSE
  <2>1. SectorBase(a) + SectorCells <= b
    BY <1>1, <1>2, SectorBaseFacts, MultiplesApart
  <2> QED
    BY <1>1, <1>2, <2>1, SectorBaseFacts
<1>3. ASSUME a < b PROVE SectorBase(a) + SectorCells <= b
  <2>1. SectorBase(a) < b
    BY <1>3, SectorBaseFacts
  <2> QED
    BY <1>1, <2>1, SectorBaseFacts, MultiplesApart
<1> QED
  BY <1>2, <1>3, SectorBaseFacts

\* Different sectors share no cell.
LEMMA SectorsDisjoint ==
  ASSUME NEW s \in Nat, NEW t \in Nat, s # t,
         s % SectorCells = 0, t % SectorCells = 0,
         NEW a \in SectorAt(s)
  PROVE  a \notin SectorAt(t)
<1>1. SectorCells \in Nat \ {0}
  BY GeometryAssumption
<1>2. s < t => s + SectorCells <= t
  BY <1>1, MultiplesApart
<1>3. t < s => t + SectorCells <= s
  BY <1>1, MultiplesApart
<1> QED
  BY <1>1, <1>2, <1>3 DEF SectorAt

\* An aligned sector that starts in the address space lies in it.
LEMMA SectorInSpace ==
  ASSUME NEW s \in Addr, s % SectorCells = 0
  PROVE  SectorAt(s) \subseteq Addr
<1>1. SectorCells \in Nat \ {0} /\ Top \in Nat /\ Top % SectorCells = 0
  BY GeometryAssumption
<1>2. s \in Nat /\ s < Top
  BY <1>1 DEF Addr
<1>3. s + SectorCells <= Top
  BY <1>1, <1>2, MultiplesApart
<1> QED
  BY <1>1, <1>3 DEF SectorAt, Addr

\* A sector has at least one page.
LEMMA LastPageInSector == LastPage \in 0 .. SectorCells - 1
<1>1. /\ SectorCells \in Nat \ {0} /\ PageCells \in Nat \ {0}
      /\ SectorCells % PageCells = 0
  BY GeometryAssumption
<1> DEFINE q == SectorCells \div PageCells
<1>2. q \in Nat /\ SectorCells = q * PageCells
  BY <1>1, Division
<1>3. q # 0
  BY <1>1, <1>2
<1>4. q <= q * PageCells
  BY <1>1, <1>2
<1> QED
  BY <1>1, <1>2, <1>3, <1>4 DEF LastPage

\* A payload of n cells is numbered from 0.
LEMMA PayloadFacts ==
  ASSUME NEW p \in Payloads
  PROVE  /\ Length(p) \in 1 .. XferCells
         /\ DOMAIN p = 0 .. Length(p) - 1
         /\ \A i \in DOMAIN p : p[i] \in Cell
<1>1. PICK n \in 1 .. XferCells : p \in [0 .. n - 1 -> Cell]
  BY DataAssumption
<1>2. XferCells \in Nat
  BY GeometryAssumption
<1>3. Cardinality(0 .. n - 1) = n
  <2>1. 0 \in Int /\ n - 1 \in Int
    BY <1>2
  <2> QED
    BY <1>2, <2>1, FS_Interval
<1> QED
  BY <1>1, <1>3 DEF Length

(***************************************************************************)
(* The inductive invariant: types, and where the main thread's addresses   *)
(* point at each step of dfu_flash_poll.                                   *)
(***************************************************************************)

\* flush_sector and what it calls, together with the job's own erase.
FlushPc == {"flush", "prepare", "erasing", "program", "verify"}
ErasePc == {"prepare", "erasing"}
BurnPc  == {"prepare", "erasing", "program", "verify"}

\* A queued job lies in the application; an erase is of a whole sector.
JobInApp ==
  media.type # "none" =>
    /\ media.addr \in AppCell
    /\ media.type = "erase" => media.addr % SectorCells = 0

\* The cache is of an application sector, also while it is flushed.
CacheInApp ==
  /\ sectorAddr % SectorCells = 0
  /\ media.valid => AppBase <= sectorAddr
  /\ mpc \in BurnPc /\ loc.sub = "flush" => AppBase <= sectorAddr

\* The locals that matter at each step.
LocalsInApp ==
  /\ loc.page <= LastPage
  /\ mpc \in FlushPc => loc.after # "none"
  /\ mpc \in BurnPc => loc.sub # "none"
  /\ mpc \in {"program", "verify"} => loc.sub = "flush"
  /\ mpc \in ErasePc /\ loc.sub = "job" => loc.after = "erase"
  /\ mpc \in {"lookup", "load"} => loc.after = "write"
  /\ mpc \in FlushPc \cup {"lookup", "load", "copy"} /\ loc.after \in {"write", "erase"} =>
       AppBase <= loc.addr
  /\ mpc \in FlushPc /\ loc.after = "erase" => loc.addr % SectorCells = 0
  /\ mpc \in {"eraseDone", "erasePublish"} => loc.ret \in MediaError

MediaInv == MediaTypeOK /\ JobInApp /\ CacheInApp /\ LocalsInApp

\* A flush under way works for a dirty cache, or one just cancelled.
FlushedIsDirty ==
  mpc \in BurnPc /\ loc.sub = "flush" /\ media.valid => media.dirty

\* An erase job never works on the cached sector.
ErasedIsUncached ==
  mpc \in FlushPc /\ loc.after = "erase" /\ media.valid => sectorAddr # loc.addr

CoherentInv == CacheCoherent /\ FlushedIsDirty /\ ErasedIsUncached

\* The constants are positive integers, and positions stay in the space.
LEMMA Sizes ==
  /\ AppBase \in Nat \ {0} /\ AppEnd \in Nat \ {0} /\ Top \in Nat \ {0}
  /\ SectorCells \in Nat \ {0} /\ PageCells \in Nat \ {0}
  /\ XferCells \in Nat \ {0} /\ PosMod \in Nat \ {0}
  /\ AppBase < AppEnd /\ AppEnd + PosMod <= Top /\ XferCells < PosMod
  BY GeometryAssumption

\* What dfu_flash_poll and flush_sector may return.
Result == MediaError \cup {"idle", "progress", "failed"}

\* Ways a step of the poll ends: it returns, ...
LEMMA ReturnFacts ==
  ASSUME NEW r \in Result, Return(r)
  PROVE  loc' \in LocalsType /\ LocalsInApp'
<1>1. NoLocals \in LocalsType
  BY Sizes DEF NoLocals, LocalsType, Addr, MediaError
<1>2. loc' \in LocalsType /\ loc'.page = 0 /\ mpc' = "polled"
  BY <1>1 DEF Return, Goto, LocalsType, Result, NoLocals
<1> QED
  BY <1>2, LastPageInSector DEF LocalsInApp, FlushPc, BurnPc, ErasePc

\* ... the flush returns to its caller, ...
LEMMA FlushReturnFacts ==
  ASSUME MediaInv, NEW r \in {"idle", "progress"}, FlushReturn(r)
  PROVE  loc' \in LocalsType /\ (mpc \in {"flush", "verify"} => LocalsInApp')
<1>1. (IF loc.after = "erase" THEN "job" ELSE "none") \in {"none", "flush", "job"}
  OBVIOUS
<1>2. 0 \in 0 .. SectorCells
  BY Sizes
<1>3. loc' \in LocalsType
  BY <1>1, <1>2 DEF FlushReturn, MediaInv, MediaTypeOK, LocalsType
<1>4. /\ loc'.page = 0 /\ loc'.addr = loc.addr /\ loc'.after = loc.after
      /\ loc'.sub = IF loc.after = "erase" THEN "job" ELSE "none"
  BY DEF FlushReturn, MediaInv, MediaTypeOK, LocalsType
<1>5. ASSUME loc.after # "none"
      PROVE  mpc' = IF loc.after = "erase" THEN "prepare"
                    ELSE IF loc.after = "write" THEN "load" ELSE "finishClear"
  BY <1>5 DEF FlushReturn, Goto, MediaInv, MediaTypeOK, LocalsType
<1>6. ASSUME mpc \in {"flush", "verify"} PROVE LocalsInApp'
  BY <1>4, <1>5, <1>6, LastPageInSector
     DEF MediaInv, LocalsInApp, FlushPc, BurnPc, ErasePc
<1> QED
  BY <1>3, <1>6

\* ... an operation of the controller fails, ...
LEMMA OpFailedFacts ==
  ASSUME MediaInv, NEW e \in {"erase", "write", "verify"}, OpFailed(e)
  PROVE  loc' \in LocalsType /\ LocalsInApp'
<1>1. CASE loc.sub = "flush"
  BY <1>1, ReturnFacts DEF OpFailed, Result
<1>2. CASE loc.sub = "job"
  <2>1. loc' = [loc EXCEPT !.ret = e] /\ mpc' = "eraseDone"
    BY <1>2 DEF OpFailed, Goto
  <2>2. loc' \in LocalsType
    BY <2>1 DEF MediaInv, MediaTypeOK, LocalsType, MediaError
  <2> QED
    BY <2>1, <2>2 DEF MediaInv, MediaTypeOK, LocalsType, LocalsInApp, FlushPc, BurnPc,
         ErasePc
<1> QED
  BY <1>1, <1>2 DEF OpFailed

\* ... or a page was programmed.
LEMMA NextPageFacts ==
  ASSUME MediaInv, mpc = "program", NextPage
  PROVE  loc' \in LocalsType /\ LocalsInApp'
<1>1. loc.page \in 0 .. LastPage
  BY DEF MediaInv, MediaTypeOK, LocalsType, LocalsInApp
<1>2. (IF loc.page = LastPage THEN 0 ELSE loc.page + 1) \in 0 .. LastPage
  BY <1>1, LastPageInSector
<1>3. (IF loc.page = LastPage THEN 0 ELSE loc.page + 1) \in 0 .. SectorCells
  BY <1>2, LastPageInSector, Sizes
<1>4. /\ loc' \in LocalsType /\ loc'.page <= LastPage
      /\ loc'.sub = loc.sub /\ loc'.after = loc.after /\ loc'.addr = loc.addr
  BY <1>2, <1>3, LastPageInSector DEF NextPage, MediaInv, MediaTypeOK, LocalsType
<1>5. mpc' \in {"program", "verify"}
  BY DEF NextPage, Goto
<1> QED
  BY <1>4, <1>5 DEF MediaInv, LocalsInApp, FlushPc, BurnPc, ErasePc

\* The cell a job has reached is in the space, and its chunk in a sector.
LEMMA ChunkFacts ==
  ASSUME MediaInv, media.type = "write"
  PROVE  /\ media.addr + media.pos \in Addr
         /\ AppBase <= media.addr + media.pos
         /\ Chunk(media.addr + media.pos, media.pos, media.len) \in 0 .. SectorCells
<1> DEFINE a == media.addr + media.pos
<1>1. /\ media.addr \in AppCell /\ media.pos \in 0 .. PosMod - 1
      /\ media.len \in 0 .. XferCells
  BY DEF MediaInv, MediaTypeOK, MediaType, JobInApp
<1>2. a \in Addr /\ a \in Nat /\ AppBase <= a
  BY <1>1, Sizes DEF AppCell, Addr
<1>3. SectorBase(a) + SectorCells - a \in 0 .. SectorCells
  <2>1. SectorBase(a) \in Nat /\ SectorBase(a) <= a /\ a < SectorBase(a) + SectorCells
    BY <1>2, SectorBaseFacts
  <2> QED
    BY <1>2, <2>1, Sizes
<1>4. Remain(media.pos, media.len) \in Nat
  BY <1>1, Sizes DEF Remain
<1>5. Chunk(a, media.pos, media.len) \in 0 .. SectorCells
  BY <1>3, <1>4, Sizes DEF Chunk
<1> QED
  BY <1>2, <1>5

\* A sum of a position and a chunk is brought back into sixteen bits.
LEMMA AdvanceFacts ==
  ASSUME MediaInv, NEW p \in PosReads
  PROVE  \A t \in {"none", media.type} :
           [media EXCEPT !.pos = (p + loc.chunk) % PosMod, !.type = t] \in MediaType
<1>1. p + loc.chunk \in Nat
  BY Sizes DEF PosReads, MediaInv, MediaTypeOK, MediaType, LocalsType
<1>2. (p + loc.chunk) % PosMod \in 0 .. PosMod - 1
  BY <1>1, Sizes, Division
<1> QED
  BY <1>2 DEF MediaInv, MediaTypeOK, MediaType

\* A step of dfu_flash_poll keeps its locals typed.
LEMMA PollKeepsLocalsType ==
  ASSUME MediaInv, PollStep
  PROVE  loc' \in LocalsType
<1> USE DEF MediaInv, MediaTypeOK, LocalsType, MediaType
<1>1. CASE PollReturn
  BY <1>1, ReturnFacts DEF PollReturn, Result, MediaError
<1>2. CASE PollErase
  BY <1>2, Sizes DEF PollErase
<1>3. CASE PollWrite
  BY <1>3, ChunkFacts, Sizes DEF PollWrite, MediaError
<1>4. CASE PollFinish
  BY <1>4, Sizes DEF PollFinish
<1>5. CASE FlushClean
  BY <1>5, FlushReturnFacts DEF FlushClean
<1>6. CASE FlushSame
  BY <1>6, FlushReturnFacts DEF FlushSame
<1>7. CASE FlushProgram
  BY <1>7, Sizes DEF FlushProgram
<1>8. CASE EraseStart
  BY <1>8, Sizes DEF EraseStart
<1>9. CASE EraseRefused
  BY <1>9, OpFailedFacts DEF EraseRefused
<1>10. CASE EraseEnd
  BY <1>10, Sizes DEF EraseEnd, MediaError
<1>11. CASE EraseFailed
  BY <1>11, OpFailedFacts DEF EraseFailed
<1>12. CASE ProgramPage
  BY <1>12, NextPageFacts DEF ProgramPage
<1>13. CASE ProgramWrong
  BY <1>13, NextPageFacts DEF ProgramWrong
<1>14. CASE ProgramFailed
  BY <1>14, OpFailedFacts DEF ProgramFailed
<1>15. CASE VerifyPassed
  BY <1>15, FlushReturnFacts DEF VerifyPassed
<1>16. CASE VerifyFailed
  BY <1>16, OpFailedFacts DEF VerifyFailed
<1>17. CASE EraseRelease
  BY <1>17, Sizes DEF EraseRelease
<1>18. CASE ErasePublish
  BY <1>18, ReturnFacts DEF ErasePublish, Result, MediaError
<1>19. CASE WriteLookup
  BY <1>19, Sizes DEF WriteLookup
<1>20. CASE WriteLoad
  BY <1>20, Sizes DEF WriteLoad
<1>21. CASE WriteCopy
  BY <1>21 DEF WriteCopy, PosReads
<1>22. CASE WriteSetDirty
  BY <1>22, Sizes DEF WriteSetDirty
<1>23. CASE WriteAdvance
  BY <1>23, ReturnFacts DEF WriteAdvance, Result, MediaError
<1>24. CASE FinishClear
  BY <1>24, Sizes DEF FinishClear
<1>25. CASE FinishDone
  BY <1>25, ReturnFacts DEF FinishDone, Result, MediaError
<1> QED
  BY <1>1, <1>2, <1>3, <1>4, <1>5, <1>6, <1>7, <1>8, <1>9, <1>10, <1>11, <1>12, <1>13,
       <1>14, <1>15, <1>16, <1>17, <1>18, <1>19, <1>20, <1>21, <1>22, <1>23, <1>24,
       <1>25 DEF PollStep

\* A step of dfu_flash_poll keeps what its locals say of the step it is at:
\* above all, that they point into the application while flash is changed.
LEMMA PollKeepsLocalsInApp ==
  ASSUME MediaInv, PollStep
  PROVE  LocalsInApp'
<1> USE DEF JobInApp, LocalsInApp, Goto, NoLocals, BurnPc, FlushPc, ErasePc, AppCell,
MediaInv, MediaTypeOK, MediaType, LocalsType
<1>1. CASE PollReturn
  BY <1>1, ReturnFacts DEF PollReturn, Result, MediaError
<1>2. CASE PollErase
  BY <1>2, Sizes, LastPageInSector DEF PollErase
<1>3. CASE PollWrite
  BY <1>3, ChunkFacts, LastPageInSector DEF PollWrite
<1>4. CASE PollFinish
  BY <1>4, Sizes, LastPageInSector DEF PollFinish
<1>5. CASE FlushClean
  BY <1>5, FlushReturnFacts DEF FlushClean
<1>6. CASE FlushSame
  BY <1>6, FlushReturnFacts DEF FlushSame
<1>7. CASE FlushProgram
  BY <1>7, Sizes, LastPageInSector DEF FlushProgram
<1>8. CASE EraseStart
  BY <1>8, Sizes, LastPageInSector DEF EraseStart
<1>9. CASE EraseRefused
  BY <1>9, OpFailedFacts DEF EraseRefused
<1>10. CASE EraseEnd
  BY <1>10 DEF EraseEnd, MediaError
<1>11. CASE EraseFailed
  BY <1>11, OpFailedFacts DEF EraseFailed
<1>12. CASE ProgramPage
  BY <1>12, NextPageFacts DEF ProgramPage
<1>13. CASE ProgramWrong
  BY <1>13, NextPageFacts DEF ProgramWrong
<1>14. CASE ProgramFailed
  BY <1>14, OpFailedFacts DEF ProgramFailed
<1>15. CASE VerifyPassed
  BY <1>15, FlushReturnFacts DEF VerifyPassed
<1>16. CASE VerifyFailed
  BY <1>16, OpFailedFacts DEF VerifyFailed
<1>17. CASE EraseRelease
  BY <1>17, Sizes, LastPageInSector DEF EraseRelease
<1>18. CASE ErasePublish
  BY <1>18, ReturnFacts DEF ErasePublish, Result, MediaError
<1>19. CASE WriteLookup
  BY <1>19, Sizes, LastPageInSector DEF WriteLookup
<1>20. CASE WriteLoad
  BY <1>20, Sizes, LastPageInSector DEF WriteLoad
<1>21. CASE WriteCopy
  BY <1>21, Sizes, LastPageInSector DEF WriteCopy
<1>22. CASE WriteSetDirty
  BY <1>22, Sizes, LastPageInSector DEF WriteSetDirty
<1>23. CASE WriteAdvance
  BY <1>23, ReturnFacts DEF WriteAdvance, Result, MediaError
<1>24. CASE FinishClear
  BY <1>24, Sizes, LastPageInSector DEF FinishClear
<1>25. CASE FinishDone
  BY <1>25, ReturnFacts DEF FinishDone, Result, MediaError
<1> QED
  BY <1>1, <1>2, <1>3, <1>4, <1>5, <1>6, <1>7, <1>8, <1>9, <1>10, <1>11, <1>12, <1>13,
       <1>14, <1>15, <1>16, <1>17, <1>18, <1>19, <1>20, <1>21, <1>22, <1>23, <1>24,
       <1>25 DEF PollStep

\* A step of dfu_flash_poll keeps the job, flags and error code typed.
LEMMA PollKeepsMediaType ==
  ASSUME MediaInv, PollStep
  PROVE  media' \in MediaType
<1> USE DEF MediaInv, MediaTypeOK, MediaType, LocalsType, MediaError
<1>1. CASE PollReturn
  BY <1>1 DEF PollReturn, Return
<1>2. CASE PollErase
  BY <1>2 DEF PollErase
<1>3. CASE PollWrite
  BY <1>3 DEF PollWrite
<1>4. CASE PollFinish
  BY <1>4 DEF PollFinish
<1>5. CASE FlushClean
  BY <1>5 DEF FlushClean, FlushReturn
<1>6. CASE FlushSame
  BY <1>6 DEF FlushSame, FlushReturn
<1>7. CASE FlushProgram
  BY <1>7 DEF FlushProgram
<1>8. CASE EraseStart
  BY <1>8 DEF EraseStart
<1>9. CASE EraseRefused
  BY <1>9 DEF EraseRefused, OpFailed, Return
<1>10. CASE EraseEnd
  BY <1>10 DEF EraseEnd
<1>11. CASE EraseFailed
  BY <1>11 DEF EraseFailed, OpFailed, Return
<1>12. CASE ProgramPage
  BY <1>12 DEF ProgramPage, NextPage
<1>13. CASE ProgramWrong
  BY <1>13 DEF ProgramWrong, NextPage
<1>14. CASE ProgramFailed
  BY <1>14 DEF ProgramFailed, OpFailed, Return
<1>15. CASE VerifyPassed
  BY <1>15 DEF VerifyPassed, FlushReturn
<1>16. CASE VerifyFailed
  BY <1>16 DEF VerifyFailed, OpFailed, Return
<1>17. CASE EraseRelease
  BY <1>17 DEF EraseRelease
<1>18. CASE ErasePublish
  BY <1>18 DEF ErasePublish, LocalsInApp, Return
<1>19. CASE WriteLookup
  BY <1>19 DEF WriteLookup
<1>20. CASE WriteLoad
  BY <1>20 DEF WriteLoad
<1>21. CASE WriteCopy
  BY <1>21 DEF WriteCopy
<1>22. CASE WriteSetDirty
  BY <1>22 DEF WriteSetDirty
<1>23. CASE WriteAdvance
  BY <1>23, AdvanceFacts DEF WriteAdvance
<1>24. CASE FinishClear
  BY <1>24 DEF FinishClear
<1>25. CASE FinishDone
  BY <1>25 DEF FinishDone, Return
<1> QED
  BY <1>1, <1>2, <1>3, <1>4, <1>5, <1>6, <1>7, <1>8, <1>9, <1>10, <1>11, <1>12, <1>13,
       <1>14, <1>15, <1>16, <1>17, <1>18, <1>19, <1>20, <1>21, <1>22, <1>23, <1>24,
       <1>25 DEF PollStep

\* A step of dfu_flash_poll leaves the cache on a sector of the application.
LEMMA PollKeepsCacheInApp ==
  ASSUME MediaInv, PollStep
  PROVE  CacheInApp'
<1> USE DEF CacheInApp, Goto, BurnPc, MediaInv, MediaTypeOK, MediaType, LocalsType
<1>1. CASE PollReturn
  BY <1>1 DEF PollReturn, Return
<1>2. CASE PollErase
  BY <1>2 DEF PollErase
<1>3. CASE PollWrite
  BY <1>3 DEF PollWrite
<1>4. CASE PollFinish
  BY <1>4 DEF PollFinish
<1>5. CASE FlushClean
  BY <1>5 DEF FlushClean, FlushReturn
<1>6. CASE FlushSame
  BY <1>6 DEF FlushSame, FlushReturn
<1>7. CASE FlushProgram
  BY <1>7 DEF FlushProgram
<1>8. CASE EraseStart
  BY <1>8 DEF EraseStart
<1>9. CASE EraseRefused
  BY <1>9 DEF EraseRefused, OpFailed, Return
<1>10. CASE EraseEnd
  BY <1>10 DEF EraseEnd
<1>11. CASE EraseFailed
  BY <1>11 DEF EraseFailed, OpFailed, Return
<1>12. CASE ProgramPage
  BY <1>12 DEF ProgramPage, NextPage
<1>13. CASE ProgramWrong
  BY <1>13 DEF ProgramWrong, NextPage
<1>14. CASE ProgramFailed
  BY <1>14 DEF ProgramFailed, OpFailed, Return
<1>15. CASE VerifyPassed
  BY <1>15 DEF VerifyPassed, FlushReturn
<1>16. CASE VerifyFailed
  BY <1>16 DEF VerifyFailed, OpFailed, Return
<1>17. CASE EraseRelease
  BY <1>17 DEF EraseRelease
<1>18. CASE ErasePublish
  BY <1>18 DEF ErasePublish, Return
<1>19. CASE WriteLookup
  BY <1>19 DEF WriteLookup
<1>20. CASE WriteLoad
  BY <1>20, SectorBaseFacts, SectorBaseBounded, Sizes, GeometryAssumption DEF WriteLoad,
       LocalsInApp, Addr
<1>21. CASE WriteCopy
  BY <1>21 DEF WriteCopy
<1>22. CASE WriteSetDirty
  BY <1>22 DEF WriteSetDirty
<1>23. CASE WriteAdvance
  BY <1>23 DEF WriteAdvance, Return
<1>24. CASE FinishClear
  BY <1>24 DEF FinishClear
<1>25. CASE FinishDone
  BY <1>25 DEF FinishDone, Return
<1> QED
  BY <1>1, <1>2, <1>3, <1>4, <1>5, <1>6, <1>7, <1>8, <1>9, <1>10, <1>11, <1>12, <1>13,
       <1>14, <1>15, <1>16, <1>17, <1>18, <1>19, <1>20, <1>21, <1>22, <1>23, <1>24,
       <1>25 DEF PollStep

\* A cell of the cached sector has its byte in the cache.
LEMMA CachedCell ==
  ASSUME MediaInv, mpc = "program", NEW a \in PageAt(loc.page)
  PROVE  Cached(a) \in Cell /\ a \in SectorAt(sectorAddr)
<1>1. a \in SectorAt(sectorAddr)
  BY DEF PageAt, OpSector, MediaInv, LocalsInApp
<1>2. a - sectorAddr \in 0 .. SectorCells - 1
  BY <1>1, Sizes DEF SectorAt, MediaInv, MediaTypeOK, Addr
<1> QED
  BY <1>1, <1>2 DEF Cached, MediaInv, MediaTypeOK

\* What a step of dfu_flash_poll erases or programs are cells.
LEMMA PollKeepsFlashType ==
  ASSUME MediaInv, PollStep
  PROVE  flash' \in [Addr -> Cell]
<1> USE DEF MediaInv, MediaTypeOK
<1>1. CASE PollReturn
  BY <1>1 DEF PollReturn
<1>2. CASE PollErase
  BY <1>2 DEF PollErase
<1>3. CASE PollWrite
  BY <1>3 DEF PollWrite
<1>4. CASE PollFinish
  BY <1>4 DEF PollFinish
<1>5. CASE FlushClean
  BY <1>5 DEF FlushClean
<1>6. CASE FlushSame
  BY <1>6 DEF FlushSame
<1>7. CASE FlushProgram
  BY <1>7 DEF FlushProgram
<1>8. CASE EraseStart
  BY <1>8, DataAssumption DEF EraseStart
<1>9. CASE EraseRefused
  BY <1>9 DEF EraseRefused
<1>10. CASE EraseEnd
  BY <1>10, DataAssumption DEF EraseEnd
<1>11. CASE EraseFailed
  BY <1>11 DEF EraseFailed
<1>12. CASE ProgramPage
  BY <1>12, CachedCell DEF ProgramPage
<1>13. CASE ProgramWrong
  BY <1>13, DataAssumption DEF ProgramWrong
<1>14. CASE ProgramFailed
  BY <1>14, DataAssumption DEF ProgramFailed
<1>15. CASE VerifyPassed
  BY <1>15 DEF VerifyPassed
<1>16. CASE VerifyFailed
  BY <1>16 DEF VerifyFailed
<1>17. CASE EraseRelease
  BY <1>17 DEF EraseRelease
<1>18. CASE ErasePublish
  BY <1>18 DEF ErasePublish
<1>19. CASE WriteLookup
  BY <1>19 DEF WriteLookup
<1>20. CASE WriteLoad
  BY <1>20 DEF WriteLoad
<1>21. CASE WriteCopy
  BY <1>21 DEF WriteCopy
<1>22. CASE WriteSetDirty
  BY <1>22 DEF WriteSetDirty
<1>23. CASE WriteAdvance
  BY <1>23 DEF WriteAdvance
<1>24. CASE FinishClear
  BY <1>24 DEF FinishClear
<1>25. CASE FinishDone
  BY <1>25 DEF FinishDone
<1> QED
  BY <1>1, <1>2, <1>3, <1>4, <1>5, <1>6, <1>7, <1>8, <1>9, <1>10, <1>11, <1>12, <1>13,
       <1>14, <1>15, <1>16, <1>17, <1>18, <1>19, <1>20, <1>21, <1>22, <1>23, <1>24,
       <1>25 DEF PollStep

\* The sector a job writes into lies in the address space.
LEMMA LoadedCell ==
  ASSUME MediaInv, NEW i \in 0 .. SectorCells - 1
  PROVE  /\ SectorBase(loc.addr) \in Addr
         /\ flash[SectorBase(loc.addr) + i] \in Cell
<1>1. loc.addr \in Addr /\ loc.addr \in Nat
  BY Sizes DEF MediaInv, MediaTypeOK, LocalsType, Addr
<1>2. /\ SectorBase(loc.addr) \in Addr
      /\ SectorBase(loc.addr) % SectorCells = 0
  <2>1. /\ SectorBase(loc.addr) \in Nat /\ SectorBase(loc.addr) <= loc.addr
        /\ SectorBase(loc.addr) % SectorCells = 0
    BY <1>1, SectorBaseFacts
  <2> QED
    BY <1>1, <2>1, Sizes DEF Addr
<1>3. SectorBase(loc.addr) + i \in SectorAt(SectorBase(loc.addr))
  BY <1>2, Sizes DEF SectorAt, Addr
<1> QED
  BY <1>2, <1>3, SectorInSpace DEF MediaInv, MediaTypeOK

\* A byte copied out of the job is one of its data or what follows them.
LEMMA CopiedCell ==
  ASSUME MediaInv, NEW p \in PosReads, NEW k \in Nat
  PROVE  JobCell(p + k) \in Cell
<1>1. p + k \in Nat
  BY Sizes DEF PosReads, MediaInv, MediaTypeOK, MediaType, LocalsType
<1>2. CASE p + k < XferCells
  BY <1>1, <1>2, Sizes DEF JobCell, MediaInv, MediaTypeOK, MediaType
<1>3. CASE ~(p + k < XferCells)
  BY <1>3, DataAssumption DEF JobCell
<1> QED
  BY <1>2, <1>3

\* What flush_sector's caller loads and copies into g_sector are cells.
LEMMA PollKeepsCacheType ==
  ASSUME MediaInv, PollStep
  PROVE  sector' \in [0 .. SectorCells - 1 -> Cell] /\ sectorAddr' \in Addr
<1>1. CASE WriteLoad
  <2>1. SectorBase(loc.addr) \in Addr
    BY LoadedCell, Sizes
  <2> QED
    BY <1>1, <2>1, LoadedCell DEF WriteLoad
<1>2. CASE WriteCopy
  <2>1. PICK p \in PosReads :
          sector' = [i \in 0 .. SectorCells - 1 |->
            IF i \in loc.addr - SectorBase(loc.addr) .. loc.addr - SectorBase(loc.addr) + loc.chunk - 1
            THEN JobCell(p + i - (loc.addr - SectorBase(loc.addr))) ELSE sector[i]]
    BY <1>2 DEF WriteCopy
  <2>2. loc.addr - SectorBase(loc.addr) \in Nat /\ p \in Nat
    <3>1. loc.addr \in Nat /\ p \in Nat
      BY Sizes DEF MediaInv, MediaTypeOK, MediaType, LocalsType, Addr, PosReads
    <3>2. SectorBase(loc.addr) \in Nat /\ SectorBase(loc.addr) <= loc.addr
      BY <3>1, SectorBaseFacts
    <3> QED
      BY <3>1, <3>2
  <2>3. ASSUME NEW i \in 0 .. SectorCells - 1, loc.addr - SectorBase(loc.addr) <= i
        PROVE  JobCell(p + i - (loc.addr - SectorBase(loc.addr))) \in Cell
    <3>1. i - (loc.addr - SectorBase(loc.addr)) \in Nat
      BY <2>2, <2>3, Sizes
    <3>2. p + i - (loc.addr - SectorBase(loc.addr)) = p + (i - (loc.addr - SectorBase(loc.addr)))
      BY <2>2, <3>1
    <3> QED
      BY <3>1, <3>2, CopiedCell
  <2>4. ASSUME NEW i \in 0 .. SectorCells - 1
        PROVE  sector'[i] \in Cell
    BY <2>1, <2>2, <2>3 DEF MediaInv, MediaTypeOK
  <2> QED
    BY <1>2, <2>1, <2>4 DEF WriteCopy, MediaInv, MediaTypeOK
<1>3. CASE ~WriteLoad /\ ~WriteCopy
  BY <1>3 DEF PollStep, MediaInv, MediaTypeOK,
    PollReturn, PollErase, PollWrite, PollFinish, FlushClean, FlushSame, FlushProgram,
    EraseStart, EraseRefused, EraseEnd, EraseFailed, ProgramPage, ProgramWrong,
    ProgramFailed, VerifyPassed, VerifyFailed, EraseRelease, ErasePublish, WriteLookup,
    WriteSetDirty, WriteAdvance, FinishClear, FinishDone
<1> QED
  BY <1>1, <1>2, <1>3

\* A step of dfu_flash_poll leads to one of its steps.
LEMMA PollKeepsPc ==
  ASSUME MediaInv, PollStep
  PROVE  mpc' \in PollPc
<1> USE DEF PollPc, Goto, MediaInv, LocalsInApp, FlushPc, MediaTypeOK, LocalsType
<1>1. CASE PollReturn
  BY <1>1 DEF PollReturn, Return
<1>2. CASE PollErase
  BY <1>2 DEF PollErase
<1>3. CASE PollWrite
  BY <1>3 DEF PollWrite
<1>4. CASE PollFinish
  BY <1>4 DEF PollFinish
<1>5. CASE FlushClean
  BY <1>5 DEF FlushClean, FlushReturn
<1>6. CASE FlushSame
  BY <1>6 DEF FlushSame, FlushReturn
<1>7. CASE FlushProgram
  BY <1>7 DEF FlushProgram
<1>8. CASE EraseStart
  BY <1>8 DEF EraseStart
<1>9. CASE EraseRefused
  BY <1>9 DEF EraseRefused, OpFailed, Return
<1>10. CASE EraseEnd
  BY <1>10 DEF EraseEnd
<1>11. CASE EraseFailed
  BY <1>11 DEF EraseFailed, OpFailed, Return
<1>12. CASE ProgramPage
  BY <1>12 DEF ProgramPage, NextPage
<1>13. CASE ProgramWrong
  BY <1>13 DEF ProgramWrong, NextPage
<1>14. CASE ProgramFailed
  BY <1>14 DEF ProgramFailed, OpFailed, Return
<1>15. CASE VerifyPassed
  BY <1>15 DEF VerifyPassed, FlushReturn
<1>16. CASE VerifyFailed
  BY <1>16 DEF VerifyFailed, OpFailed, Return
<1>17. CASE EraseRelease
  BY <1>17 DEF EraseRelease
<1>18. CASE ErasePublish
  BY <1>18 DEF ErasePublish, Return
<1>19. CASE WriteLookup
  BY <1>19 DEF WriteLookup
<1>20. CASE WriteLoad
  BY <1>20 DEF WriteLoad
<1>21. CASE WriteCopy
  BY <1>21 DEF WriteCopy
<1>22. CASE WriteSetDirty
  BY <1>22 DEF WriteSetDirty
<1>23. CASE WriteAdvance
  BY <1>23 DEF WriteAdvance, Return
<1>24. CASE FinishClear
  BY <1>24 DEF FinishClear
<1>25. CASE FinishDone
  BY <1>25 DEF FinishDone, Return
<1> QED
  BY <1>1, <1>2, <1>3, <1>4, <1>5, <1>6, <1>7, <1>8, <1>9, <1>10, <1>11, <1>12, <1>13,
       <1>14, <1>15, <1>16, <1>17, <1>18, <1>19, <1>20, <1>21, <1>22, <1>23, <1>24,
       <1>25 DEF PollStep

\* The poll only ever advances or ends the queued job.
LEMMA PollKeepsJobInApp ==
  ASSUME MediaInv, PollStep
  PROVE  JobInApp'
<1> USE DEF JobInApp, MediaInv, MediaTypeOK, MediaType, LocalsType
<1>1. CASE PollReturn
  BY <1>1 DEF PollReturn, Return
<1>2. CASE PollErase
  BY <1>2 DEF PollErase
<1>3. CASE PollWrite
  BY <1>3 DEF PollWrite
<1>4. CASE PollFinish
  BY <1>4 DEF PollFinish
<1>5. CASE FlushClean
  BY <1>5 DEF FlushClean, FlushReturn
<1>6. CASE FlushSame
  BY <1>6 DEF FlushSame, FlushReturn
<1>7. CASE FlushProgram
  BY <1>7 DEF FlushProgram
<1>8. CASE EraseStart
  BY <1>8 DEF EraseStart
<1>9. CASE EraseRefused
  BY <1>9 DEF EraseRefused, OpFailed, Return
<1>10. CASE EraseEnd
  BY <1>10 DEF EraseEnd
<1>11. CASE EraseFailed
  BY <1>11 DEF EraseFailed, OpFailed, Return
<1>12. CASE ProgramPage
  BY <1>12 DEF ProgramPage, NextPage
<1>13. CASE ProgramWrong
  BY <1>13 DEF ProgramWrong, NextPage
<1>14. CASE ProgramFailed
  BY <1>14 DEF ProgramFailed, OpFailed, Return
<1>15. CASE VerifyPassed
  BY <1>15 DEF VerifyPassed, FlushReturn
<1>16. CASE VerifyFailed
  BY <1>16 DEF VerifyFailed, OpFailed, Return
<1>17. CASE EraseRelease
  BY <1>17 DEF EraseRelease
<1>18. CASE ErasePublish
  BY <1>18 DEF ErasePublish, Return
<1>19. CASE WriteLookup
  BY <1>19 DEF WriteLookup
<1>20. CASE WriteLoad
  BY <1>20 DEF WriteLoad
<1>21. CASE WriteCopy
  BY <1>21 DEF WriteCopy
<1>22. CASE WriteSetDirty
  BY <1>22 DEF WriteSetDirty
<1>23. CASE WriteAdvance
  BY <1>23 DEF WriteAdvance, Return
<1>24. CASE FinishClear
  BY <1>24 DEF FinishClear
<1>25. CASE FinishDone
  BY <1>25 DEF FinishDone, Return
<1> QED
  BY <1>1, <1>2, <1>3, <1>4, <1>5, <1>6, <1>7, <1>8, <1>9, <1>10, <1>11, <1>12, <1>13,
       <1>14, <1>15, <1>16, <1>17, <1>18, <1>19, <1>20, <1>21, <1>22, <1>23, <1>24,
       <1>25 DEF PollStep

\* Every step of dfu_flash_poll keeps the invariant.
LEMMA PollKeepsMediaInv ==
  ASSUME MediaInv, PollStep
  PROVE  MediaInv'
  BY PollKeepsLocalsType, PollKeepsLocalsInApp, PollKeepsMediaType, PollKeepsCacheInApp,
     PollKeepsFlashType, PollKeepsCacheType, PollKeepsPc, PollKeepsJobInApp
     DEF MediaInv, MediaTypeOK

(***************************************************************************)
(* The interrupt's calls and the power.                                    *)
(***************************************************************************)

\* What each call makes of the media record: it stays typed, its job lies in
\* the application, and a cache it leaves valid is the one there was.
RequestOK(m) ==
  /\ m \in MediaType
  /\ m.type # "none" => /\ m.addr \in AppCell
                        /\ m.type = "erase" => m.addr % SectorCells = 0
  /\ m.valid => media.valid /\ m.dirty = media.dirty

\* dfu_flash_cancel and dfu_flash_begin leave such a record.
LEMMA CancelOK == MediaInv => RequestOK(Cancel(media)) /\ RequestOK(Begin(media))
  BY DEF MediaInv, MediaTypeOK, MediaType, MediaError, JobInApp, RequestOK, Cancel,
       Begin, TargetError

\* So does dfu_flash_begin_finish.
LEMMA FinishOK == MediaInv => RequestOK(Finish(media))
  BY DEF MediaInv, MediaTypeOK, MediaType, JobInApp, RequestOK, Finish

\* So does dfu_flash_queue_write: its checks keep the job in the application.
LEMMA QueueWriteOK ==
  ASSUME NEW m, RequestOK(m), NEW a, NEW p \in Payloads
  PROVE  RequestOK(QueueWrite(m, a, p))
<1>1. CASE WriteAccepted(m, a, Length(p))
  <2>1. a \in AppCell
    BY <1>1, DataAssumption DEF WriteAccepted, WriteRefusal, AddressValid
  <2>2. a \in Addr
    BY <2>1, Sizes DEF AppCell, Addr
  <2> DEFINE d == [i \in DOMAIN m.data |-> IF i \in DOMAIN p THEN p[i] ELSE m.data[i]]
  <2>3. d \in [0 .. XferCells - 1 -> Cell]
    BY PayloadFacts DEF RequestOK, MediaType
  <2>4. Length(p) \in 0 .. XferCells /\ 0 \in 0 .. PosMod - 1
    BY PayloadFacts, Sizes
  <2>5. QueueWrite(m, a, p) =
          [m EXCEPT !.type = "write", !.addr = a, !.len = Length(p), !.pos = 0, !.data = d]
    BY <1>1 DEF QueueWrite
  <2> HIDE DEF d
  <2> QED
    BY <2>1, <2>2, <2>3, <2>4, <2>5 DEF RequestOK, MediaType
<1>2. CASE ~WriteAccepted(m, a, Length(p))
  <2>1. WriteRefusal(m, a, Length(p)) \in MediaError
    BY DEF WriteRefusal, MediaError
  <2> QED
    BY <1>2, <2>1 DEF QueueWrite, RequestOK, MediaType
<1> QED
  BY <1>1, <1>2

\* So does dfu_flash_queue_erase, whose sectors are aligned too.
LEMMA QueueEraseOK ==
  ASSUME NEW m, RequestOK(m), NEW a
  PROVE  RequestOK(QueueErase(m, a))
<1>1. CASE EraseAccepted(m, a)
  <2>1. a \in AppCell /\ a % SectorCells = 0
    BY <1>1, DataAssumption DEF EraseAccepted, EraseRefusal, AddressValid
  <2>2. a \in Addr /\ 0 \in 0 .. PosMod - 1 /\ 0 \in 0 .. XferCells
    BY <2>1, Sizes DEF AppCell, Addr
  <2> QED
    BY <1>1, <2>1, <2>2 DEF QueueErase, RequestOK, MediaType
<1>2. CASE ~EraseAccepted(m, a)
  <2>1. EraseRefusal(m, a) \in MediaError
    BY DEF EraseRefusal, MediaError
  <2> QED
    BY <1>2, <2>1 DEF QueueErase, RequestOK, MediaType
<1> QED
  BY <1>1, <1>2

\* Every step of the interrupt is a call that leaves such a record.
LEMMA IsrOK ==
  ASSUME MediaInv, IsrNext
  PROVE  RequestOK(media') /\ UNCHANGED <<flash, sector, sectorAddr, mpc, loc>>
<1>1. CASE IsrBegin \/ IsrCancel
  BY <1>1, CancelOK DEF IsrBegin, IsrCancel, IsrCall
<1>2. CASE IsrFinish
  BY <1>2, FinishOK DEF IsrFinish, IsrCall
<1>3. RequestOK(media)
  BY DEF MediaInv, MediaTypeOK, JobInApp, RequestOK
<1>4. ASSUME NEW a \in HostAddrs, IsrErase(a)
      PROVE  RequestOK(media') /\ UNCHANGED <<flash, sector, sectorAddr, mpc, loc>>
  BY <1>3, <1>4, QueueEraseOK DEF IsrErase, IsrCall
<1>5. ASSUME NEW a \in HostAddrs, NEW p \in Payloads, IsrWrite(a, p) \/ IsrFirst(a, p)
      PROVE  RequestOK(media') /\ UNCHANGED <<flash, sector, sectorAddr, mpc, loc>>
  BY <1>3, <1>5, QueueWriteOK, CancelOK DEF IsrWrite, IsrFirst, IsrCall
<1> QED
  BY <1>1, <1>2, <1>4, <1>5 DEF IsrNext

\* Such a call keeps the invariant, wherever in a poll it lands.
LEMMA RequestKeepsMediaInv ==
  ASSUME MediaInv, RequestOK(media'), UNCHANGED <<flash, sector, sectorAddr, mpc, loc>>
  PROVE  MediaInv'
<1>1. MediaTypeOK'
  BY DEF RequestOK, MediaInv, MediaTypeOK
<1>2. JobInApp'
  BY DEF RequestOK, JobInApp
<1>3. CacheInApp'
  BY DEF RequestOK, MediaInv, CacheInApp
<1>4. LocalsInApp'
  BY DEF MediaInv, LocalsInApp
<1> QED
  BY <1>1, <1>2, <1>3, <1>4 DEF MediaInv

\* The statics after a reset satisfy the invariant over any flash.
LEMMA InitialStatics ==
  /\ InitMedia \in MediaType
  /\ [i \in 0 .. SectorCells - 1 |-> Junk] \in [0 .. SectorCells - 1 -> Cell]
  /\ 0 \in Addr /\ 0 % SectorCells = 0
  /\ NoLocals \in LocalsType
<1>1. 0 \in Addr /\ 0 \in 0 .. XferCells /\ 0 \in 0 .. PosMod - 1 /\ 0 \in 0 .. SectorCells
  BY Sizes DEF Addr
<1>2. [i \in 0 .. XferCells - 1 |-> Junk] \in [0 .. XferCells - 1 -> Cell]
  BY DataAssumption
<1>3. 0 % SectorCells = 0
  BY Sizes, Division
<1> QED
  BY <1>1, <1>2, <1>3, DataAssumption
     DEF InitMedia, MediaType, MediaError, TargetError, NoLocals, LocalsType

\* A power loss or reset at any step restores it.
LEMMA PowerLossKeepsMediaInv ==
  ASSUME MediaInv, PowerLoss
  PROVE  MediaInv'
<1>1. flash' \in [Addr -> Cell]
  BY DataAssumption DEF PowerLoss, PowerLossFlash, MediaInv, MediaTypeOK
<1>2. /\ media' = InitMedia /\ sectorAddr' = 0 /\ mpc' = "enter" /\ loc' = NoLocals
      /\ sector' = [i \in 0 .. SectorCells - 1 |-> Junk]
  BY DEF PowerLoss, ResetStatics
<1>3. MediaTypeOK'
  BY <1>1, <1>2, InitialStatics DEF MediaTypeOK, PollPc
<1>4. JobInApp' /\ CacheInApp'
  BY <1>2, InitialStatics DEF JobInApp, CacheInApp, InitMedia, BurnPc
<1>5. LocalsInApp'
  BY <1>2, LastPageInSector DEF LocalsInApp, NoLocals, FlushPc, BurnPc, ErasePc
<1> QED
  BY <1>3, <1>4, <1>5 DEF MediaInv

\* The statics at start-up satisfy it.
LEMMA InitMediaInv == MediaInit => MediaInv
<1> SUFFICES ASSUME MediaInit PROVE MediaInv
  OBVIOUS
<1>1. MediaTypeOK
  BY InitialStatics DEF MediaInit, MediaTypeOK, PollPc
<1>2. JobInApp /\ CacheInApp
  BY InitialStatics DEF MediaInit, JobInApp, CacheInApp, InitMedia, BurnPc
<1>3. LocalsInApp
  BY LastPageInSector DEF MediaInit, LocalsInApp, NoLocals, FlushPc, BurnPc, ErasePc
<1> QED
  BY <1>1, <1>2, <1>3 DEF MediaInv

\* The invariant is inductive.
LEMMA NextKeepsMediaInv == MediaInv /\ [MediaNext]_mediaVars => MediaInv'
<1> SUFFICES ASSUME MediaInv, [MediaNext]_mediaVars PROVE MediaInv'
  OBVIOUS
<1>1. CASE PollStep
  BY <1>1, PollKeepsMediaInv
<1>2. CASE PollAgain
  <2>1. mpc' = "enter" /\ loc' = NoLocals /\ UNCHANGED <<flash, sector, sectorAddr, media>>
    BY <1>2 DEF PollAgain
  <2>2. MediaTypeOK'
    BY <2>1, InitialStatics DEF MediaInv, MediaTypeOK, PollPc
  <2>3. JobInApp' /\ CacheInApp'
    BY <2>1 DEF MediaInv, JobInApp, CacheInApp, BurnPc
  <2>4. LocalsInApp'
    BY <2>1, LastPageInSector DEF LocalsInApp, NoLocals, FlushPc, BurnPc, ErasePc
  <2> QED
    BY <2>2, <2>3, <2>4 DEF MediaInv
<1>3. CASE IsrNext
  BY <1>3, IsrOK, RequestKeepsMediaInv
<1>4. CASE PowerLoss
  BY <1>4, PowerLossKeepsMediaInv
<1>5. CASE UNCHANGED mediaVars
  BY <1>5 DEF mediaVars, MediaInv, MediaTypeOK, JobInApp, CacheInApp, LocalsInApp
<1> QED
  BY <1>1, <1>2, <1>3, <1>4, <1>5 DEF MediaNext

\* In every reachable state the variables of dfu_flash.c have their types and
\* every address it works on is one of the application.
THEOREM MediaInvariant == MediaSpec => []MediaInv
  BY InitMediaInv, NextKeepsMediaInv, PTL DEF MediaSpec

\* In particular MediaTypeOK holds for every geometry, fault and race.
THEOREM MediaTypes == MediaSpec => []MediaTypeOK
<1>1. MediaInv => MediaTypeOK
  BY DEF MediaInv
<1> QED
  BY <1>1, MediaInvariant, PTL

(***************************************************************************)
(* The bootloader stays intact.                                            *)
(***************************************************************************)

\* The erase or program under way works on cells of the application.
LEMMA OpSectorInApp ==
  ASSUME MediaInv, mpc \in BurnPc, NEW a \in SectorAt(OpSector)
  PROVE  AppBase <= a
<1>1. OpSector \in Nat /\ AppBase <= OpSector
  BY Sizes DEF OpSector, MediaInv, MediaTypeOK, LocalsType, Addr, CacheInApp,
       LocalsInApp, BurnPc, ErasePc, FlushPc
<1> QED
  BY <1>1, Sizes DEF SectorAt

\* A step changes the flash in the sector under way only.
LEMMA FlashChanges ==
  ASSUME MediaInv, MediaNext, NEW a \in Addr, flash'[a] # flash[a]
  PROVE  mpc \in BurnPc /\ a \in SectorAt(OpSector)
<1>1. CASE PollStep
  <2>1. CASE EraseStart \/ EraseEnd
    BY <2>1 DEF EraseStart, EraseEnd, BurnPc
  <2>2. CASE ProgramPage \/ ProgramWrong \/ ProgramFailed
    BY <2>2 DEF ProgramPage, ProgramWrong, ProgramFailed, BurnPc, PageAt
  <2>3. CASE ~(EraseStart \/ EraseEnd \/ ProgramPage \/ ProgramWrong \/ ProgramFailed)
    BY <1>1, <2>3 DEF PollStep, PollReturn, PollErase, PollWrite, PollFinish, FlushClean,
         FlushSame, FlushProgram, EraseRefused, EraseFailed, VerifyPassed, VerifyFailed,
         EraseRelease, ErasePublish, WriteLookup, WriteLoad, WriteCopy, WriteSetDirty,
         WriteAdvance, FinishClear, FinishDone
  <2> QED
    BY <2>1, <2>2, <2>3
<1>2. CASE PowerLoss
  BY <1>2 DEF PowerLoss, PowerLossFlash, PageAt, BurnPc, MediaInv, MediaTypeOK
<1>3. CASE PollAgain
  BY <1>3 DEF PollAgain
<1>4. CASE IsrNext
  BY <1>4, IsrOK
<1> QED
  BY <1>1, <1>2, <1>3, <1>4 DEF MediaNext

\* No request, job, race, fault or power loss changes the bootloader.
THEOREM BootloaderStaysIntact == MediaSpec => BootloaderIntact
<1>1. ASSUME MediaInv, [MediaNext]_mediaVars
      PROVE  [\A a \in 0 .. AppBase - 1 : flash'[a] = flash[a]]_mediaVars
  <2> SUFFICES ASSUME MediaNext, NEW a \in 0 .. AppBase - 1, flash'[a] # flash[a]
               PROVE  FALSE
    BY <1>1
  <2>1. a \in Addr
    BY Sizes DEF Addr
  <2>2. mpc \in BurnPc /\ a \in SectorAt(OpSector)
    BY <1>1, <2>1, FlashChanges
  <2>3. AppBase <= a
    BY <1>1, <2>2, OpSectorInApp
  <2> QED
    BY <2>3, Sizes
<1> QED
  BY <1>1, MediaInvariant, PTL DEF MediaSpec, BootloaderIntact

(***************************************************************************)
(* The cache is coherent.                                                  *)
(***************************************************************************)

\* The sector under way is not one a clean cache stands for.
LEMMA OpSectorNotClean ==
  ASSUME MediaInv, CoherentInv, mpc \in BurnPc, media.valid, ~media.dirty,
         NEW a \in SectorAt(sectorAddr)
  PROVE  a \notin SectorAt(OpSector)
<1>1. loc.sub = "job"
  BY DEF CoherentInv, FlushedIsDirty, MediaInv, MediaTypeOK, LocalsType, LocalsInApp
<1>2. mpc \in ErasePc /\ loc.after = "erase"
  BY <1>1 DEF MediaInv, LocalsInApp, BurnPc, ErasePc
<1>3. sectorAddr # loc.addr
  BY <1>2 DEF CoherentInv, ErasedIsUncached, FlushPc, ErasePc
<1>4. /\ sectorAddr \in Nat /\ loc.addr \in Nat
      /\ sectorAddr % SectorCells = 0 /\ loc.addr % SectorCells = 0
  BY <1>2, Sizes
     DEF MediaInv, MediaTypeOK, LocalsType, CacheInApp, LocalsInApp, Addr, FlushPc, ErasePc
<1> QED
  BY <1>1, <1>3, <1>4, SectorsDisjoint DEF OpSector

\* A cache that keeps its flags, bytes and place stays coherent when a step
\* changes the flash.
LEMMA BurnKeepsCoherent ==
  ASSUME MediaInv, CoherentInv, MediaNext, mpc \in BurnPc,
         media'.valid => media.valid /\ media'.dirty = media.dirty,
         UNCHANGED <<sector, sectorAddr>>
  PROVE  CacheCoherent'
<1> SUFFICES ASSUME media'.valid, ~media'.dirty, NEW a \in SectorAt(sectorAddr)
             PROVE  flash'[a] = Cached(a)'
  BY DEF CacheCoherent, CacheMatchesFlash, SectorAt
<1>1. media.valid /\ ~media.dirty /\ mpc # "setDirty"
  BY DEF BurnPc
<1>2. flash[a] = Cached(a)
  BY <1>1 DEF CoherentInv, CacheCoherent, CacheMatchesFlash
<1>3. a \in Addr
  BY SectorInSpace DEF MediaInv, MediaTypeOK, CacheInApp
<1>4. flash'[a] = flash[a]
  BY <1>1, <1>3, FlashChanges, OpSectorNotClean
<1> QED
  BY <1>2, <1>4 DEF Cached

\* Any other step keeps a cache coherent that it leaves as it is, or drops.
LEMMA IdleKeepsCoherent ==
  ASSUME CacheCoherent, UNCHANGED <<flash, sector, sectorAddr>>,
         media'.valid => media.valid /\ media'.dirty = media.dirty,
         mpc = "setDirty" => mpc' = "setDirty"
  PROVE  CacheCoherent'
  BY DEF CacheCoherent, CacheMatchesFlash, Cached, SectorAt

\* A step of dfu_flash_poll keeps the cache coherent.
LEMMA PollKeepsCacheCoherent ==
  ASSUME MediaInv, CoherentInv, PollStep
  PROVE  CacheCoherent'
<1> USE DEF MediaInv, MediaTypeOK, MediaType, Goto
<1>0. CacheCoherent
  BY DEF CoherentInv
<1>1. CASE PollReturn
  BY <1>0, <1>1, IdleKeepsCoherent DEF PollReturn, Return
<1>2. CASE PollErase
  BY <1>0, <1>2, IdleKeepsCoherent DEF PollErase
<1>3. CASE PollWrite
  BY <1>0, <1>3, IdleKeepsCoherent DEF PollWrite
<1>4. CASE PollFinish
  BY <1>0, <1>4, IdleKeepsCoherent DEF PollFinish
<1>5. CASE FlushClean
  BY <1>0, <1>5, IdleKeepsCoherent DEF FlushClean, FlushReturn
<1>6. CASE FlushSame
  BY <1>6 DEF FlushSame, FlushReturn, CacheCoherent, CacheMatchesFlash, Cached, SectorAt
<1>7. CASE FlushProgram
  BY <1>0, <1>7, IdleKeepsCoherent DEF FlushProgram
<1>8. CASE EraseStart
  BY <1>8, BurnKeepsCoherent DEF EraseStart, MediaNext, PollStep, BurnPc
<1>9. CASE EraseRefused
  BY <1>0, <1>9, IdleKeepsCoherent DEF EraseRefused, OpFailed, Return
<1>10. CASE EraseEnd
  BY <1>10, BurnKeepsCoherent DEF EraseEnd, MediaNext, PollStep, BurnPc
<1>11. CASE EraseFailed
  BY <1>0, <1>11, IdleKeepsCoherent DEF EraseFailed, OpFailed, Return
<1>12. CASE ProgramPage
  BY <1>12, BurnKeepsCoherent DEF ProgramPage, NextPage, MediaNext, PollStep, BurnPc
<1>13. CASE ProgramWrong
  BY <1>13, BurnKeepsCoherent DEF ProgramWrong, NextPage, MediaNext, PollStep, BurnPc
<1>14. CASE ProgramFailed
  BY <1>14, BurnKeepsCoherent DEF ProgramFailed, OpFailed, Return, MediaNext, PollStep,
       BurnPc
<1>15. CASE VerifyPassed
  BY <1>15 DEF VerifyPassed, FlushReturn, CacheCoherent, CacheMatchesFlash, Cached, SectorAt
<1>16. CASE VerifyFailed
  BY <1>0, <1>16, IdleKeepsCoherent DEF VerifyFailed, OpFailed, Return
<1>17. CASE EraseRelease
  BY <1>0, <1>17, IdleKeepsCoherent DEF EraseRelease
<1>18. CASE ErasePublish
  BY <1>0, <1>18, IdleKeepsCoherent DEF ErasePublish, Return
<1>19. CASE WriteLookup
  BY <1>0, <1>19, IdleKeepsCoherent DEF WriteLookup
<1>20. CASE WriteLoad
  <2> DEFINE s == SectorBase(loc.addr)
  <2>0. s \in Nat
    <3>1. loc.addr \in Nat
      BY Sizes DEF LocalsType, Addr
    <3> QED
      BY <3>1, SectorBaseFacts
  <2>1. /\ sectorAddr' = s /\ UNCHANGED flash
        /\ sector' = [i \in 0 .. SectorCells - 1 |-> flash[s + i]]
    BY <1>20 DEF WriteLoad
  <2> HIDE DEF s
  <2>2. ASSUME NEW a \in SectorAt(s) PROVE flash[a] = sector'[a - s]
    <3>1. a - s \in 0 .. SectorCells - 1 /\ s + (a - s) = a
      BY <2>0, <2>2, Sizes DEF SectorAt
    <3> QED
      BY <2>1, <3>1
  <2> QED
    BY <2>1, <2>2 DEF CacheCoherent, CacheMatchesFlash, Cached, SectorAt
<1>21. CASE WriteCopy
  BY <1>21 DEF WriteCopy, CacheCoherent
<1>22. CASE WriteSetDirty
  BY <1>22 DEF WriteSetDirty, CacheCoherent
<1>23. CASE WriteAdvance
  BY <1>0, <1>23, IdleKeepsCoherent DEF WriteAdvance, Return
<1>24. CASE FinishClear
  BY <1>0, <1>24, IdleKeepsCoherent DEF FinishClear
<1>25. CASE FinishDone
  BY <1>0, <1>25, IdleKeepsCoherent DEF FinishDone, Return
<1> QED
  BY <1>1, <1>2, <1>3, <1>4, <1>5, <1>6, <1>7, <1>8, <1>9, <1>10, <1>11, <1>12, <1>13,
       <1>14, <1>15, <1>16, <1>17, <1>18, <1>19, <1>20, <1>21, <1>22, <1>23, <1>24,
       <1>25 DEF PollStep

\* A step of dfu_flash_poll keeps the other two parts of CoherentInv.
LEMMA PollKeepsFlushes ==
  ASSUME MediaInv, CoherentInv, PollStep
  PROVE  FlushedIsDirty' /\ ErasedIsUncached'
<1> USE DEF MediaInv, MediaTypeOK, MediaType, LocalsType, NoLocals, Goto, CoherentInv,
            FlushedIsDirty, ErasedIsUncached, BurnPc, FlushPc, LocalsInApp
<1>1. CASE PollReturn
  BY <1>1 DEF PollReturn, Return
<1>2. CASE PollErase
  BY <1>2 DEF PollErase
<1>3. CASE PollWrite
  BY <1>3 DEF PollWrite
<1>4. CASE PollFinish
  BY <1>4 DEF PollFinish
<1>5. CASE FlushClean
  BY <1>5 DEF FlushClean, FlushReturn
<1>6. CASE FlushSame
  BY <1>6 DEF FlushSame, FlushReturn
<1>7. CASE FlushProgram
  BY <1>7 DEF FlushProgram
<1>8. CASE EraseStart
  BY <1>8 DEF EraseStart
<1>9. CASE EraseRefused
  BY <1>9 DEF EraseRefused, OpFailed, Return
<1>10. CASE EraseEnd
  BY <1>10 DEF EraseEnd
<1>11. CASE EraseFailed
  BY <1>11 DEF EraseFailed, OpFailed, Return
<1>12. CASE ProgramPage
  BY <1>12 DEF ProgramPage, NextPage
<1>13. CASE ProgramWrong
  BY <1>13 DEF ProgramWrong, NextPage
<1>14. CASE ProgramFailed
  BY <1>14 DEF ProgramFailed, OpFailed, Return
<1>15. CASE VerifyPassed
  BY <1>15 DEF VerifyPassed, FlushReturn
<1>16. CASE VerifyFailed
  BY <1>16 DEF VerifyFailed, OpFailed, Return
<1>17. CASE EraseRelease
  BY <1>17 DEF EraseRelease
<1>18. CASE ErasePublish
  BY <1>18 DEF ErasePublish, Return
<1>19. CASE WriteLookup
  BY <1>19 DEF WriteLookup
<1>20. CASE WriteLoad
  BY <1>20 DEF WriteLoad
<1>21. CASE WriteCopy
  BY <1>21 DEF WriteCopy
<1>22. CASE WriteSetDirty
  BY <1>22 DEF WriteSetDirty
<1>23. CASE WriteAdvance
  BY <1>23 DEF WriteAdvance, Return
<1>24. CASE FinishClear
  BY <1>24 DEF FinishClear
<1>25. CASE FinishDone
  BY <1>25 DEF FinishDone, Return
<1> QED
  BY <1>1, <1>2, <1>3, <1>4, <1>5, <1>6, <1>7, <1>8, <1>9, <1>10, <1>11, <1>12, <1>13,
       <1>14, <1>15, <1>16, <1>17, <1>18, <1>19, <1>20, <1>21, <1>22, <1>23, <1>24,
       <1>25 DEF PollStep

\* A call of the interrupt leaves the cache as coherent as it was.
LEMMA RequestKeepsCoherentInv ==
  ASSUME CoherentInv, RequestOK(media'), UNCHANGED <<flash, sector, sectorAddr, mpc, loc>>
  PROVE  CoherentInv'
<1>1. CacheCoherent'
  BY IdleKeepsCoherent DEF RequestOK, CoherentInv
<1> QED
  BY <1>1 DEF RequestOK, CoherentInv, FlushedIsDirty, ErasedIsUncached

\* CoherentInv is inductive, given the first invariant.
LEMMA NextKeepsCoherentInv == MediaInv /\ CoherentInv /\ [MediaNext]_mediaVars => CoherentInv'
<1> SUFFICES ASSUME MediaInv, CoherentInv, [MediaNext]_mediaVars PROVE CoherentInv'
  OBVIOUS
<1>1. CASE PollStep
  BY <1>1, PollKeepsCacheCoherent, PollKeepsFlushes DEF CoherentInv
<1>2. CASE PollAgain
  <2>1. mpc = "polled" /\ mpc' = "enter" /\ UNCHANGED <<flash, sector, sectorAddr, media>>
    BY <1>2 DEF PollAgain
  <2>2. CacheCoherent'
    BY <2>1, IdleKeepsCoherent DEF CoherentInv
  <2> QED
    BY <2>1, <2>2 DEF CoherentInv, FlushedIsDirty, ErasedIsUncached, BurnPc, FlushPc
<1>3. CASE IsrNext
  BY <1>3, IsrOK, RequestKeepsCoherentInv
<1>4. CASE PowerLoss
  <2>1. ~media'.valid
    BY <1>4 DEF PowerLoss, ResetStatics, InitMedia
  <2> QED
    BY <2>1 DEF CoherentInv, CacheCoherent, FlushedIsDirty, ErasedIsUncached
<1>5. CASE UNCHANGED mediaVars
  BY <1>5 DEF mediaVars, CoherentInv, FlushedIsDirty, ErasedIsUncached, CacheCoherent,
       CacheMatchesFlash, Cached, SectorAt
<1> QED
  BY <1>1, <1>2, <1>3, <1>4, <1>5 DEF MediaNext

\* Whatever is requested, dropped in mid-poll, refused or fails, a clean valid
\* cache equals the sector it stands for.
THEOREM CacheStaysCoherent == MediaSpec => []CacheCoherent
<1>1. MediaInit => CoherentInv
  BY DEF MediaInit, InitMedia, CoherentInv, CacheCoherent, FlushedIsDirty, ErasedIsUncached
<1>2. CoherentInv => CacheCoherent
  BY DEF CoherentInv
<1> QED
  BY <1>1, <1>2, NextKeepsCoherentInv, MediaInvariant, PTL DEF MediaSpec

(***************************************************************************)
(* Only erased pages are programmed.                                       *)
(***************************************************************************)

\* Steps that do not reach, or that leave, the programming of pages.
LEMMA ErasedUnlessProgramming ==
  ASSUME MediaInv, PollStep,
         ~(EraseEnd \/ ProgramPage \/ ProgramWrong)
  PROVE  mpc' # "program"
<1>1. loc.after \in {"none", "write", "erase", "finish"}
  BY DEF MediaInv, MediaTypeOK, LocalsType
<1>2. mpc = "flush" => loc.after # "none"
  BY DEF MediaInv, LocalsInApp, FlushPc
<1>3. mpc = "verify" => loc.after # "none"
  BY DEF MediaInv, LocalsInApp, FlushPc
<1>4. CASE FlushClean \/ FlushSame \/ VerifyPassed
  <2>1. PICK r \in {"idle", "progress"} : FlushReturn(r)
    BY <1>4 DEF FlushClean, FlushSame, VerifyPassed
  <2>2. loc.after # "none"
    BY <1>2, <1>3, <1>4 DEF FlushClean, FlushSame, VerifyPassed
  <2> QED
    BY <1>1, <2>1, <2>2 DEF FlushReturn, Goto
<1>5. CASE EraseRefused \/ EraseFailed \/ ProgramFailed \/ VerifyFailed
  BY <1>5 DEF EraseRefused, EraseFailed, ProgramFailed, VerifyFailed, OpFailed, Return, Goto
<1>6. CASE PollReturn \/ PollErase \/ PollWrite \/ PollFinish \/ FlushProgram \/ EraseStart
  BY <1>6
     DEF PollReturn, PollErase, PollWrite, PollFinish, FlushProgram, EraseStart, Return,
     Goto
<1>7. CASE \/ EraseRelease \/ ErasePublish \/ FinishClear \/ FinishDone
           \/ WriteLookup \/ WriteLoad \/ WriteCopy \/ WriteSetDirty \/ WriteAdvance
  BY <1>7
     DEF EraseRelease, ErasePublish, FinishClear, FinishDone, WriteLookup, WriteLoad,
         WriteCopy, WriteSetDirty, WriteAdvance, Return, Goto
<1> QED
  BY <1>4, <1>5, <1>6, <1>7 DEF PollStep

\* Once the sector is erased every page is; then each page is programmed once.
LEMMA PollKeepsErasedPages ==
  ASSUME MediaInv, ProgramsErasedPages, PollStep
  PROVE  ProgramsErasedPages'
<1>0. SUFFICES ASSUME mpc' = "program", NEW a \in SectorAt(OpSector'),
                      (a - OpSector') \div PageCells >= loc'.page
               PROVE  flash'[a] = Erased
  BY DEF ProgramsErasedPages, SectorAt
<1>1. CASE EraseEnd
  <2>1. loc.sub = "flush" /\ loc'.sub = "flush" /\ UNCHANGED sectorAddr
    BY <1>0, <1>1 DEF EraseEnd, Goto, MediaInv, MediaTypeOK, LocalsType
  <2>2. OpSector' = OpSector /\ OpSector = sectorAddr
    BY <2>1 DEF OpSector
  <2>3. a \in Addr
    BY <2>2, SectorInSpace DEF MediaInv, MediaTypeOK, CacheInApp
  <2> QED
    BY <1>1, <2>2, <2>3 DEF EraseEnd
<1>2. CASE ProgramPage \/ ProgramWrong
  <2>1. /\ mpc = "program" /\ NextPage /\ UNCHANGED sectorAddr
        /\ \A b \in Addr : b \notin PageAt(loc.page) => flash'[b] = flash[b]
    BY <1>2 DEF ProgramPage, ProgramWrong
  <2>2. /\ loc.sub = "flush" /\ loc'.sub = "flush"
        /\ loc.page \in Nat /\ loc'.page = loc.page + 1
    BY <1>0, <2>1, Sizes DEF NextPage, Goto, MediaInv, MediaTypeOK, LocalsType, LocalsInApp
  <2>3. OpSector' = OpSector /\ OpSector = sectorAddr /\ sectorAddr \in Nat
    BY <2>1, <2>2, Sizes DEF OpSector, MediaInv, MediaTypeOK, Addr
  <2>4. a \in Addr
    BY <2>3, SectorInSpace DEF MediaInv, MediaTypeOK, CacheInApp
  <2> DEFINE k == (a - OpSector) \div PageCells
  <2>5. k \in Nat
    <3>1. a - OpSector \in Nat
      BY <2>3, Sizes DEF SectorAt
    <3> QED
      BY <3>1, Sizes, Division
  <2>6. k >= loc.page + 1
    BY <1>0, <2>2, <2>3
  <2>7. a \notin PageAt(loc.page)
    BY <2>2, <2>5, <2>6 DEF PageAt
  <2>8. flash[a] = Erased
    BY <2>1, <2>2, <2>3, <2>5, <2>6 DEF ProgramsErasedPages
  <2> QED
    BY <2>1, <2>4, <2>7, <2>8
<1> QED
  BY <1>0, <1>1, <1>2, ErasedUnlessProgramming

\* Neither a request nor a power loss can interfere with that.
LEMMA NextKeepsErasedPages ==
  MediaInv /\ ProgramsErasedPages /\ [MediaNext]_mediaVars => ProgramsErasedPages'
<1> SUFFICES ASSUME MediaInv, ProgramsErasedPages, [MediaNext]_mediaVars
             PROVE  ProgramsErasedPages'
  OBVIOUS
<1>1. CASE PollStep
  BY <1>1, PollKeepsErasedPages
<1>2. CASE PollAgain
  BY <1>2 DEF PollAgain, ProgramsErasedPages
<1>3. CASE IsrNext
  BY <1>3, IsrOK DEF ProgramsErasedPages, OpSector, SectorAt
<1>4. CASE PowerLoss
  BY <1>4 DEF PowerLoss, ResetStatics, ProgramsErasedPages
<1>5. CASE UNCHANGED mediaVars
  BY <1>5 DEF mediaVars, ProgramsErasedPages, OpSector, SectorAt
<1> QED
  BY <1>1, <1>2, <1>3, <1>4, <1>5 DEF MediaNext

\* flash_program_sector never programs a page that is not erased, whatever
\* the interrupt does to the job or the cache's flags while it runs.
THEOREM OnlyErasedPagesProgrammed == MediaSpec => []ProgramsErasedPages
<1>1. MediaInit => ProgramsErasedPages
  BY DEF MediaInit, ProgramsErasedPages
<1> QED
  BY <1>1, NextKeepsErasedPages, MediaInvariant, PTL DEF MediaSpec
=============================================================================
