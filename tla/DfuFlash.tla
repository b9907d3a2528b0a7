------------------------------ MODULE DfuFlash ------------------------------
(***************************************************************************)
(* The flash media backend (User/dfu_flash.c).                             *)
(*                                                                         *)
(* Two threads share its static variables.  The USB interrupt handler      *)
(* queues one job (a write of at most one transfer, or the erase of one    *)
(* sector), asks for the final flush, cancels, or begins a new download;   *)
(* each of its calls runs to completion.  The main loop calls              *)
(* dfu_flash_poll, which moves the queued bytes into a one-sector          *)
(* write-back cache and erases, programs and verifies flash sectors.  The  *)
(* interrupt can preempt it between any two accesses of shared variables,  *)
(* so dfu_flash_poll is one action per such access, sequenced by mpc.      *)
(*                                                                         *)
(* A cell stands for the smallest unit the properties tell apart.  Code    *)
(* runs from RAM, so the interrupt is served while the flash is busy.      *)
(***************************************************************************)
EXTENDS Integers, FiniteSets

CONSTANTS
  AppBase,       \* DFU_FLASH_APP_BASE
  AppEnd,        \* DFU_FLASH_APP_END
  Top,           \* end of the modelled address space
  SectorCells,   \* DFU_FLASH_ERASE_SIZE
  PageCells,     \* FLASH_PROGRAM_SIZE
  XferCells,     \* DFU_FLASH_XFER_SIZE
  PosMod,        \* number of values of the 16-bit g_job.pos
  Cell,          \* contents a cell can have
  Erased,        \* DFU_FLASH_ERASED_WORD
  Junk,          \* content left by an interrupted or failed operation
  DualBank,      \* the DBMODE bit that flash_target_valid reads
  Faults,        \* the ways the flash controller may fail, see FaultKinds
  HostAddrs,     \* addresses the host may ask for, valid or not
  Payloads,      \* payloads the host may send
  Races          \* the narrow windows the environment exercises, see Windows

FaultKinds == {"refuse",   \* busy or write protected: array untouched, error
               "report",   \* the operation ends with an error flag or times out
               "silent"}   \* the operation ends well but the array is wrong

\* Interrupts that only the timing of a real bus keeps apart from the main
\* thread.  A run states which of them it lets happen.
Windows == {"cancel",    \* a cancel or begin inside a poll that holds a job
            "publish",   \* a status request between dfu_flash.c:412 and :419
            "teardown",  \* a request inside force_idle or resume_dfu_idle
            "leaving"}   \* a request after dfu_mode decided to boot

ASSUME GeometryAssumption ==
  /\ {AppBase, AppEnd, Top, SectorCells, PageCells, XferCells, PosMod} \subseteq Nat \ {0}
  /\ AppBase < AppEnd
  /\ AppBase % SectorCells = 0 /\ AppEnd % SectorCells = 0 /\ Top % SectorCells = 0
  /\ SectorCells % PageCells = 0
  /\ XferCells < PosMod
  /\ AppEnd + PosMod <= Top

ASSUME DataAssumption ==
  /\ Erased \in Cell /\ Junk \in Cell /\ Erased # Junk
  /\ DualBank \in BOOLEAN
  /\ Faults \subseteq FaultKinds /\ Races \subseteq Windows
  /\ HostAddrs \subseteq Nat
  /\ \A p \in Payloads : \E n \in 1 .. XferCells : p \in [0 .. n - 1 -> Cell]

Addr    == 0 .. Top - 1
AppCell == AppBase .. AppEnd - 1

\* addr & ~(DFU_FLASH_ERASE_SIZE - 1) and the cells of the sector there.
SectorBase(a) == a - (a % SectorCells)
SectorAt(s)   == s .. s + SectorCells - 1

\* A payload is a function on 0 .. n - 1, the bytes of one data stage.
Length(p) == Cardinality(DOMAIN p)

VARIABLES
  flash,       \* the flash array
  sector,      \* g_sector: the cached sector's bytes
  sectorAddr,  \* g_sector_addr
  media,       \* g_job, the cache flags, g_finishing, g_all_done and g_error
  mpc,         \* where the main thread is
  loc          \* the main thread's live locals

mainVars  == <<sector, sectorAddr, mpc, loc>>
mediaVars == <<flash, sector, sectorAddr, media, mpc, loc>>

MediaError == {"none", "address", "erase", "write", "verify", "busy", "target"}

MediaType ==
  [type : {"none", "write", "erase"}, addr : Addr, len : 0 .. XferCells,
   pos : 0 .. PosMod - 1, data : [0 .. XferCells - 1 -> Cell],
   valid : BOOLEAN, dirty : BOOLEAN, finishing : BOOLEAN, done : BOOLEAN,
   err : MediaError]

(***************************************************************************)
(* Calls made by the interrupt handler, as functions of the media record.  *)
(***************************************************************************)
TargetError == IF DualBank THEN "none" ELSE "target"

Busy(m) == m.type # "none" \/ m.finishing

\* Mutants: the upper bound, the lower bound or the last cell is not checked.
OnlyAboveBase(a, n) == a >= AppBase
OnlyBelowEnd(a, n)  == a < AppEnd /\ n <= AppEnd - a
EndIncluded(a, n)   == a \in AppBase .. AppEnd

AddressValid(a, n) == a \in AppCell /\ n <= AppEnd - a

\* Mutant: cancel forgets that the cached bytes no longer count.
CancelKeepsCache(m) ==
  [m EXCEPT !.type = "none", !.dirty = FALSE, !.finishing = FALSE,
            !.done = FALSE, !.err = TargetError]

Cancel(m) ==
  [m EXCEPT !.type = "none", !.valid = FALSE, !.dirty = FALSE,
            !.finishing = FALSE, !.done = FALSE, !.err = TargetError]

\* dfu_flash_begin also clears the progress counters and the debug record.
Begin(m) == Cancel(m)

WriteRefusal(m, a, n) ==
  CASE ~DualBank -> "target"
    [] DualBank /\ ~AddressValid(a, n) -> "address"
    [] DualBank /\ AddressValid(a, n) /\ Busy(m) -> "busy"
    [] OTHER -> "none"

WriteAccepted(m, a, n) == WriteRefusal(m, a, n) = "none"

\* memcpy fills the head of g_job.data and leaves its tail as it was.
QueueWrite(m, a, p) ==
  IF WriteAccepted(m, a, Length(p))
  THEN [m EXCEPT !.type = "write", !.addr = a, !.len = Length(p), !.pos = 0,
                 !.data = [i \in DOMAIN m.data |-> IF i \in DOMAIN p THEN p[i] ELSE m.data[i]]]
  ELSE [m EXCEPT !.err = WriteRefusal(m, a, Length(p))]

EraseRefusal(m, a) ==
  CASE ~DualBank -> "target"
    [] DualBank /\ ~(AddressValid(a, SectorCells) /\ a % SectorCells = 0) -> "address"
    [] DualBank /\ AddressValid(a, SectorCells) /\ a % SectorCells = 0 /\ Busy(m) -> "busy"
    [] OTHER -> "none"

EraseAccepted(m, a) == EraseRefusal(m, a) = "none"

QueueErase(m, a) ==
  IF EraseAccepted(m, a)
  THEN [m EXCEPT !.type = "erase", !.addr = a, !.len = 0, !.pos = 0]
  ELSE [m EXCEPT !.err = EraseRefusal(m, a)]

Finish(m) == [m EXCEPT !.finishing = TRUE, !.done = FALSE]

(***************************************************************************)
(* The main thread.  Locals: addr, pos, len and chunk of the job being     *)
(* polled; after, the code flush_sector returns to; sub, what an erase     *)
(* belongs to; page, the next page to program; ret, the poll's result.     *)
(***************************************************************************)
NoLocals ==
  [addr |-> 0, pos |-> 0, len |-> 0, chunk |-> 0, after |-> "none",
   sub |-> "none", page |-> 0, ret |-> "none"]

LocalsType ==
  [addr : Addr, pos : 0 .. PosMod - 1, len : 0 .. XferCells,
   chunk : 0 .. SectorCells, after : {"none", "write", "erase", "finish"},
   sub : {"none", "flush", "job"}, page : 0 .. SectorCells,
   ret : MediaError \cup {"idle", "progress", "failed"}]

PollPc == {"enter", "polled", "flush", "prepare", "erasing", "program",
           "verify", "eraseDone", "erasePublish", "lookup", "load", "copy",
           "setDirty", "advance", "finishClear", "finishDone"}

Goto(label) == mpc' = label

Return(r) == Goto("polled") /\ loc' = [NoLocals EXCEPT !.ret = r]

\* remain is unsigned: when pos has run past len it is huge, and the chunk
\* then reaches to the end of the sector.
Remain(pos, len) == IF pos <= len THEN len - pos ELSE SectorCells
\* Mutant: the offset in the sector is forgotten.
ChunkIgnoresOffset(a, pos, len) ==
  IF SectorCells > Remain(pos, len) THEN Remain(pos, len) ELSE SectorCells

Chunk(a, pos, len) ==
  LET room == SectorBase(a) + SectorCells - a
  IN  IF room > Remain(pos, len) THEN Remain(pos, len) ELSE room

\* dfu_flash_poll up to its first slow call.  An interrupt between two of
\* these adjacent loads has the effect of one before or after all of them.
PollReturn ==
  /\ mpc = "enter"
  /\ media.err # "none" \/ ~Busy(media)
  /\ Return(IF media.err # "none" THEN "failed" ELSE "idle")
  /\ UNCHANGED <<flash, sector, sectorAddr, media>>

\* Mutant: erasing the cached sector leaves its stale bytes valid.
PollEraseKeepsCache ==
  LET hit == media.valid /\ sectorAddr = media.addr
  IN  /\ mpc = "enter" /\ media.err = "none" /\ media.type = "erase"
      /\ media' = IF hit THEN [media EXCEPT !.dirty = FALSE] ELSE media
      /\ loc' = [loc EXCEPT !.addr = media.addr, !.after = "erase",
                            !.sub = IF hit THEN "job" ELSE "none", !.ret = "none"]
      /\ Goto(IF hit THEN "prepare" ELSE "flush")
      /\ UNCHANGED <<flash, sector, sectorAddr>>

PollErase ==
  LET hit == media.valid /\ sectorAddr = media.addr
  IN  /\ mpc = "enter" /\ media.err = "none" /\ media.type = "erase"
      /\ media' = IF hit THEN [media EXCEPT !.valid = FALSE, !.dirty = FALSE] ELSE media
      /\ loc' = [loc EXCEPT !.addr = media.addr, !.after = "erase",
                            !.sub = IF hit THEN "job" ELSE "none", !.ret = "none"]
      /\ Goto(IF hit THEN "prepare" ELSE "flush")
      /\ UNCHANGED <<flash, sector, sectorAddr>>

PollWrite ==
  LET a == media.addr + media.pos
  IN  /\ mpc = "enter" /\ media.err = "none" /\ media.type = "write"
      /\ loc' = [loc EXCEPT !.addr = a, !.pos = media.pos, !.len = media.len,
                            !.chunk = Chunk(a, media.pos, media.len),
                            !.after = "write", !.ret = "none"]
      /\ Goto("lookup")
      /\ UNCHANGED <<flash, sector, sectorAddr, media>>

\* Mutant: the end of the download does not flush the cache.
PollFinishUnflushed ==
  /\ mpc = "enter" /\ media.err = "none" /\ media.type = "none" /\ media.finishing
  /\ loc' = [loc EXCEPT !.after = "finish", !.ret = "none"]
  /\ Goto("finishClear")
  /\ UNCHANGED <<flash, sector, sectorAddr, media>>

PollFinish ==
  /\ mpc = "enter" /\ media.err = "none" /\ media.type = "none" /\ media.finishing
  /\ loc' = [loc EXCEPT !.after = "finish", !.ret = "none"]
  /\ Goto("flush")
  /\ UNCHANGED <<flash, sector, sectorAddr, media>>

\* flush_sector returns to its caller: r says whether it wrote anything.
FlushReturn(r) ==
  LET next == [erase |-> "prepare", write |-> "load", finish |-> "finishClear"]
  IN  /\ Goto(next[loc.after])
      /\ loc' = [loc EXCEPT !.page = 0, !.ret = r,
                            !.sub = IF loc.after = "erase" THEN "job" ELSE "none"]

Cached(a) == sector[a - sectorAddr]
CacheMatchesFlash == \A a \in SectorAt(sectorAddr) : flash[a] = Cached(a)

FlushClean ==
  /\ mpc = "flush" /\ ~(media.valid /\ media.dirty)
  /\ FlushReturn("idle")
  /\ UNCHANGED <<flash, sector, sectorAddr, media>>

FlushSame ==
  /\ mpc = "flush" /\ media.valid /\ media.dirty /\ CacheMatchesFlash
  /\ media' = [media EXCEPT !.dirty = FALSE]
  /\ FlushReturn("idle")
  /\ UNCHANGED <<flash, sector, sectorAddr>>

FlushProgram ==
  /\ mpc = "flush" /\ media.valid /\ media.dirty /\ ~CacheMatchesFlash
  /\ loc' = [loc EXCEPT !.sub = "flush"]
  /\ Goto("prepare")
  /\ UNCHANGED <<flash, sector, sectorAddr, media>>

\* The sector the running erase or program works on, and how its failure is
\* reported: flush_sector sets g_error, the erase job first clears the job.
OpSector == IF loc.sub = "flush" THEN sectorAddr ELSE loc.addr

OpFailed(e) ==
  \/ /\ loc.sub = "flush"
     /\ media' = [media EXCEPT !.err = e]
     /\ Return("failed")
  \/ /\ loc.sub = "job"
     /\ loc' = [loc EXCEPT !.ret = e]
     /\ Goto("eraseDone")
     /\ UNCHANGED media

\* From the STRT bit on, the sector's content is undefined until BSY clears.
\* The target test flash_prepare repeats cannot fail after a job was accepted.
EraseStart ==
  /\ mpc = "prepare"
  /\ flash' = [a \in Addr |-> IF a \in SectorAt(OpSector) THEN Junk ELSE flash[a]]
  /\ Goto("erasing")
  /\ UNCHANGED <<sector, sectorAddr, media, loc>>

\* Mutant: a refused erase is taken for a finished one.
EraseRefusalIgnored ==
  /\ mpc = "prepare" /\ "refuse" \in Faults
  /\ Goto(IF loc.sub = "flush" THEN "program" ELSE "eraseDone")
  /\ UNCHANGED <<flash, sector, sectorAddr, media, loc>>

EraseRefused ==
  /\ mpc = "prepare" /\ "refuse" \in Faults
  /\ OpFailed("erase")
  /\ UNCHANGED <<flash, sector, sectorAddr>>

EraseEnd ==
  /\ mpc = "erasing"
  /\ flash' = [a \in Addr |-> IF a \in SectorAt(OpSector) THEN Erased ELSE flash[a]]
  /\ Goto(IF loc.sub = "flush" THEN "program" ELSE "eraseDone")
  /\ loc' = [loc EXCEPT !.ret = "none"]
  /\ UNCHANGED <<sector, sectorAddr, media>>

\* Either the controller reports the failure, or the word loop finds it.
EraseFailed ==
  /\ mpc = "erasing"
  /\ \/ "report" \in Faults /\ OpFailed("erase")
     \/ "silent" \in Faults /\ OpFailed("verify")
  /\ UNCHANGED <<flash, sector, sectorAddr>>

PageAt(k) == {a \in SectorAt(OpSector) : (a - OpSector) \div PageCells = k}
LastPage  == (SectorCells \div PageCells) - 1

NextPage ==
  /\ loc' = [loc EXCEPT !.page = IF loc.page = LastPage THEN 0 ELSE loc.page + 1]
  /\ Goto(IF loc.page = LastPage THEN "verify" ELSE "program")

ProgramPage ==
  /\ mpc = "program"
  /\ flash' = [a \in Addr |-> IF a \in PageAt(loc.page) THEN Cached(a) ELSE flash[a]]
  /\ NextPage
  /\ UNCHANGED <<sector, sectorAddr, media>>

ProgramWrong ==
  /\ mpc = "program" /\ "silent" \in Faults
  /\ flash' = [a \in Addr |-> IF a \in PageAt(loc.page) THEN Junk ELSE flash[a]]
  /\ NextPage
  /\ UNCHANGED <<sector, sectorAddr, media>>

ProgramFailed ==
  /\ mpc = "program"
  /\ \/ /\ "refuse" \in Faults
        /\ flash' = flash
     \/ /\ "report" \in Faults
        /\ flash' = [a \in Addr |-> IF a \in PageAt(loc.page) THEN Junk ELSE flash[a]]
  /\ OpFailed("write")
  /\ UNCHANGED <<sector, sectorAddr>>

VerifyPassed ==
  /\ mpc = "verify" /\ CacheMatchesFlash
  /\ media' = [media EXCEPT !.dirty = FALSE]
  /\ FlushReturn("progress")
  /\ UNCHANGED <<flash, sector, sectorAddr>>

VerifyFailed ==
  /\ mpc = "verify" /\ ~CacheMatchesFlash
  /\ OpFailed("verify")
  /\ UNCHANGED <<flash, sector, sectorAddr>>

\* dfu_flash.c:412 releases the job before lines 413-419 publish its error.
EraseRelease ==
  /\ mpc = "eraseDone"
  /\ media' = [media EXCEPT !.type = "none"]
  /\ Goto("erasePublish")
  /\ UNCHANGED <<flash, sector, sectorAddr, loc>>

\* Mutant: the result of an erase job is never looked at.
EraseResultIgnored ==
  /\ mpc = "erasePublish"
  /\ Return("progress")
  /\ UNCHANGED <<flash, sector, sectorAddr, media>>

ErasePublish ==
  /\ mpc = "erasePublish"
  /\ media' = IF loc.ret = "none" THEN media ELSE [media EXCEPT !.err = loc.ret]
  /\ Return(IF loc.ret = "none" THEN "progress" ELSE "failed")
  /\ UNCHANGED <<flash, sector, sectorAddr>>

\* Mutant: any valid cache counts as a hit.
LookupIgnoresAddress ==
  /\ mpc = "lookup"
  /\ Goto(IF media.valid THEN "copy" ELSE "flush")
  /\ UNCHANGED <<flash, sector, sectorAddr, media, loc>>

WriteLookup ==
  /\ mpc = "lookup"
  /\ Goto(IF media.valid /\ sectorAddr = SectorBase(loc.addr) THEN "copy" ELSE "flush")
  /\ UNCHANGED <<flash, sector, sectorAddr, media, loc>>

WriteLoad ==
  LET s == SectorBase(loc.addr)
  IN  /\ mpc = "load"
      /\ sector' = [i \in 0 .. SectorCells - 1 |-> flash[s + i]]
      /\ sectorAddr' = s
      /\ media' = [media EXCEPT !.valid = TRUE, !.dirty = FALSE]
      /\ Goto("copy")
      /\ UNCHANGED <<flash, loc>>

\* g_job.pos and g_job.len are not volatile: the compiled code may use the
\* values loaded at the start of the poll or load them again.
PosReads == {loc.pos, media.pos}
LenReads == {loc.len, media.len}

\* Reads past g_job.data fetch whatever follows it in RAM.
JobCell(i) == IF i < XferCells THEN media.data[i] ELSE Junk

WriteCopy ==
  LET off == loc.addr - SectorBase(loc.addr)
  IN  /\ mpc = "copy"
      /\ \E p \in PosReads :
           /\ sector' = [i \in 0 .. SectorCells - 1 |->
                           IF i \in off .. off + loc.chunk - 1
                           THEN JobCell(p + i - off) ELSE sector[i]]
           /\ loc' = [loc EXCEPT !.pos = p]
      /\ Goto("setDirty")
      /\ UNCHANGED <<flash, sectorAddr, media>>

WriteSetDirty ==
  /\ mpc = "setDirty"
  /\ media' = [media EXCEPT !.dirty = TRUE]
  /\ Goto("advance")
  /\ UNCHANGED <<flash, sector, sectorAddr, loc>>

\* Mutant: off by one in the test for the end of the job.
AdvanceMissesEnd ==
  /\ mpc = "advance"
  /\ \E p \in PosReads, n \in LenReads :
       LET q == (p + loc.chunk) % PosMod
       IN  media' = [media EXCEPT !.pos = q, !.type = IF q > n THEN "none" ELSE @]
  /\ Return("progress")
  /\ UNCHANGED <<flash, sector, sectorAddr>>

WriteAdvance ==
  /\ mpc = "advance"
  /\ \E p \in PosReads, n \in LenReads :
       LET q == (p + loc.chunk) % PosMod
       IN  media' = [media EXCEPT !.pos = q, !.type = IF q = n THEN "none" ELSE @]
  /\ Return("progress")
  /\ UNCHANGED <<flash, sector, sectorAddr>>

FinishClear ==
  /\ mpc = "finishClear"
  /\ media' = [media EXCEPT !.finishing = FALSE]
  /\ Goto("finishDone")
  /\ UNCHANGED <<flash, sector, sectorAddr, loc>>

FinishDone ==
  /\ mpc = "finishDone"
  /\ media' = [media EXCEPT !.done = TRUE]
  /\ Return(loc.ret)
  /\ UNCHANGED <<flash, sector, sectorAddr>>

\* One step of dfu_flash_poll.
PollStep ==
  \/ PollReturn \/ PollErase \/ PollWrite \/ PollFinish
  \/ FlushClean \/ FlushSame \/ FlushProgram
  \/ EraseStart \/ EraseRefused \/ EraseEnd \/ EraseFailed
  \/ ProgramPage \/ ProgramWrong \/ ProgramFailed \/ VerifyPassed \/ VerifyFailed
  \/ EraseRelease \/ ErasePublish
  \/ WriteLookup \/ WriteLoad \/ WriteCopy \/ WriteSetDirty \/ WriteAdvance
  \/ FinishClear \/ FinishDone

\* Power loss or a chip reset: the statics are zeroed, the flash keeps what
\* it had, and a page in the middle of being programmed is torn.
InitMedia ==
  [type |-> "none", addr |-> 0, len |-> 0, pos |-> 0,
   data |-> [i \in 0 .. XferCells - 1 |-> Junk],
   valid |-> FALSE, dirty |-> FALSE, finishing |-> FALSE, done |-> FALSE,
   err |-> TargetError]

ResetStatics ==
  /\ media' = InitMedia
  /\ sector' = [i \in 0 .. SectorCells - 1 |-> Junk]
  /\ sectorAddr' = 0
  /\ mpc' = "enter"
  /\ loc' = NoLocals

PowerLossFlash ==
  \/ UNCHANGED flash
  \/ /\ mpc = "program"
     /\ flash' = [a \in Addr |-> IF a \in PageAt(loc.page) THEN Junk ELSE flash[a]]

MediaInit ==
  /\ flash \in [Addr -> Cell]
  /\ media = InitMedia
  /\ sector = [i \in 0 .. SectorCells - 1 |-> Junk]
  /\ sectorAddr = 0
  /\ mpc = "enter"
  /\ loc = NoLocals

PowerLoss == PowerLossFlash /\ ResetStatics

(***************************************************************************)
(* The backend under its most general client: any call, in any order, at   *)
(* any address.  "cancel" \notin Races confines the calls that drop a job, *)
(* and the final flush, to the moments when the main thread is not inside  *)
(* a poll; the composed models show when the device respects that.         *)
(***************************************************************************)
BetweenPolls == mpc \notin PollPc \ {"enter", "polled"}
MayDrop == "cancel" \in Races \/ BetweenPolls

IsrCall(m) == media' = m /\ UNCHANGED <<flash, sector, sectorAddr, mpc, loc>>

IsrBegin         == MayDrop /\ IsrCall(Begin(media))
IsrCancel        == MayDrop /\ IsrCall(Cancel(media))
IsrWrite(a, p)   == IsrCall(QueueWrite(media, a, p))
IsrFirst(a, p)   == MayDrop /\ IsrCall(QueueWrite(Begin(media), a, p))
IsrErase(a)      == IsrCall(QueueErase(media, a))
IsrFinish        == MayDrop /\ ~Busy(media) /\ IsrCall(Finish(media))

\* The main loop calls dfu_flash_poll again.
PollAgain ==
  /\ mpc = "polled"
  /\ mpc' = "enter" /\ loc' = NoLocals
  /\ UNCHANGED <<flash, sector, sectorAddr, media>>

IsrNext ==
  \/ IsrBegin \/ IsrCancel \/ IsrFinish
  \/ \E a \in HostAddrs : IsrErase(a) \/ \E p \in Payloads : IsrWrite(a, p) \/ IsrFirst(a, p)

MediaNext == PollStep \/ PollAgain \/ IsrNext \/ PowerLoss

MediaSpec == MediaInit /\ [][MediaNext]_mediaVars

(***************************************************************************)
(* Invariants.                                                             *)
(***************************************************************************)

\* Every variable of dfu_flash.c and of its poll has its type.
MediaTypeOK ==
  /\ flash \in [Addr -> Cell]
  /\ sector \in [0 .. SectorCells - 1 -> Cell]
  /\ sectorAddr \in Addr
  /\ media \in MediaType
  /\ mpc \in PollPc
  /\ loc \in LocalsType

\* A clean valid cache equals the sector it caches, whatever failed, was
\* cancelled or was erased before: line 405 and the dirty flag at line 448.
CacheCoherent ==
  media.valid /\ ~media.dirty /\ mpc # "setDirty" => CacheMatchesFlash

\* memcpy at line 447 stays inside g_sector, whatever request replaces the job
\* in mid-poll: the chunk is cut to the sector of the address it is for.
CopyInCache == mpc = "copy" => loc.addr - SectorBase(loc.addr) + loc.chunk <= SectorCells

\* And it reads only bytes the host sent for this job: true only as long as no
\* job is dropped in mid-poll, for then a stale position meets the next one.
CopyInBounds == CopyInCache /\ (mpc = "copy" => loc.pos + loc.chunk <= media.len)

\* NOR flash programs only erased cells: when flash_program_sector programs
\* a page, that page and all later ones have been erased and verified.
ProgramsErasedPages ==
  mpc = "program" =>
    \A a \in SectorAt(OpSector) : (a - OpSector) \div PageCells >= loc.page => flash[a] = Erased

(***************************************************************************)
(* Refinement.  The content the host is entitled to is the flash, overlaid *)
(* with the dirty cache, overlaid with the part of the job still to do.    *)
(***************************************************************************)
KeptCell(a) ==
  IF media.valid /\ media.dirty /\ a \in SectorAt(sectorAddr) THEN Cached(a) ELSE flash[a]

ImageCell(a) ==
  LET i == a - media.addr
  IN  IF media.type = "write" /\ i \in media.pos .. media.len - 1 THEN media.data[i]
      ELSE IF media.type = "erase" /\ a \in SectorAt(media.addr) THEN Erased
      ELSE KeptCell(a)

Store == INSTANCE SectorStore WITH
  Cells <- AppCell, Sectors <- {SectorAt(s) : s \in {a \in AppCell : a % SectorCells = 0}},
  Contents <- Cell, Blank <- Erased, Torn <- Junk,
  Targets <- HostAddrs, Blocks <- Payloads,
  disk <- [a \in AppCell |-> flash[a]],
  kept <- [a \in AppCell |-> KeptCell(a)],
  image <- [a \in AppCell |-> ImageCell(a)],
  mode <- IF media.finishing THEN "commit" ELSE IF media.type = "none" THEN "idle" ELSE "job",
  failed <- media.err # "none" \/ (mpc = "erasePublish" /\ loc.ret # "none")

\* The backend keeps SectorStore's promise: nothing accepted is lost, nothing
\* discarded reaches the flash, and the final flush ends with all of it stored.
KeepsStorePromise == Store!Spec

(***************************************************************************)
(* Action properties.                                                      *)
(***************************************************************************)

\* No request, job, race, fault or power loss ever changes a cell of the
\* bootloader below DFU_FLASH_APP_BASE.
BootloaderIntact == [][\A a \in 0 .. AppBase - 1 : flash'[a] = flash[a]]_mediaVars

\* Nor, when jobs are not dropped in mid-poll, one at or above APP_END.
BeyondAppIntact == [][\A a \in AppEnd .. Top - 1 : flash'[a] = flash[a]]_mediaVars
=============================================================================
