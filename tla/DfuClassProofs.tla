--------------------------- MODULE DfuClassProofs ---------------------------
(***************************************************************************)
(* What TLAPS proves of the data a host downloads: when no job is dropped  *)
(* in the middle of a poll ("cancel" \notin Races) and no status request   *)
(* falls between dfu_flash.c:412 and :419 ("publish" \notin Races), the    *)
(* class reports nothing as stored that is not, and leaves nothing behind. *)
(*                                                                         *)
(* A request is one of a few outcomes for the backend and the state        *)
(* machine; the invariants are proved of the outcomes.                     *)
(***************************************************************************)
EXTENDS UsbdDfuProofs, DfuRefinementProofs

(***************************************************************************)
(* The class invariant: what the state machine knows of the backend.       *)
(***************************************************************************)

\* No job, no final flush and no failure the host has yet to hear of.
Resting == ~Busy(media) /\ ~MediaFailed

\* A failed poll is over, and the error state finds the main thread idle.
ErrorsEndPolls ==
  /\ media.err # "none" => Quiet
  /\ dfu.state = "dfuERROR" => media.err # "none" \/ ~Busy(media)

\* dfuDNLOAD-IDLE and dfuMANIFEST-WAIT-RESET are reported of a backend at
\* rest, and from the end of the download on only the final flush is left.
StatesRest ==
  /\ dfu.state \in {"dfuDNLOAD-IDLE", "dfuMANIFEST-WAIT-RESET"} => Resting
  /\ AbortState => ~MediaFailed \/ want = NoWant
  /\ dfu.state \in {"dfuMANIFEST-SYNC", "dfuMANIFEST", "dfuMANIFEST-WAIT-RESET"} =>
       media.type = "none" /\ (media.finishing \/ ~media.dirty)

\* Outside a download no data is queued or cached.
NoDataOutsideSession ==
  \/ dfu.state \in {"dfuIDLE", "dfuUPLOAD-IDLE"}
  \/ dfu.state \in {"dfuDNLOAD-SYNC", "dfuDNBUSY", "dfuDNLOAD-IDLE"} /\ ~dfu.dl
  => ~media.dirty /\ media.type # "write" /\ ~media.finishing

\* As long as nothing has failed, what the host is entitled to has all the
\* host was told is stored.
PromiseKept ==
  dfu.state # "dfuERROR" /\ ~MediaFailed =>
    \A a \in AppCell : want[a] # Free => ImageCell(a) = want[a]

\* What holds when no job is dropped in mid-poll, ...
SessionInv == StoreInv /\ ClassInv /\ JobsInv /\ ErrorsEndPolls /\ NoDataOutsideSession

\* ... and what when no status request comes too early either.
PromiseInv == StatesRest /\ PromiseKept

(***************************************************************************)
(* The outcomes of a request.                                              *)
(***************************************************************************)

\* GETSTATE and stalls change nothing.
NothingDone == UNCHANGED <<media, dfu, want>>

\* GETSTATUS moves the state machine, or takes it to dfuERROR.
StatusTaken ==
  /\ UNCHANGED <<media, want>> /\ dfu'.dl = dfu.dl /\ dfu'.state = AfterPoll
  /\ StatusAllowed /\ (media.err = "none" \/ dfu.state = "dfuERROR")
ErrorTaken == media' = media /\ media.err # "none" /\ dfu'.state = "dfuERROR"

\* CLRSTATUS, ABORT and the bus reset drop everything.
Dropped ==
  /\ dfu.state = "dfuERROR" \/ AbortState \/ MayDrop
  /\ media' = Cancel(media) /\ want' = NoWant /\ dfu'.state = "dfuIDLE"

\* The zero-length DNLOAD.
Ended ==
  /\ DnloadState /\ media' = Finish(media) /\ want' = want
  /\ dfu'.state = "dfuMANIFEST-SYNC"

\* A command, a block or a read that is refused.
Refused ==
  /\ AbortState /\ ~Busy(media') /\ dfu'.state = "dfuERROR"
  /\ ~media'.dirty \/ (media'.dirty = media.dirty /\ media'.valid = media.valid)

\* A command, an erase and a block that are accepted, and a read.
AddressSet ==
  /\ DnloadState /\ UNCHANGED <<media, want>> /\ dfu'.dl = dfu.dl
  /\ dfu'.state = "dfuDNLOAD-SYNC"
EraseQueued(a) ==
  /\ DnloadState /\ EraseAccepted(media, a) /\ media' = QueueErase(media, a)
  /\ want' = [c \in AppCell |-> IF c \in SectorAt(a) THEN Erased ELSE want[c]]
  /\ dfu'.dl = dfu.dl /\ dfu'.state = "dfuDNLOAD-SYNC"
DataQueued(a, p) ==
  /\ DnloadState /\ WriteAccepted(Loading, a, Length(p)) /\ media' = QueueWrite(Loading, a, p)
  /\ want' = [c \in AppCell |-> IF c - a \in DOMAIN p THEN p[c - a] ELSE want[c]]
  /\ dfu'.dl = TRUE /\ dfu'.state = "dfuDNLOAD-SYNC"
ReadServed ==
  /\ UploadState /\ UNCHANGED <<media, want>> /\ dfu'.dl = dfu.dl
  /\ dfu'.state \in {"dfuIDLE", "dfuUPLOAD-IDLE"}

Outcome ==
  \/ NothingDone \/ StatusTaken \/ ErrorTaken \/ Dropped \/ Ended \/ Refused
  \/ AddressSet \/ ReadServed
  \/ \E a \in Nat : EraseQueued(a) \/ \E p \in Payloads : DataQueued(a, p)

\* The address of a valid block is a natural number.
LEMMA BlockAddressFacts ==
  ASSUME ClassInv, NEW b \in HostBlocks, BlockValid(b)
  PROVE  BlockAddress(b) \in Nat
<1>1. b \in Nat /\ XferCells \in Nat /\ AppBase \in Nat
  BY BindingAssumption, Sizes
<1>2. bind.ptr \in Nat
  BY Sizes DEF ClassInv, ClassTypeOK, BindType, AppCell
<1>3. BlockBase \in Nat
  BY <1>1, <1>2 DEF BlockBase
<1>4. BlockIndex(b) \in Nat
  BY <1>1 DEF BlockIndex, BlockValid
<1>5. \A i \in Nat : i * XferCells \in Nat
  BY <1>1
<1> QED
  BY <1>3, <1>4, <1>5 DEF BlockAddress

\* A refusal of the backend leaves no work and the cache as it was.
LEMMA RefusalFacts ==
  ASSUME NEW m, RequestOK(m), NEW e
  PROVE  /\ Busy([m EXCEPT !.err = e]) = Busy(m)
         /\ [m EXCEPT !.err = e].dirty = m.dirty /\ [m EXCEPT !.err = e].valid = m.valid
         /\ [m EXCEPT !.err = e].err = e
  BY DEF RequestOK, MediaType, Busy

\* Every request has one of the outcomes.
LEMMA RequestOutcomes ==
  ASSUME MediaInv, ClassInv, JobsInv, Request
  PROVE  Outcome /\ HandledOnly
<1> USE DEF Handled
<1>0. /\ dfu \in DfuType /\ RequestOK(media) /\ RequestOK(Loading)
      /\ media.err \in MediaError /\ (AbortState => ~Busy(media)) /\ HandledOnly
  BY LoadingOK, RequestStepOK DEF ClassInv, ClassTypeOK, JobsInv, RequestOK, MediaType
<1>1. CASE GetStateOrStall
  BY <1>0, <1>1 DEF GetStateOrStall, Outcome, NothingDone
<1>2. CASE GetStatusError
  BY <1>0, <1>2 DEF GetStatusError, Outcome, ErrorTaken, DfuType
<1>3. CASE GetStatus
  <2>1. dfu' = [dfu EXCEPT !.state = AfterPoll] /\ media' = media /\ want' = want
    BY <1>3 DEF GetStatus
  <2> QED
    BY <1>0, <1>3, <2>1 DEF GetStatus, Outcome, StatusTaken, DfuType
<1>4. CASE ClrStatus \/ Abort \/ BusReset
  BY <1>0, <1>4 DEF ClrStatus, Abort, BusReset, Outcome, Dropped, DfuType, CancelClass
<1>5. CASE DnloadEnd
  BY <1>0, <1>5 DEF DnloadEnd, Outcome, Ended, DfuType
<1>6. ASSUME NEW ok \in BOOLEAN, NEW b, Commanded(ok, media, b, want) PROVE Outcome
  <2>1. /\ media' = media /\ want' = want /\ DnloadState
        /\ dfu' = IF ok THEN [dfu EXCEPT !.state = "dfuDNLOAD-SYNC"]
                  ELSE SetError(dfu, media, "errADDRESS")
    BY <1>6 DEF Commanded
  <2>2. CASE ok
    BY <1>0, <2>1, <2>2 DEF Outcome, AddressSet, DfuType
  <2>3. CASE ~ok
    <3>1. dfu'.state = "dfuERROR"
      BY <1>0, <2>1, <2>3, SetErrorFacts
    <3> QED
      BY <1>0, <2>1, <3>1 DEF Outcome, Refused, DnloadState, AbortState
  <2> QED
    BY <2>2, <2>3
<1>7. ASSUME NEW a \in HostAddrs, SetAddress(a) \/ SetExecAddress(a) PROVE Outcome
  <2>1. /\ AddressValid(a, 1) \in BOOLEAN
        /\ (AddressValid(a, 1) /\ a % WordCells = 0) \in BOOLEAN
    BY DEF AddressValid
  <2> QED
    BY <1>6, <1>7, <2>1 DEF SetAddress, SetExecAddress
<1>8. ASSUME NEW a \in HostAddrs, EraseCommand(a) PROVE Outcome
  <2> DEFINE m == QueueErase(media, a)
  <2>1. /\ DnloadState /\ media' = m /\ a \in Nat
        /\ dfu' = IF EraseAccepted(media, a) THEN [dfu EXCEPT !.state = "dfuDNLOAD-SYNC"]
                  ELSE SetError(dfu, m, "errADDRESS")
        /\ want' = IF EraseAccepted(media, a)
                   THEN [c \in AppCell |-> IF c \in SectorAt(a) THEN Erased ELSE want[c]]
                   ELSE want
    BY <1>8, DataAssumption DEF EraseCommand, Commanded
  <2>2. CASE EraseAccepted(media, a)
    <3>1. EraseQueued(a)
      BY <1>0, <2>1, <2>2 DEF EraseQueued, DfuType
    <3> QED
      BY <2>1, <3>1 DEF Outcome
  <2>3. CASE ~EraseAccepted(media, a)
    <3>1. m = [media EXCEPT !.err = EraseRefusal(media, a)]
      BY <2>3 DEF QueueErase
    <3>2. RequestOK(m)
      BY <1>0, QueueEraseOK
    <3>3. m.err \in MediaError
      BY <3>2 DEF RequestOK, MediaType
    <3>4. Busy(m) = Busy(media) /\ m.dirty = media.dirty /\ m.valid = media.valid
      BY <1>0, <3>1, RefusalFacts
    <3> HIDE DEF m
    <3>5. dfu'.state = "dfuERROR"
      BY <1>0, <2>1, <2>3, <3>3, SetErrorFacts
    <3> QED
      BY <1>0, <2>1, <3>4, <3>5 DEF Outcome, Refused, DnloadState, AbortState
  <2> QED
    BY <2>2, <2>3
<1>9. ASSUME NEW b \in HostBlocks, NEW p \in Payloads, DnloadData(b, p) PROVE Outcome
  <2> DEFINE a  == BlockAddress(b)
             d  == [dfu EXCEPT !.dl = TRUE]
             m  == IF BlockValid(b) THEN QueueWrite(Loading, a, p) ELSE Loading
             ok == BlockValid(b) /\ WriteAccepted(Loading, a, Length(p))
  <2>1. /\ media' = m /\ DnloadState
        /\ dfu' = IF ok THEN [d EXCEPT !.state = "dfuDNLOAD-SYNC"]
                  ELSE SetError(d, m, "errWRITE")
        /\ want' = [c \in AppCell |-> IF ok /\ c - a \in DOMAIN p THEN p[c - a] ELSE want[c]]
    BY <1>9 DEF DnloadData
  <2>2. d \in DfuType /\ d.dl = TRUE
    BY <1>0 DEF DfuType
  <2>3. CASE ok
    <3>1. a \in Nat
      BY <2>3, BlockAddressFacts
    <3>2. DataQueued(a, p)
      <4>1. dfu'.dl = TRUE /\ dfu'.state = "dfuDNLOAD-SYNC"
        BY <2>1, <2>2, <2>3 DEF DfuType
      <4> QED
        BY <2>1, <2>3, <4>1 DEF DataQueued
    <3> QED
      BY <3>1, <3>2 DEF Outcome
  <2>4. CASE ~ok
    <3>1. m = Loading \/ m = [Loading EXCEPT !.err = WriteRefusal(Loading, a, Length(p))]
      BY <2>4 DEF QueueWrite
    <3>2. ~Busy(Loading) /\ (Loading = media \/ ~Loading.dirty)
      BY <1>0, <2>1, CancelledIsIdle
         DEF Loading, Begin, Cancel, RequestOK, MediaType, DnloadState, AbortState
    <3>3. m.err \in MediaError
      BY <1>0, QueueWriteOK DEF RequestOK, MediaType
    <3> HIDE DEF m, d, ok
    <3>4. /\ ~Busy(m)
          /\ ~m.dirty \/ (m.dirty = media.dirty /\ m.valid = media.valid)
      <4>1. CASE m = Loading
        BY <3>2, <4>1
      <4>2. CASE m = [Loading EXCEPT !.err = WriteRefusal(Loading, a, Length(p))]
        <5>1. Busy(m) = Busy(Loading) /\ m.dirty = Loading.dirty /\ m.valid = Loading.valid
          BY <1>0, <4>2, RefusalFacts
        <5> QED
          BY <3>2, <5>1
      <4> QED
        BY <3>1, <4>1, <4>2
    <3>5. dfu'.state = "dfuERROR"
      BY <2>1, <2>2, <2>4, <3>3, SetErrorFacts
    <3> QED
      BY <2>1, <3>4, <3>5 DEF Outcome, Refused, DnloadState, AbortState
  <2> QED
    BY <2>3, <2>4
<1>10. ASSUME NEW b \in HostBlocks, UploadRefused(b) PROVE Outcome
  <2> DEFINE m == [media EXCEPT !.err = ReadError(b)]
  <2>1. /\ media' = m /\ UploadState
        /\ dfu' = SetError([dfu EXCEPT !.ul = TRUE], m, "errADDRESS")
    BY <1>10 DEF UploadRefused
  <2>2. m.err \in MediaError /\ [dfu EXCEPT !.ul = TRUE] \in DfuType
    BY <1>0, ReadErrorOK DEF RequestOK, MediaType, DfuType
  <2>3. Busy(m) = Busy(media) /\ m.dirty = media.dirty /\ m.valid = media.valid
    BY <1>0, RefusalFacts
  <2> HIDE DEF m
  <2>4. dfu'.state = "dfuERROR"
    BY <2>1, <2>2, SetErrorFacts
  <2> QED
    BY <1>0, <2>1, <2>3, <2>4 DEF Outcome, Refused, UploadState, AbortState
<1>11. ASSUME NEW b \in HostBlocks, NEW n \in 0 .. UploadMax, Upload(b, n) PROVE Outcome
  <2>1. /\ UploadState /\ media' = media /\ want' = want
        /\ dfu'.dl = dfu.dl /\ dfu'.state \in {"dfuIDLE", "dfuUPLOAD-IDLE"}
    BY <1>0, <1>11 DEF Upload, DfuType
  <2> QED
    BY <2>1 DEF Outcome, ReadServed
<1> QED
  BY <1>0, <1>1, <1>2, <1>3, <1>4, <1>5, <1>7, <1>8, <1>9, <1>10, <1>11
     DEF Request, StatusRequest, Command

(***************************************************************************)
(* Requests drop no job in mid-poll.                                       *)
(***************************************************************************)

\* When the state machine is ready for a request, the main thread is quiet.
LEMMA ReadyIsQuiet ==
  ASSUME SessionInv, "cancel" \notin Races, AbortState \/ dfu.state = "dfuERROR" \/ MayDrop
  PROVE  Quiet
<1>1. ~Busy(media) => Quiet
  BY MidPollIsBusy DEF SessionInv, StoreInv
<1>2. AbortState => ~Busy(media)
  BY DEF SessionInv, JobsInv
<1>3. dfu.state = "dfuERROR" => media.err # "none" \/ ~Busy(media)
  BY DEF SessionInv, ErrorsEndPolls
<1>4. media.err # "none" => Quiet
  BY DEF SessionInv, ErrorsEndPolls
<1>5. MayDrop => Quiet
  BY DEF MayDrop, BetweenPolls, Quiet, SessionInv, StoreInv, MediaInv, MediaTypeOK
<1> QED
  BY <1>1, <1>2, <1>3, <1>4, <1>5

\* The record a block starts from has its work to do.
LEMMA LoadingFacts ==
  ASSUME SessionInv
  PROVE  /\ RequestOK(Loading) /\ WorkToDo(Loading)
         /\ dfu.dl => Loading = media
         /\ ~dfu.dl => Loading = Cancel(media)
<1>1. MediaInv /\ WorkToDo(media) /\ WorkToDo(Begin(media))
  BY CancelToDo, MediaWorkToDo DEF SessionInv, StoreInv
<1>2. dfu.dl \in BOOLEAN
  BY DEF SessionInv, ClassInv, ClassTypeOK, DfuType
<1> QED
  BY <1>1, <1>2, LoadingOK DEF Loading, Begin

\* Every request is a call that keeps the backend's invariant.
LEMMA RequestCallOK ==
  ASSUME SessionInv, "cancel" \notin Races, Request
  PROVE  CallOK(media') /\ HandledOnly
<1>0. /\ MediaInv /\ RequestOK(media') /\ HandledOnly /\ Outcome
      /\ media \in MediaType /\ WorkToDo(media)
      /\ ~Busy(media) \/ ~AbortState
  BY RequestStepOK, RequestOutcomes, MediaWorkToDo
     DEF SessionInv, StoreInv, MediaInv, MediaTypeOK, JobsInv
<1>1. CASE media' = media
  <2>1. media' = [media EXCEPT !.err = media'.err]
    BY <1>0, <1>1 DEF MediaType
  <2> QED
    BY <1>0, <1>1, <2>1 DEF CallOK
<1>2. CASE Dropped
  BY <1>0, <1>2, ReadyIsQuiet, CancelToDo DEF Dropped, CallOK
<1>3. CASE Ended
  <2>1. Quiet /\ media' = Finish(media) /\ ~Busy(media)
    BY <1>0, <1>3, ReadyIsQuiet DEF Ended, DnloadState, AbortState
  <2>2. WorkToDo(media')
    BY <1>0, <2>1 DEF WorkToDo, Finish, Busy, MediaType
  <2> QED
    BY <1>0, <2>1, <2>2 DEF CallOK
<1>4. CASE Refused
  <2>1. Quiet
    BY <1>4, ReadyIsQuiet DEF Refused
  <2>2. WorkToDo(media')
    BY <1>0, <1>4 DEF Refused, WorkToDo, Busy, RequestOK, MediaType
  <2> QED
    BY <1>0, <2>1, <2>2 DEF CallOK
<1>5. ASSUME NEW a \in Nat, EraseQueued(a) PROVE CallOK(media')
  <2>1. Quiet
    BY <1>5, ReadyIsQuiet DEF EraseQueued, DnloadState, AbortState
  <2>2. WorkToDo(media')
    BY <1>0, <1>5, QueueEraseToDo, LoadingOK DEF EraseQueued
  <2> QED
    BY <1>0, <2>1, <2>2 DEF CallOK
<1>6. ASSUME NEW a \in Nat, NEW p \in Payloads, DataQueued(a, p) PROVE CallOK(media')
  <2>1. Quiet
    BY <1>6, ReadyIsQuiet DEF DataQueued, DnloadState, AbortState
  <2>2. WorkToDo(media')
    BY <1>6, QueueWriteToDo, LoadingFacts DEF DataQueued
  <2> QED
    BY <1>0, <2>1, <2>2 DEF CallOK
<1> QED
  BY <1>0, <1>1, <1>2, <1>3, <1>4, <1>5, <1>6
     DEF Outcome, NothingDone, StatusTaken, ErrorTaken, AddressSet, ReadServed

\* An erase or a write that is queued leaves the error and the cache alone.
LEMMA QueuedErase ==
  ASSUME NEW m, RequestOK(m), NEW a, EraseAccepted(m, a), media' = QueueErase(m, a)
  PROVE  /\ a \in AppCell /\ a % SectorCells = 0 /\ m.type = "none" /\ ~m.finishing
         /\ media'.type = "erase" /\ media'.addr = a /\ media'.finishing = m.finishing
         /\ media'.err = m.err /\ media'.valid = m.valid /\ media'.dirty = m.dirty
<1>1. a \in AppCell /\ a % SectorCells = 0 /\ ~Busy(m)
  BY DataAssumption DEF EraseAccepted, EraseRefusal, AddressValid
<1> QED
  BY <1>1 DEF QueueErase, RequestOK, MediaType, Busy

\* A request keeps the errors where they end polls, and data in its session.
LEMMA RequestKeepsSession ==
  ASSUME SessionInv, "cancel" \notin Races, Request
  PROVE  ErrorsEndPolls' /\ NoDataOutsideSession'
<1>0. /\ HandledOnly /\ Outcome /\ media \in MediaType /\ RequestOK(media)
      /\ ~Busy(media) \/ ~AbortState
      /\ ErrorsEndPolls /\ NoDataOutsideSession /\ dfu.dl \in BOOLEAN
  BY RequestStepOK, RequestOutcomes, LoadingOK
     DEF SessionInv, StoreInv, MediaInv, MediaTypeOK, JobsInv, ClassInv, ClassTypeOK, DfuType
<1>1. CASE NothingDone
  BY <1>0, <1>1
     DEF NothingDone, HandledOnly, ErrorsEndPolls, NoDataOutsideSession, Quiet, Busy
<1>2. CASE StatusTaken
  BY <1>0, <1>2
     DEF StatusTaken, AfterPoll, HandledOnly, ErrorsEndPolls, NoDataOutsideSession, Quiet, Busy
<1>3. CASE ErrorTaken
  BY <1>0, <1>3
     DEF ErrorTaken, HandledOnly, ErrorsEndPolls, NoDataOutsideSession, Quiet, Busy
<1>4. ASSUME Quiet, dfu'.state # "dfuERROR" \/ ~Busy(media') PROVE ErrorsEndPolls'
  BY <1>0, <1>4 DEF ErrorsEndPolls, Quiet, HandledOnly, Busy
<1>5. CASE Dropped
  <2>1. ErrorsEndPolls'
    BY <1>4, <1>5, ReadyIsQuiet DEF Dropped
  <2> QED
    BY <1>0, <1>5, <2>1 DEF Dropped, Cancel, MediaType, NoDataOutsideSession
<1>6. CASE Ended \/ Refused
  <2>1. ErrorsEndPolls'
    BY <1>4, <1>6, ReadyIsQuiet DEF Ended, Refused, DnloadState, AbortState
  <2> QED
    BY <1>6, <2>1 DEF Ended, Refused, NoDataOutsideSession
<1>7. CASE AddressSet \/ ReadServed
  <2>1. ErrorsEndPolls'
    BY <1>4, <1>7, ReadyIsQuiet
       DEF AddressSet, ReadServed, UploadState, DnloadState, AbortState
  <2> QED
    BY <1>0, <1>7, <2>1
       DEF AddressSet, ReadServed, UploadState, DnloadState, NoDataOutsideSession
<1>8. ASSUME NEW a \in Nat, EraseQueued(a) PROVE ErrorsEndPolls' /\ NoDataOutsideSession'
  <2>1. ErrorsEndPolls'
    BY <1>4, <1>8, ReadyIsQuiet DEF EraseQueued, DnloadState, AbortState
  <2>2. /\ media'.type = "erase" /\ media'.finishing = media.finishing
        /\ media'.dirty = media.dirty
    BY <1>0, <1>8, QueuedErase DEF EraseQueued
  <2> QED
    BY <1>0, <1>8, <2>1, <2>2 DEF EraseQueued, DnloadState, NoDataOutsideSession
<1>9. ASSUME NEW a \in Nat, NEW p \in Payloads, DataQueued(a, p)
      PROVE  ErrorsEndPolls' /\ NoDataOutsideSession'
  <2>1. ErrorsEndPolls'
    BY <1>4, <1>9, ReadyIsQuiet DEF DataQueued, DnloadState, AbortState
  <2> QED
    BY <1>9, <2>1 DEF DataQueued, NoDataOutsideSession
<1> QED
  BY <1>0, <1>1, <1>2, <1>3, <1>5, <1>6, <1>7, <1>8, <1>9 DEF Outcome

\* A step of the poll never clears an error, and returns with a new one.
LEMMA PollErrors ==
  ASSUME MediaInv, PollStep, media.err # "none" => Quiet
  PROVE  /\ media.err # "none" => media'.err # "none"
         /\ media'.err # "none" => Quiet'
<1> USE DEF MediaInv, MediaTypeOK, MediaType, Goto, Return
<1>1. CASE PollReturn
  BY <1>1 DEF PollReturn, Quiet
<1>2. CASE PollErase \/ PollWrite \/ PollFinish
  BY <1>2 DEF PollErase, PollWrite, PollFinish
<1>3. CASE EraseRefused \/ EraseFailed \/ ProgramFailed \/ VerifyFailed
  BY <1>3 DEF EraseRefused, EraseFailed, ProgramFailed, VerifyFailed, OpFailed, Quiet
<1>4. CASE FlushClean \/ FlushSame \/ FlushProgram \/ VerifyPassed
  BY <1>4 DEF FlushClean, FlushSame, FlushProgram, VerifyPassed, Quiet
<1>5. CASE EraseStart \/ EraseEnd \/ ProgramPage \/ ProgramWrong
  BY <1>5 DEF EraseStart, EraseEnd, ProgramPage, ProgramWrong, Quiet
<1>6. CASE EraseRelease \/ ErasePublish
  BY <1>6 DEF EraseRelease, ErasePublish, Quiet
<1>7. CASE WriteLookup \/ WriteLoad \/ WriteCopy \/ WriteSetDirty
  BY <1>7 DEF WriteLookup, WriteLoad, WriteCopy, WriteSetDirty, Quiet
<1>8. CASE WriteAdvance
  BY <1>8 DEF WriteAdvance, Quiet
<1>9. CASE FinishClear \/ FinishDone
  BY <1>9 DEF FinishClear, FinishDone, Quiet
<1> QED
  BY <1>1, <1>2, <1>3, <1>4, <1>5, <1>6, <1>7, <1>8, <1>9 DEF PollStep

\* A step of the poll makes a cache dirty for a write only, takes up no write
\* and no flush, and ends the final flush with a clean cache.
LEMMA PollDirties ==
  ASSUME MediaInv, JobInv, PollStep
  PROVE  /\ media'.dirty => media.dirty \/ media.type = "write"
         /\ media'.type \in {media.type, "none"}
         /\ media'.finishing => media.finishing
         /\ media.finishing /\ ~media'.finishing => ~media'.dirty
<1> USE DEF MediaInv, MediaTypeOK, MediaType
<1>1. CASE PollReturn \/ PollErase \/ PollWrite \/ PollFinish
  BY <1>1 DEF PollReturn, PollErase, PollWrite, PollFinish
<1>2. CASE FlushClean \/ FlushSame \/ FlushProgram \/ VerifyPassed
  BY <1>2 DEF FlushClean, FlushSame, FlushProgram, VerifyPassed
<1>3. CASE EraseRefused \/ EraseFailed \/ ProgramFailed \/ VerifyFailed
  BY <1>3 DEF EraseRefused, EraseFailed, ProgramFailed, VerifyFailed, OpFailed
<1>4. CASE EraseStart \/ EraseEnd \/ ProgramPage \/ ProgramWrong
  BY <1>4 DEF EraseStart, EraseEnd, ProgramPage, ProgramWrong
<1>5. CASE EraseRelease \/ ErasePublish
  BY <1>5 DEF EraseRelease, ErasePublish
<1>6. CASE WriteLookup \/ WriteLoad \/ WriteCopy
  BY <1>6 DEF WriteLookup, WriteLoad, WriteCopy
<1>7. CASE WriteSetDirty
  <2>1. media.type = "write"
    BY <1>7 DEF WriteSetDirty, JobInv, LocalsAreJob, ForWrite
  <2> QED
    BY <1>7, <2>1 DEF WriteSetDirty
<1>8. CASE WriteAdvance
  BY <1>8 DEF WriteAdvance
<1>9. CASE FinishClear
  <2>1. ~media.dirty
    BY <1>9 DEF FinishClear, JobInv, CacheAtStep
  <2> QED
    BY <1>9, <2>1 DEF FinishClear
<1>10. CASE FinishDone
  BY <1>10 DEF FinishDone
<1> QED
  BY <1>1, <1>2, <1>3, <1>4, <1>5, <1>6, <1>7, <1>8, <1>9, <1>10 DEF PollStep

\* So the main thread keeps both as well.
LEMMA MainPollKeepsSession ==
  ASSUME SessionInv, MainPoll
  PROVE  ErrorsEndPolls' /\ NoDataOutsideSession'
<1> USE DEF SessionInv, StoreInv
<1>0. UNCHANGED dfu
  BY DEF MainPoll, classVars
<1>1. CASE PollStep
  <2>1. ErrorsEndPolls'
    <3>1. /\ media.err # "none" => media'.err # "none"
          /\ media'.err # "none" => Quiet'
      BY <1>1, PollErrors DEF ErrorsEndPolls
    <3>2. ~Busy(media) => ~Busy(media')
      BY <1>1, PollMakesNoWork
    <3> QED
      BY <1>0, <3>1, <3>2 DEF ErrorsEndPolls, Busy
  <2>2. NoDataOutsideSession'
    BY <1>0, <1>1, PollDirties DEF NoDataOutsideSession
  <2> QED
    BY <2>1, <2>2
<1>2. CASE PollAgain
  BY <1>0, <1>2 DEF PollAgain, ErrorsEndPolls, NoDataOutsideSession, Quiet, Busy
<1> QED
  BY <1>1, <1>2 DEF MainPoll

\* A reset of the chip restores them.
LEMMA PowerLossKeepsSession ==
  ASSUME DfuPowerLoss
  PROVE  ErrorsEndPolls' /\ NoDataOutsideSession'
<1>1. /\ media' = InitMedia /\ mpc' = "enter" /\ dfu' = InitDfu
  BY DEF DfuPowerLoss, PowerLoss, ResetStatics, ClassReset
<1> QED
  BY <1>1 DEF InitMedia, InitDfu, ErrorsEndPolls, NoDataOutsideSession, Quiet, Busy

\* The invariant of a session is inductive.
LEMMA NextKeepsSessionInv ==
  ASSUME "cancel" \notin Races, SessionInv, [DfuNext]_dfuVars
  PROVE  SessionInv'
<1>1. MediaInv' /\ CoherentInv' /\ ClassInv' /\ JobsInv'
  BY ClassKeepsMediaInv, NextKeepsClassInv, NextKeepsJobsInv DEF SessionInv, StoreInv
<1>2. JobInv' /\ CopyDone'
  <2>1. CASE MediaNext \/ UNCHANGED mediaVars
    BY <2>1, NextKeepsJobInv DEF SessionInv, StoreInv
  <2>2. CASE Request
    BY <2>2, RequestCallOK, CallKeepsJobInv DEF SessionInv, StoreInv, HandledOnly
  <2> QED
    BY <2>1, <2>2, StepKinds
<1>3. ErrorsEndPolls' /\ NoDataOutsideSession'
  <2>1. CASE Request
    BY <2>1, RequestKeepsSession
  <2>2. CASE MainPoll
    BY <2>2, MainPollKeepsSession
  <2>3. CASE DfuPowerLoss
    BY <2>3, PowerLossKeepsSession
  <2>4. CASE UNCHANGED dfuVars
    BY <2>4 DEF SessionInv, dfuVars, mediaVars, classVars, ErrorsEndPolls,
         NoDataOutsideSession, Quiet, Busy
  <2> QED
    BY <2>1, <2>2, <2>3, <2>4 DEF DfuNext, Request
<1> QED
  BY <1>1, <1>2, <1>3 DEF SessionInv, StoreInv

\* It holds at start-up.
LEMMA InitSessionInv == DfuInit => SessionInv
<1> SUFFICES ASSUME DfuInit PROVE SessionInv
  OBVIOUS
<1>1. MediaInv /\ CoherentInv /\ ClassInv
  BY DfuInitMediaInv, InitClassInv
<1>2. /\ media = InitMedia /\ mpc = "enter" /\ loc = NoLocals /\ dfu = InitDfu
  BY DEF DfuInit, MediaInit, ClassInit
<1>3. JobInv /\ CopyDone
  BY <1>2 DEF InitMedia, JobInv, JobToDo, LocalsAreJob, CacheAtStep, CopyDone,
       ForWrite, ForErase, ForFinish, FlushPc, BurnPc
<1>4. JobsInv /\ ErrorsEndPolls /\ NoDataOutsideSession
  BY <1>2 DEF InitMedia, TargetError, NoLocals, InitDfu, JobsInv, JobsAreSerialised,
       AbortState, Busy, ErrorsEndPolls, NoDataOutsideSession, Quiet
<1> QED
  BY <1>1, <1>3, <1>4 DEF SessionInv, StoreInv

\* The class keeps the backend's poll and its jobs together.
THEOREM SessionInvariant == "cancel" \notin Races => (DfuSpec => []SessionInv)
<1> SUFFICES ASSUME "cancel" \notin Races PROVE DfuSpec => []SessionInv
  OBVIOUS
<1>1. SessionInv /\ [DfuNext]_dfuVars => SessionInv'
  BY NextKeepsSessionInv
<1> QED
  BY <1>1, InitSessionInv, PTL DEF DfuSpec

\* Where UPLOAD is served no job is at hand and no downloaded byte waits in
\* the cache: what is read is what stays, and no cancelled byte is flushed.
THEOREM IdleHoldsNothing == "cancel" \notin Races => (DfuSpec => []IdleHoldsNoData)
<1> SUFFICES ASSUME "cancel" \notin Races PROVE DfuSpec => []IdleHoldsNoData
  OBVIOUS
<1>1. SessionInv => IdleHoldsNoData
  BY DEF SessionInv, JobsInv, NoDataOutsideSession, IdleHoldsNoData, UploadState, AbortState
<1> QED
  BY <1>1, SessionInvariant, PTL

\* No request of the class reaches the flash beyond DFU_FLASH_APP_END.
THEOREM ClassKeepsBeyond == "cancel" \notin Races => (DfuSpec => BeyondAppIntact)
<1> SUFFICES ASSUME "cancel" \notin Races PROVE DfuSpec => BeyondAppIntact
  OBVIOUS
<1>1. ASSUME SessionInv, [DfuNext]_dfuVars
      PROVE  [\A a \in AppEnd .. Top - 1 : flash'[a] = flash[a]]_mediaVars
  <2>1. CASE UNCHANGED mediaVars
    BY <2>1
  <2>2. CASE Request
    BY <1>1, <2>2, RequestStepOK DEF HandledOnly, SessionInv, StoreInv
  <2>3. CASE MediaNext
    <3>1. SUFFICES ASSUME NEW a \in AppEnd .. Top - 1, flash'[a] # flash[a] PROVE FALSE
      OBVIOUS
    <3>2. a \in Addr
      BY Sizes DEF Addr
    <3>3. mpc \in BurnPc /\ a \in SectorAt(OpSector)
      BY <1>1, <2>3, <3>1, <3>2, FlashChanges DEF SessionInv, StoreInv
    <3>4. OpSector \in Nat /\ OpSector + SectorCells <= AppEnd
      BY <1>1, <3>3, OpSectorBelowEnd DEF SessionInv
    <3> QED
      BY <3>3, <3>4, Sizes DEF SectorAt
  <2> QED
    BY <1>1, <2>1, <2>2, <2>3, StepKinds
<1> QED
  BY <1>1, SessionInvariant, PTL DEF DfuSpec, BeyondAppIntact


(***************************************************************************)
(* What the host was told is stored.                                       *)
(***************************************************************************)

\* A request that leaves the media record alone leaves all it holds.
LEMMA SameMediaSameImage ==
  ASSUME UNCHANGED media, HandledOnly
  PROVE  /\ MediaFailed' = MediaFailed /\ Busy(media)' = Busy(media)
         /\ \A c : ImageCell(c)' = ImageCell(c)
  BY DEF HandledOnly, MediaFailed, Busy, ImageCell, KeptCell, Cached, SectorAt

\* With no job at hand what counts is what is kept.
LEMMA NoJobImage == ASSUME media.type = "none", NEW c PROVE ImageCell(c) = KeptCell(c)
  BY DEF ImageCell

\* A clean cache adds nothing to the flash.
LEMMA CleanKept == ASSUME ~media.dirty, NEW c PROVE KeptCell(c) = flash[c]
  BY DEF KeptCell

\* Requests keep the states where they rest, ...
LEMMA RequestKeepsRest ==
  ASSUME SessionInv, StatesRest, "cancel" \notin Races, "publish" \notin Races, Request
  PROVE  StatesRest'
<1>0. /\ HandledOnly /\ Outcome /\ media \in MediaType
      /\ ~Busy(media) \/ ~AbortState
  BY RequestOutcomes DEF SessionInv, StoreInv, MediaInv, MediaTypeOK, JobsInv
<1>1. CASE NothingDone
  BY <1>0, <1>1, SameMediaSameImage DEF NothingDone, StatesRest, Resting, AbortState
<1>2. CASE StatusTaken
  <2>1. /\ MediaFailed' = MediaFailed /\ Busy(media)' = Busy(media)
        /\ UNCHANGED <<media, want>> /\ dfu'.state = AfterPoll
    BY <1>0, <1>2, SameMediaSameImage DEF StatusTaken
  <2>2. dfu.state # "dfuERROR" => ~MediaFailed
    BY <1>2 DEF StatusTaken, StatusAllowed, MediaFailed
  <2>3. CASE dfu.state \in {"dfuDNLOAD-SYNC", "dfuDNBUSY"}
    BY <2>1, <2>2, <2>3 DEF AfterPoll, StatesRest, Resting, AbortState
  <2>4. CASE dfu.state \in {"dfuMANIFEST-SYNC", "dfuMANIFEST"}
    BY <2>1, <2>2, <2>4 DEF AfterPoll, StatesRest, Resting, AbortState
  <2>5. CASE dfu.state \notin {"dfuDNLOAD-SYNC", "dfuDNBUSY", "dfuMANIFEST-SYNC", "dfuMANIFEST"}
    <3>1. dfu'.state = dfu.state
      BY <2>1, <2>5 DEF AfterPoll
    <3> QED
      BY <2>1, <3>1 DEF StatesRest, Resting, AbortState
  <2> QED
    BY <2>3, <2>4, <2>5
<1>3. CASE ErrorTaken \/ Refused
  BY <1>3 DEF ErrorTaken, Refused, StatesRest, AbortState
<1>4. CASE Dropped
  BY <1>4 DEF Dropped, StatesRest, AbortState
<1>5. CASE Ended
  <2>1. ~Busy(media) /\ media' = Finish(media) /\ dfu'.state = "dfuMANIFEST-SYNC"
    BY <1>0, <1>5 DEF Ended, DnloadState, AbortState
  <2>2. media'.type = "none" /\ media'.finishing
    BY <1>0, <2>1 DEF Finish, Busy, MediaType
  <2> QED
    BY <2>1, <2>2 DEF StatesRest, AbortState
<1>6. CASE ReadServed
  BY <1>0, <1>6, SameMediaSameImage
     DEF ReadServed, UploadState, StatesRest, Resting, AbortState
<1>7. CASE dfu'.state = "dfuDNLOAD-SYNC"
  BY <1>7 DEF StatesRest, AbortState
<1> QED
  BY <1>0, <1>1, <1>2, <1>3, <1>4, <1>5, <1>6, <1>7
     DEF Outcome, AddressSet, EraseQueued, DataQueued

\* ... and what is acknowledged where the host can still get it.
LEMMA EraseKeepsPromise ==
  ASSUME SessionInv, PromiseKept, HandledOnly, NEW a \in Nat, EraseQueued(a)
  PROVE  PromiseKept'
<1>0. media \in MediaType /\ RequestOK(media)
  BY LoadingOK DEF SessionInv, StoreInv, MediaInv, MediaTypeOK
<1>1. /\ media.type = "none" /\ media'.type = "erase" /\ media'.addr = a
      /\ media'.err = media.err /\ media'.valid = media.valid /\ media'.dirty = media.dirty
  BY <1>0, QueuedErase DEF EraseQueued
<1>2. MediaFailed' = MediaFailed /\ dfu.state # "dfuERROR"
  BY <1>1 DEF HandledOnly, MediaFailed, EraseQueued, DnloadState
<1>3. ASSUME NEW c \in AppCell, want'[c] # Free, ~MediaFailed PROVE ImageCell(c)' = want'[c]
  <2>1. want'[c] = IF c \in SectorAt(a) THEN Erased ELSE want[c]
    BY DEF EraseQueued
  <2>2. ImageCell(c)' = IF c \in SectorAt(a) THEN Erased ELSE KeptCell(c)'
    BY <1>1 DEF ImageCell, SectorAt
  <2>3. KeptCell(c)' = ImageCell(c)
    BY <1>1 DEF HandledOnly, ImageCell, KeptCell, Cached, SectorAt
  <2> QED
    BY <1>2, <1>3, <2>1, <2>2, <2>3 DEF PromiseKept
<1> QED
  BY <1>2, <1>3 DEF PromiseKept

LEMMA DataKeepsPromise ==
  ASSUME SessionInv, StatesRest, PromiseKept, HandledOnly,
         NEW a \in Nat, NEW p \in Payloads, DataQueued(a, p)
  PROVE  PromiseKept'
<1>1. /\ media'.type = "write" /\ media'.err = Loading.err
      /\ media'.valid = Loading.valid /\ media'.dirty = Loading.dirty
      /\ \A c \in AppCell : ImageCell(c)' = IF c - a \in DOMAIN p THEN p[c - a]
                                            ELSE KeptCell(c)'
      /\ DualBank /\ Loading.type = "none"
  BY LoadingFacts, QueuedWrite DEF DataQueued
<1>2. /\ \A c \in AppCell : want'[c] = IF c - a \in DOMAIN p THEN p[c - a] ELSE want[c]
      /\ DnloadState
  BY DEF DataQueued
<1>3. /\ media \in MediaType /\ ~Busy(media) /\ dfu.state # "dfuERROR"
      /\ dfu.dl \in BOOLEAN /\ media.type = "none"
  BY <1>2 DEF SessionInv, StoreInv, MediaInv, MediaTypeOK, JobsInv, DnloadState, AbortState,
       ClassInv, ClassTypeOK, DfuType, Busy
<1>4. CASE dfu.dl
  <2>1. Loading = media
    BY <1>4, LoadingFacts
  <2>2. MediaFailed' = MediaFailed
    BY <1>1, <2>1 DEF HandledOnly, MediaFailed
  <2>3. \A c \in AppCell : KeptCell(c)' = ImageCell(c)
    BY <1>1, <1>3, <2>1 DEF HandledOnly, ImageCell, KeptCell, Cached, SectorAt
  <2> QED
    BY <1>1, <1>2, <1>3, <2>2, <2>3 DEF PromiseKept
<1>5. CASE ~dfu.dl
  <2>1. /\ ~media.dirty /\ (~MediaFailed \/ want = NoWant)
    BY <1>2, <1>5 DEF SessionInv, NoDataOutsideSession, StatesRest, DnloadState, AbortState
  <2>2. ~media'.dirty
    BY <1>1, <1>3, <1>5, LoadingFacts DEF Cancel, MediaType
  <2>3. \A c \in AppCell : KeptCell(c)' = flash[c] /\ ImageCell(c) = flash[c]
    BY <1>3, <2>1, <2>2 DEF HandledOnly, ImageCell, KeptCell
  <2>4. \A c \in AppCell : want[c] # Free => flash[c] = want[c]
    BY <1>3, <2>1, <2>3 DEF PromiseKept, NoWant
  <2> QED
    BY <1>1, <1>2, <2>3, <2>4 DEF PromiseKept
<1> QED
  BY <1>3, <1>4, <1>5

LEMMA RequestKeepsPromise ==
  ASSUME SessionInv, StatesRest, PromiseKept, "cancel" \notin Races, Request
  PROVE  PromiseKept'
<1>0. /\ HandledOnly /\ Outcome /\ media \in MediaType
      /\ ~Busy(media) \/ ~AbortState
  BY RequestOutcomes DEF SessionInv, StoreInv, MediaInv, MediaTypeOK, JobsInv
<1>1. CASE UNCHANGED <<media, want>> /\ (dfu.state # "dfuERROR" \/ dfu'.state = "dfuERROR")
  BY <1>0, <1>1, SameMediaSameImage DEF PromiseKept
<1>2. CASE StatusTaken
  <2>1. dfu.state = "dfuERROR" => dfu'.state = "dfuERROR"
    BY <1>2 DEF StatusTaken, AfterPoll
  <2> QED
    BY <1>1, <1>2, <2>1 DEF StatusTaken
<1>3. CASE ErrorTaken \/ Refused
  BY <1>3 DEF ErrorTaken, Refused, PromiseKept
<1>4. CASE Dropped
  BY <1>4 DEF Dropped, PromiseKept, NoWant
<1>5. CASE Ended
  <2>1. media' = Finish(media) /\ want' = want /\ dfu.state # "dfuERROR"
    BY <1>5 DEF Ended, DnloadState
  <2>2. /\ media'.type = media.type /\ media'.addr = media.addr /\ media'.pos = media.pos
        /\ media'.len = media.len /\ media'.data = media.data /\ media'.err = media.err
        /\ media'.valid = media.valid /\ media'.dirty = media.dirty
    BY <1>0, <2>1 DEF Finish, MediaType
  <2>3. \A c : ImageCell(c)' = ImageCell(c)
    BY <1>0, <2>2 DEF HandledOnly, ImageCell, KeptCell, Cached, SectorAt
  <2>4. MediaFailed' = MediaFailed
    BY <1>0, <2>2 DEF HandledOnly, MediaFailed
  <2> QED
    BY <2>1, <2>3, <2>4 DEF PromiseKept
<1>6. CASE NothingDone \/ AddressSet \/ ReadServed
  <2>1. dfu.state # "dfuERROR" \/ dfu'.state = "dfuERROR"
    BY <1>6 DEF NothingDone, AddressSet, ReadServed, DnloadState, UploadState
  <2> QED
    BY <1>1, <1>6, <2>1 DEF NothingDone, AddressSet, ReadServed
<1> QED
  BY <1>0, <1>2, <1>3, <1>4, <1>5, <1>6, EraseKeepsPromise, DataKeepsPromise DEF Outcome

\* A failure stays until the host has heard of it.
LEMMA FailureStays ==
  ASSUME SessionInv, PollStep, MediaFailed
  PROVE  MediaFailed'
<1>1. CASE media.err # "none"
  BY <1>1, PollErrors DEF SessionInv, StoreInv, ErrorsEndPolls, MediaFailed
<1>2. CASE mpc = "erasePublish" /\ loc.ret # "none"
  <2>1. ErasePublish
    BY <1>2 DEF PollStep, PollReturn, PollErase, PollWrite, PollFinish, FlushClean, FlushSame,
         FlushProgram, EraseStart, EraseRefused, EraseEnd, EraseFailed, ProgramPage,
         ProgramWrong, ProgramFailed, VerifyPassed, VerifyFailed, EraseRelease, WriteLookup,
         WriteLoad, WriteCopy, WriteSetDirty, WriteAdvance, FinishClear, FinishDone
  <2>2. media'.err = loc.ret
    BY <1>2, <2>1 DEF ErasePublish, SessionInv, StoreInv, MediaInv, MediaTypeOK, MediaType
  <2> QED
    BY <1>2, <2>2 DEF MediaFailed
<1> QED
  BY <1>1, <1>2 DEF MediaFailed

\* With no work at hand the poll finds nothing to fail.
LEMMA RestStays ==
  ASSUME SessionInv, PollStep, Resting
  PROVE  Resting'
<1>1. Quiet /\ ~Busy(media')
  BY MidPollIsBusy, PollMakesNoWork DEF SessionInv, StoreInv, Resting
<1>2. media.err = "none" /\ ~Busy(media) /\ (mpc = "erasePublish" => loc.ret = "none")
  BY DEF Resting, MediaFailed
<1>3. PollReturn \/ ErasePublish \/ FinishDone
  BY <1>1, <1>2 DEF Quiet, Busy, PollStep, PollReturn, PollErase, PollWrite, PollFinish,
       FlushClean, FlushSame, FlushProgram, EraseStart, EraseRefused, EraseEnd, EraseFailed,
       ProgramPage, ProgramWrong, ProgramFailed, VerifyPassed, VerifyFailed, EraseRelease,
       WriteLookup, WriteLoad, WriteCopy, WriteSetDirty, WriteAdvance, FinishClear
<1>4. media'.err = "none" /\ mpc' = "polled"
  BY <1>2, <1>3 DEF PollReturn, ErasePublish, FinishDone, Return, Goto, SessionInv, StoreInv,
       MediaInv, MediaTypeOK, MediaType
<1> QED
  BY <1>1, <1>4 DEF Resting, MediaFailed, Busy

\* The main thread changes what the host is entitled to only by failing.
LEMMA MovesKeepImage ==
  ASSUME StoreMoves, NEW a \in AppCell
  PROVE  MediaFailed' \/ ImageCell(a)' = ImageCell(a)
<1>1. Failed' = TRUE \/ Image' = Image
  BY DEF StoreMoves, Store!Work, Store!FailErase, Store!Complete, Store!EndCommit,
         Store!storeVars, Image, Failed
<1>2. Failed = MediaFailed /\ Failed' = MediaFailed'
  BY DEF Failed, MediaFailed
<1>3. CASE Image' = Image
  BY <1>3 DEF Image
<1> QED
  BY <1>1, <1>2, <1>3

\* So it keeps the promise, ...
LEMMA MainPollKeepsPromise ==
  ASSUME SessionInv, PromiseInv, MainPoll
  PROVE  PromiseInv'
<1>0. UNCHANGED <<dfu, want>>
  BY DEF MainPoll, classVars
<1>1. CASE PollStep
  <2>1. StatesRest'
    <3>1. Resting => Resting'
      BY <1>1, RestStays
    <3>2. AbortState => ~Busy(media)
      BY DEF SessionInv, JobsInv
    <3>3. /\ media'.dirty => media.dirty \/ media.type = "write"
          /\ media'.type \in {media.type, "none"}
          /\ media.finishing /\ ~media'.finishing => ~media'.dirty
      BY <1>1, PollDirties DEF SessionInv, StoreInv
    <3> QED
      BY <1>0, <3>1, <3>2, <3>3 DEF PromiseInv, StatesRest, Resting, AbortState
  <2>2. PromiseKept'
    <3>1. StoreMoves /\ (MediaFailed => MediaFailed')
      BY <1>1, PollMovesStore, FailureStays DEF SessionInv
    <3>2. \A a \in AppCell : MediaFailed' \/ ImageCell(a)' = ImageCell(a)
      BY <3>1, MovesKeepImage
    <3> QED
      BY <1>0, <3>1, <3>2 DEF PromiseInv, PromiseKept
  <2> QED
    BY <2>1, <2>2 DEF PromiseInv
<1>2. CASE PollAgain
  <2>1. /\ mpc = "polled" /\ mpc' = "enter"
        /\ UNCHANGED <<flash, sector, sectorAddr, media>>
    BY <1>2 DEF PollAgain
  <2>2. MediaFailed' = MediaFailed /\ Busy(media)' = Busy(media)
    BY <2>1 DEF MediaFailed, Busy
  <2>3. \A c : ImageCell(c)' = ImageCell(c)
    BY <2>1 DEF ImageCell, KeptCell, Cached, SectorAt
  <2> QED
    BY <1>0, <2>1, <2>2, <2>3 DEF PromiseInv, PromiseKept, StatesRest, Resting, AbortState
<1> QED
  BY <1>1, <1>2 DEF MainPoll

\* ... and so does every step.
LEMMA NextKeepsPromise ==
  ASSUME "cancel" \notin Races, "publish" \notin Races,
         SessionInv, PromiseInv, [DfuNext]_dfuVars
  PROVE  PromiseInv'
<1>1. CASE Request
  BY <1>1, RequestKeepsRest, RequestKeepsPromise DEF PromiseInv
<1>2. CASE MainPoll
  BY <1>2, MainPollKeepsPromise
<1>3. CASE DfuPowerLoss
  <2>1. want' = NoWant /\ dfu' = InitDfu
    BY <1>3 DEF DfuPowerLoss, ClassReset
  <2>2. dfu'.state = "dfuIDLE"
    BY <2>1 DEF InitDfu
  <2>3. media' = InitMedia /\ mpc' = "enter"
    BY <1>3 DEF DfuPowerLoss, PowerLoss, ResetStatics
  <2> QED
    BY <2>1, <2>2, <2>3 DEF PromiseInv, StatesRest, PromiseKept, NoWant, AbortState
<1>4. CASE UNCHANGED dfuVars
  <2>1. UNCHANGED <<media, dfu, want>> /\ HandledOnly
    BY <1>4 DEF dfuVars, mediaVars, classVars, HandledOnly
  <2> QED
    BY <2>1, SameMediaSameImage
       DEF PromiseInv, PromiseKept, StatesRest, Resting, AbortState
<1> QED
  BY <1>1, <1>2, <1>3, <1>4 DEF DfuNext, Request

LEMMA InitPromiseInv == DfuInit => PromiseInv
<1> SUFFICES ASSUME DfuInit PROVE PromiseInv
  OBVIOUS
<1>1. dfu.state = "dfuIDLE" /\ want = NoWant
  BY DEF DfuInit, ClassInit, InitDfu
<1> QED
  BY <1>1 DEF PromiseInv, StatesRest, PromiseKept, NoWant, AbortState

LEMMA PromiseHolds ==
  "cancel" \notin Races /\ "publish" \notin Races => (DfuSpec => []PromiseInv)
<1> SUFFICES ASSUME "cancel" \notin Races, "publish" \notin Races
             PROVE  DfuSpec => []PromiseInv
  OBVIOUS
<1>1. SessionInv /\ PromiseInv /\ [DfuNext]_dfuVars => PromiseInv'
  BY NextKeepsPromise
<1> QED
  BY <1>1, InitPromiseInv, SessionInvariant, PTL DEF DfuSpec

\* What the device acknowledged is in the flash, in the dirty cache or in the
\* job at hand, and in dfuDNLOAD-IDLE no longer in a job (usbd_dfu.c:60-64).
THEOREM AcknowledgedStaysKept ==
  "cancel" \notin Races /\ "publish" \notin Races => (DfuSpec => []AcknowledgedIsKept)
<1> SUFFICES ASSUME "cancel" \notin Races, "publish" \notin Races
             PROVE  DfuSpec => []AcknowledgedIsKept
  OBVIOUS
<1>1. ASSUME PromiseInv PROVE AcknowledgedIsKept
  <2>1. dfu.state = "dfuDNLOAD-IDLE" => ~MediaFailed /\ media.type = "none"
    BY <1>1 DEF PromiseInv, StatesRest, Resting, Busy
  <2> QED
    BY <1>1, <2>1, NoJobImage DEF PromiseInv, PromiseKept, AcknowledgedIsKept
<1> QED
  BY <1>1, PromiseHolds, PTL

\* dfuMANIFEST-WAIT-RESET is reported only of a session that is in the flash
\* to the last byte (usbd_dfu.c:68-71).
THEOREM ManifestDurable ==
  "cancel" \notin Races /\ "publish" \notin Races => (DfuSpec => []ManifestIsDurable)
<1> SUFFICES ASSUME "cancel" \notin Races, "publish" \notin Races
             PROVE  DfuSpec => []ManifestIsDurable
  OBVIOUS
<1>1. ASSUME PromiseInv PROVE ManifestIsDurable
  <2>1. dfu.state = "dfuMANIFEST-WAIT-RESET" =>
          ~MediaFailed /\ media.type = "none" /\ ~media.dirty
    BY <1>1 DEF PromiseInv, StatesRest, Resting, Busy
  <2> QED
    BY <1>1, <2>1, NoJobImage, CleanKept DEF PromiseInv, PromiseKept, ManifestIsDurable
<1> QED
  BY <1>1, PromiseHolds, PTL

=============================================================================
