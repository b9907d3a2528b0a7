---------------------------- MODULE UsbdDfuProofs ----------------------------
(***************************************************************************)
(* What TLAPS proves of the DFU class and its binding over the media       *)
(* backend, for every geometry and every set of block numbers, addresses,  *)
(* payloads, faults and races that UsbdDfu admits.                         *)
(*                                                                         *)
(* A step is one of the main thread, a power loss, or a request; a request *)
(* touches the backend through its calls only, so that the invariants of   *)
(* DfuFlashProofs carry over to DfuSpec.                                   *)
(***************************************************************************)
EXTENDS UsbdDfu, DfuFlashProofs

Request == StatusRequest \/ Command \/ BusReset

\* A request leaves the flash and the main thread alone.
HandledOnly == UNCHANGED <<flash, sector, sectorAddr, mpc, loc>>

DfuType == [state : State, status : Status, dl : BOOLEAN, ul : BOOLEAN]

BindType ==
  [ptr : AppCell, exec : {a \in AppCell : a % WordCells = 0}, dfuse : BOOLEAN, wait : Nat]

WantType == [AppCell -> Cell \cup {Free}]

\* DfuTypeOK says of bind's fields only; ClassTypeOK makes it a record.
ClassTypeOK ==
  /\ dfu \in DfuType /\ bind \in BindType /\ fresh \in BOOLEAN /\ want \in WantType

ClassInv == ClassTypeOK /\ StatusMatchesState

\* No job outlives the states in which the class takes a new one, and nothing
\* the main thread reports is "busy".
JobsInv ==
  /\ JobsAreSerialised
  /\ AbortState => ~Busy(media)
  /\ loc.ret # "busy"

(***************************************************************************)
(* The calls a request makes to the backend.                               *)
(***************************************************************************)

\* The record a first or a later data block starts from.
LEMMA LoadingOK == MediaInv => RequestOK(Loading) /\ RequestOK(media)
<1> SUFFICES ASSUME MediaInv PROVE RequestOK(Loading) /\ RequestOK(media)
  OBVIOUS
<1>1. RequestOK(media)
  BY DEF MediaInv, MediaTypeOK, JobInApp, RequestOK
<1> QED
  BY <1>1, CancelOK DEF Loading

\* A refused read leaves a typed error.
LEMMA ReadErrorOK ==
  ASSUME MediaInv, NEW b
  PROVE  /\ ReadError(b) \in MediaError
         /\ RequestOK([media EXCEPT !.err = ReadError(b)])
<1>1. media.err \in MediaError /\ media \in MediaType
  BY DEF MediaInv, MediaTypeOK, MediaType
<1>2. ReadError(b) \in MediaError
  BY <1>1 DEF ReadError, MediaError
<1> QED
  BY <1>1, <1>2, LoadingOK DEF RequestOK, MediaType

\* Every request of the class is such a call.
LEMMA RequestStepOK ==
  ASSUME MediaInv, Request
  PROVE  RequestOK(media') /\ HandledOnly
<1> USE DEF Handled, HandledOnly, mainVars
<1>0. RequestOK(media)
  BY LoadingOK
<1>1. CASE GetStateOrStall \/ GetStatusError \/ GetStatus
  <2>1. media' = media /\ HandledOnly
    BY <1>1 DEF GetStateOrStall, GetStatusError, GetStatus
  <2> QED
    BY <1>0, <2>1
<1>2. CASE ClrStatus \/ Abort \/ BusReset
  BY <1>2, CancelOK DEF ClrStatus, Abort, BusReset
<1>3. CASE DnloadEnd
  BY <1>3, FinishOK DEF DnloadEnd
<1>4. ASSUME NEW a \in HostAddrs, SetAddress(a) \/ SetExecAddress(a)
      PROVE  RequestOK(media') /\ HandledOnly
  <2>1. media' = media /\ HandledOnly
    BY <1>4 DEF SetAddress, SetExecAddress, Commanded
  <2> QED
    BY <1>0, <2>1
<1>5. ASSUME NEW a \in HostAddrs, EraseCommand(a)
      PROVE  RequestOK(media') /\ HandledOnly
  <2>1. media' = QueueErase(media, a) /\ HandledOnly
    BY <1>5 DEF EraseCommand, Commanded
  <2> QED
    BY <1>0, <2>1, QueueEraseOK
<1>6. ASSUME NEW b \in HostBlocks, NEW p \in Payloads, DnloadData(b, p)
      PROVE  RequestOK(media') /\ HandledOnly
  <2>1. /\ media' = IF BlockValid(b) THEN QueueWrite(Loading, BlockAddress(b), p) ELSE Loading
        /\ HandledOnly
    BY <1>6 DEF DnloadData
  <2>2. RequestOK(Loading) /\ RequestOK(QueueWrite(Loading, BlockAddress(b), p))
    BY LoadingOK, QueueWriteOK
  <2> QED
    BY <2>1, <2>2
<1>7. ASSUME NEW b \in HostBlocks, UploadRefused(b)
      PROVE  RequestOK(media') /\ HandledOnly
  <2>1. media' = [media EXCEPT !.err = ReadError(b)] /\ HandledOnly
    BY <1>7 DEF UploadRefused
  <2> QED
    BY <2>1, ReadErrorOK
<1>8. ASSUME NEW b \in HostBlocks, NEW n \in 0 .. UploadMax, Upload(b, n)
      PROVE  RequestOK(media') /\ HandledOnly
  <2>1. media' = media /\ HandledOnly
    BY <1>8 DEF Upload
  <2> QED
    BY <1>0, <2>1
<1> QED
  BY <1>1, <1>2, <1>3, <1>4, <1>5, <1>6, <1>7, <1>8 DEF Request, StatusRequest, Command

(***************************************************************************)
(* The backend's invariants under the class.                               *)
(***************************************************************************)

\* A step of the class is a step of the backend or a request.
LEMMA StepKinds ==
  ASSUME [DfuNext]_dfuVars
  PROVE  \/ MediaNext \/ UNCHANGED mediaVars
         \/ Request
  BY DEF DfuNext, MainPoll, DfuPowerLoss, MediaNext, Request, dfuVars

\* MediaInv and CoherentInv are inductive under DfuSpec too.
LEMMA ClassKeepsMediaInv ==
  MediaInv /\ CoherentInv /\ [DfuNext]_dfuVars => MediaInv' /\ CoherentInv'
<1> SUFFICES ASSUME MediaInv, CoherentInv, [DfuNext]_dfuVars
             PROVE  MediaInv' /\ CoherentInv'
  OBVIOUS
<1>1. CASE MediaNext \/ UNCHANGED mediaVars
  BY <1>1, NextKeepsMediaInv, NextKeepsCoherentInv
<1>2. CASE Request
  BY <1>2, RequestStepOK, RequestKeepsMediaInv, RequestKeepsCoherentInv DEF HandledOnly
<1> QED
  BY <1>1, <1>2, StepKinds

\* Both hold at start-up.
LEMMA DfuInitMediaInv == DfuInit => MediaInv /\ CoherentInv
<1>1. MediaInit => CoherentInv
  BY DEF MediaInit, InitMedia, CoherentInv, CacheCoherent, FlushedIsDirty, ErasedIsUncached
<1> QED
  BY <1>1, InitMediaInv DEF DfuInit

\* The statics of dfu_flash.c keep MediaInv and the cache stays coherent.
THEOREM MediaInvUnderClass == DfuSpec => [](MediaInv /\ CoherentInv)
  BY DfuInitMediaInv, ClassKeepsMediaInv, PTL DEF DfuSpec

\* No DFU request, at any block number or DfuSe address, and no cancel, fault,
\* bus reset or power loss changes the bootloader.
THEOREM ClassKeepsBootloader == DfuSpec => BootloaderIntact
<1>1. ASSUME MediaInv, [DfuNext]_dfuVars
      PROVE  [\A a \in 0 .. AppBase - 1 : flash'[a] = flash[a]]_mediaVars
  <2>1. CASE UNCHANGED mediaVars
    BY <2>1
  <2>2. CASE Request
    BY <1>1, <2>2, RequestStepOK DEF HandledOnly
  <2>3. CASE MediaNext
    <3>1. SUFFICES ASSUME NEW a \in 0 .. AppBase - 1, flash'[a] # flash[a] PROVE FALSE
      OBVIOUS
    <3>2. a \in Addr
      BY Sizes DEF Addr
    <3>3. mpc \in BurnPc /\ a \in SectorAt(OpSector)
      BY <1>1, <2>3, <3>1, <3>2, FlashChanges
    <3>4. AppBase <= a
      BY <1>1, <3>3, OpSectorInApp
    <3> QED
      BY <3>4, Sizes
  <2> QED
    BY <1>1, <2>1, <2>2, <2>3, StepKinds
<1> QED
  BY <1>1, MediaInvUnderClass, PTL DEF DfuSpec, BootloaderIntact

\* A clean valid cache equals the sector it stands for under every sequence
\* of requests the class lets through.
THEOREM ClassKeepsCoherence == DfuSpec => []CacheCoherent
<1>1. CoherentInv => CacheCoherent
  BY DEF CoherentInv
<1> QED
  BY <1>1, MediaInvUnderClass, PTL

(***************************************************************************)
(* The class and binding variables.                                        *)
(***************************************************************************)

\* Each media error has a status, and only "none" has the status OK.
LEMMA StatusFacts ==
  /\ \A e \in MediaError : StatusOf[e] \in Status /\ (StatusOf[e] = "OK" => e = "none")
  /\ {"OK", "errADDRESS", "errWRITE"} \subseteq Status
<1>1. \A e \in MediaError : StatusOf[e] \in Status
  BY DEF Status
<1>2. \A e \in MediaError : StatusOf[e] = "OK" => e = "none"
  BY DEF StatusOf, MediaError
<1>3. /\ {"none", "address", "write"} \subseteq MediaError
      /\ StatusOf["none"] = "OK" /\ StatusOf["address"] = "errADDRESS"
      /\ StatusOf["write"] = "errWRITE"
  BY DEF StatusOf, MediaError
<1> QED
  BY <1>1, <1>2, <1>3

\* dfu_set_error always leaves a status other than OK, in dfuERROR.
LEMMA SetErrorFacts ==
  ASSUME NEW d \in DfuType, NEW m, m.err \in MediaError,
         NEW fallback \in {"errADDRESS", "errWRITE"}
  PROVE  /\ SetError(d, m, fallback) \in DfuType
         /\ SetError(d, m, fallback).state = "dfuERROR"
         /\ SetError(d, m, fallback).status # "OK"
<1> DEFINE s == IF m.err = "none" THEN fallback ELSE StatusOf[m.err]
<1>1. s \in Status /\ s # "OK"
  BY StatusFacts
<1>2. SetError(d, m, fallback) = [d EXCEPT !.status = s, !.state = "dfuERROR"]
  BY DEF SetError
<1> HIDE DEF s
<1> QED
  BY <1>1, <1>2 DEF DfuType, State

\* The geometry puts APP_BASE in the application, aligned for execution.
LEMMA BaseIsAligned == AppBase \in AppCell /\ AppBase % WordCells = 0 /\ 0 \in Nat
  BY Sizes, BindingAssumption DEF AppCell

\* reset_addressing and the abort callback leave a typed binding.
LEMMA AbortBindingOK ==
  ASSUME NEW b \in BindType
  PROVE  ResetAddressing(b) \in BindType /\ AbortBinding(b) \in BindType
  BY BaseIsAligned DEF BindType, ResetAddressing, AbortBinding

\* The history variable's blank is typed.
LEMMA NoWantOK == NoWant \in WantType
  BY DEF NoWant, WantType

\* The statics of the class after a reset.
LEMMA InitialClass ==
  InitDfu \in DfuType /\ InitBind \in BindType /\ NoWant \in WantType
  BY BaseIsAligned, StatusFacts, NoWantOK DEF InitDfu, InitBind, DfuType, BindType, State

\* AfterPoll never enters dfuERROR, and leaves it alone.
LEMMA AfterPollFacts ==
  ASSUME dfu \in DfuType
  PROVE  AfterPoll \in State /\ (AfterPoll = "dfuERROR" <=> dfu.state = "dfuERROR")
  BY DEF AfterPoll, DfuType, State

\* What a request must leave for the class to stay typed and consistent.
Consistent(d) == d \in DfuType /\ (d.status # "OK" <=> d.state = "dfuERROR")

\* A request rejected with dfu_set_error.
LEMMA ErrorConsistent ==
  ASSUME NEW d \in DfuType, NEW m, m.err \in MediaError,
         NEW fallback \in {"errADDRESS", "errWRITE"}
  PROVE  Consistent(SetError(d, m, fallback))
  BY SetErrorFacts DEF Consistent

\* Every handler keeps status and state in step, whatever the backend
\* answered.
LEMMA RequestConsistent ==
  ASSUME MediaInv, ClassInv, Request
  PROVE  Consistent(dfu')
<1> USE DEF Handled
<1>0. Consistent(dfu) /\ dfu \in DfuType
  BY DEF ClassInv, ClassTypeOK, StatusMatchesState, Consistent
<1>m. RequestOK(media) /\ RequestOK(Loading) /\ media.err \in MediaError
  BY LoadingOK DEF RequestOK, MediaType
<1>1. CASE GetStateOrStall
  BY <1>0, <1>1 DEF GetStateOrStall
<1>2. CASE GetStatusError
  <2>1. /\ dfu' = [dfu EXCEPT !.status = StatusOf[media.err], !.state = "dfuERROR"]
        /\ media.err # "none"
    BY <1>2 DEF GetStatusError
  <2>2. StatusOf[media.err] \in Status /\ StatusOf[media.err] # "OK"
    BY <1>m, <2>1, StatusFacts
  <2> QED
    BY <1>0, <2>1, <2>2 DEF Consistent, DfuType, State
<1>3. CASE GetStatus
  <2>1. dfu' = [dfu EXCEPT !.state = AfterPoll]
    BY <1>3 DEF GetStatus
  <2> QED
    BY <1>0, <2>1, AfterPollFacts DEF Consistent, DfuType
<1>4. CASE ClrStatus \/ BusReset
  <2>1. dfu' = [CancelClass(dfu) EXCEPT !.status = "OK", !.state = "dfuIDLE"]
    BY <1>4, <1>0 DEF ClrStatus, BusReset, CancelClass, DfuType
  <2> QED
    BY <1>0, <2>1, StatusFacts DEF Consistent, DfuType, CancelClass, State
<1>5. CASE Abort
  <2>1. dfu' = [CancelClass(dfu) EXCEPT !.state = "dfuIDLE"] /\ dfu.state # "dfuERROR"
    BY <1>5 DEF Abort, AbortState
  <2> QED
    BY <1>0, <2>1 DEF Consistent, DfuType, CancelClass, State
<1>6. CASE DnloadEnd
  <2>1. dfu' = [dfu EXCEPT !.dl = FALSE, !.state = "dfuMANIFEST-SYNC"] /\ dfu.state # "dfuERROR"
    BY <1>6 DEF DnloadEnd, DnloadState
  <2> QED
    BY <1>0, <2>1 DEF Consistent, DfuType, State
<1>7. ASSUME NEW ok \in BOOLEAN, NEW m, RequestOK(m), NEW b, NEW w, Commanded(ok, m, b, w)
      PROVE  Consistent(dfu')
  <2>1. /\ dfu' = IF ok THEN [dfu EXCEPT !.state = "dfuDNLOAD-SYNC"]
                  ELSE SetError(dfu, m, "errADDRESS")
        /\ dfu.state # "dfuERROR"
    BY <1>7 DEF Commanded, DnloadState
  <2>2. m.err \in MediaError
    BY <1>7 DEF RequestOK, MediaType
  <2>3. Consistent([dfu EXCEPT !.state = "dfuDNLOAD-SYNC"])
    BY <1>0, <2>1 DEF Consistent, DfuType, State
  <2>4. Consistent(SetError(dfu, m, "errADDRESS"))
    BY <1>0, <2>2, ErrorConsistent
  <2> QED
    BY <2>1, <2>3, <2>4
<1>8. ASSUME NEW a \in HostAddrs, SetAddress(a) \/ SetExecAddress(a) \/ EraseCommand(a)
      PROVE  Consistent(dfu')
  <2>1. RequestOK(QueueErase(media, a))
    BY <1>m, QueueEraseOK
  <2>2. /\ AddressValid(a, 1) \in BOOLEAN
        /\ (AddressValid(a, 1) /\ a % WordCells = 0) \in BOOLEAN
        /\ EraseAccepted(media, a) \in BOOLEAN
    BY DEF AddressValid, EraseAccepted
  <2>3. CASE SetAddress(a)
    BY <1>7, <1>m, <2>2, <2>3 DEF SetAddress
  <2>4. CASE SetExecAddress(a)
    BY <1>7, <1>m, <2>2, <2>4 DEF SetExecAddress
  <2>5. CASE EraseCommand(a)
    BY <1>7, <2>1, <2>2, <2>5 DEF EraseCommand
  <2> QED
    BY <1>8, <2>3, <2>4, <2>5
<1>9. ASSUME NEW b \in HostBlocks, NEW p \in Payloads, DnloadData(b, p)
      PROVE  Consistent(dfu')
  <2> DEFINE d  == [dfu EXCEPT !.dl = TRUE]
             m  == IF BlockValid(b) THEN QueueWrite(Loading, BlockAddress(b), p) ELSE Loading
             ok == BlockValid(b) /\ WriteAccepted(Loading, BlockAddress(b), Length(p))
  <2>1. /\ dfu' = IF ok THEN [d EXCEPT !.state = "dfuDNLOAD-SYNC"]
                  ELSE SetError(d, m, "errWRITE")
        /\ dfu.state # "dfuERROR"
    BY <1>9 DEF DnloadData, DnloadState
  <2>2. RequestOK(QueueWrite(Loading, BlockAddress(b), p))
    BY <1>m, QueueWriteOK
  <2>3. m.err \in MediaError
    BY <1>m, <2>2 DEF RequestOK, MediaType
  <2>4. d \in DfuType
    BY <1>0 DEF DfuType
  <2>5. Consistent([d EXCEPT !.state = "dfuDNLOAD-SYNC"])
    BY <1>0, <2>1 DEF Consistent, DfuType, State
  <2> HIDE DEF d, m, ok
  <2>6. Consistent(SetError(d, m, "errWRITE"))
    BY <2>3, <2>4, ErrorConsistent
  <2> QED
    BY <2>1, <2>5, <2>6
<1>10. ASSUME NEW b \in HostBlocks, UploadRefused(b)
       PROVE  Consistent(dfu')
  <2> DEFINE m == [media EXCEPT !.err = ReadError(b)]
  <2>1. dfu' = SetError([dfu EXCEPT !.ul = TRUE], m, "errADDRESS")
    BY <1>10 DEF UploadRefused
  <2>2. RequestOK(m)
    BY ReadErrorOK
  <2>3. m.err \in MediaError /\ [dfu EXCEPT !.ul = TRUE] \in DfuType
    BY <1>0, <2>2 DEF RequestOK, MediaType, DfuType
  <2> HIDE DEF m
  <2> QED
    BY <2>1, <2>3, ErrorConsistent
<1>11. ASSUME NEW b \in HostBlocks, NEW n \in 0 .. UploadMax, Upload(b, n)
       PROVE  Consistent(dfu')
  <2> DEFINE short == AppEnd - BlockAddress(b) < n
             s == IF short THEN "dfuIDLE" ELSE "dfuUPLOAD-IDLE"
  <2>1. dfu' = [dfu EXCEPT !.ul = ~short, !.state = s] /\ dfu.state # "dfuERROR"
    BY <1>11 DEF Upload, UploadState
  <2>2. s \in State \ {"dfuERROR"} /\ short \in BOOLEAN
    BY DEF State
  <2> HIDE DEF short, s
  <2> QED
    BY <1>0, <2>1, <2>2 DEF Consistent, DfuType
<1> QED
  BY <1>1, <1>2, <1>3, <1>4, <1>5, <1>6, <1>8, <1>9, <1>10, <1>11
     DEF Request, StatusRequest, Command

\* The addresses, the execute address and the history variable stay typed.
LEMMA RequestBindType ==
  ASSUME bind \in BindType, want \in WantType, Request
  PROVE  bind' \in BindType /\ want' \in WantType /\ fresh' \in BOOLEAN
<1> USE DEF Handled
<1>0. bind \in BindType /\ want \in WantType
  OBVIOUS
<1>a. ResetAddressing(bind) \in BindType /\ AbortBinding(bind) \in BindType /\ NoWant \in WantType
  BY <1>0, AbortBindingOK, NoWantOK
<1>1. CASE GetStateOrStall \/ GetStatusError \/ GetStatus \/ DnloadEnd
  BY <1>0, <1>1 DEF GetStateOrStall, GetStatusError, GetStatus, DnloadEnd
<1>2. CASE ClrStatus \/ Abort \/ BusReset
  BY <1>a, <1>2 DEF ClrStatus, Abort, BusReset
<1>3. ASSUME NEW a \in HostAddrs, SetAddress(a)
      PROVE  bind' \in BindType /\ want' \in WantType /\ fresh' \in BOOLEAN
  <2>1. /\ bind' = IF AddressValid(a, 1) THEN [bind EXCEPT !.ptr = a, !.dfuse = TRUE] ELSE bind
        /\ want' = want /\ fresh' = TRUE
    BY <1>3 DEF SetAddress, Commanded
  <2>2. AddressValid(a, 1) => a \in AppCell
    BY DEF AddressValid
  <2> QED
    BY <1>0, <2>1, <2>2 DEF BindType
<1>4. ASSUME NEW a \in HostAddrs, SetExecAddress(a)
      PROVE  bind' \in BindType /\ want' \in WantType /\ fresh' \in BOOLEAN
  <2> DEFINE ok == AddressValid(a, 1) /\ a % WordCells = 0
  <2>1. /\ bind' = IF ok THEN [bind EXCEPT !.exec = a] ELSE bind
        /\ want' = want /\ fresh' = TRUE
    BY <1>4 DEF SetExecAddress, Commanded
  <2>2. ok => a \in {c \in AppCell : c % WordCells = 0}
    BY DEF AddressValid
  <2> HIDE DEF ok
  <2> QED
    BY <1>0, <2>1, <2>2 DEF BindType
<1>5. ASSUME NEW a \in HostAddrs, EraseCommand(a)
      PROVE  bind' \in BindType /\ want' \in WantType /\ fresh' \in BOOLEAN
  <2> DEFINE erased == [c \in AppCell |-> IF c \in SectorAt(a) THEN Erased ELSE want[c]]
  <2>1. bind' = bind /\ fresh' = TRUE /\ want' \in {erased, want}
    BY <1>5 DEF EraseCommand, Commanded
  <2>2. erased \in WantType
    BY <1>0, DataAssumption DEF WantType
  <2> QED
    BY <1>0, <2>1, <2>2
<1>6. ASSUME NEW b \in HostBlocks, NEW p \in Payloads, DnloadData(b, p)
      PROVE  bind' \in BindType /\ want' \in WantType /\ fresh' \in BOOLEAN
  <2> DEFINE a  == BlockAddress(b)
             ok == BlockValid(b) /\ WriteAccepted(Loading, a, Length(p))
  <2>1. /\ bind' \in {bind, [bind EXCEPT !.wait = 0]} /\ fresh' = TRUE
        /\ want' = [c \in AppCell |-> IF ok /\ c - a \in DOMAIN p THEN p[c - a] ELSE want[c]]
    BY <1>6 DEF DnloadData, LoadingBinding
  <2>2. \A i \in DOMAIN p : p[i] \in Cell
    BY DataAssumption
  <2> HIDE DEF a, ok
  <2>3. want' \in WantType
    BY <1>0, <2>1, <2>2 DEF WantType
  <2> QED
    BY <1>0, <2>1, <2>3, BaseIsAligned DEF BindType
<1>7. ASSUME NEW b \in HostBlocks,
             UploadRefused(b) \/ \E n \in 0 .. UploadMax : Upload(b, n)
      PROVE  bind' \in BindType /\ want' \in WantType /\ fresh' \in BOOLEAN
  <2>1. bind' \in {bind, ResetAddressing(bind)} /\ want' = want /\ fresh' = TRUE
    BY <1>7 DEF UploadRefused, Upload
  <2> QED
    BY <1>0, <1>a, <2>1
<1> QED
  BY <1>1, <1>2, <1>3, <1>4, <1>5, <1>6, <1>7 DEF Request, StatusRequest, Command

\* ClassInv is inductive, given that the backend's record stays typed.
LEMMA NextKeepsClassInv == MediaInv /\ ClassInv /\ [DfuNext]_dfuVars => ClassInv'
<1> SUFFICES ASSUME MediaInv, ClassInv, [DfuNext]_dfuVars PROVE ClassInv'
  OBVIOUS
<1>1. CASE Request
  BY <1>1, RequestConsistent, RequestBindType
     DEF ClassInv, ClassTypeOK, StatusMatchesState, Consistent
<1>2. CASE MainPoll \/ UNCHANGED dfuVars
  BY <1>2 DEF MainPoll, dfuVars, classVars, ClassInv, ClassTypeOK, StatusMatchesState
<1>3. CASE DfuPowerLoss
  <2>1. dfu' = InitDfu /\ bind' = InitBind /\ fresh' = FALSE /\ want' = NoWant
    BY <1>3 DEF DfuPowerLoss, ClassReset
  <2> QED
    BY <2>1, InitialClass DEF ClassInv, ClassTypeOK, StatusMatchesState, InitDfu
<1> QED
  BY <1>1, <1>2, <1>3 DEF DfuNext, Request

\* It holds at start-up.
LEMMA InitClassInv == DfuInit => ClassInv
<1> SUFFICES ASSUME DfuInit PROVE ClassInv
  OBVIOUS
<1>1. dfu = InitDfu /\ bind = InitBind /\ fresh = FALSE /\ want = NoWant
  BY DEF DfuInit, ClassInit
<1> QED
  BY <1>1, InitialClass DEF ClassInv, ClassTypeOK, StatusMatchesState, InitDfu

\* g_dfu and dfu_usb.c's statics keep their types, and bStatus and bState
\* their agreement.
THEOREM ClassInvariant == DfuSpec => []ClassInv
  BY InitClassInv, NextKeepsClassInv, MediaInvUnderClass, PTL DEF DfuSpec

\* The address pointer and the execute address always lie in the application
\* and the execute address is one the core can jump to.
THEOREM ClassTypes == DfuSpec => []DfuTypeOK
<1>1. ClassInv => DfuTypeOK
  BY DEF ClassInv, ClassTypeOK, DfuTypeOK, DfuType, BindType, WantType
<1> QED
  BY <1>1, ClassInvariant, PTL

\* The device reports a status other than OK exactly while it is in dfuERROR.
THEOREM StatusAlwaysMatchesState == DfuSpec => []StatusMatchesState
<1>1. ClassInv => StatusMatchesState
  BY DEF ClassInv
<1> QED
  BY <1>1, ClassInvariant, PTL

(***************************************************************************)
(* Jobs are serialised.                                                    *)
(***************************************************************************)

\* No step of the poll makes work, and none reports "busy".
LEMMA PollMakesNoWork ==
  ASSUME MediaInv, PollStep
  PROVE  /\ ~Busy(media) => ~Busy(media')
         /\ media.err # "busy" /\ loc.ret # "busy" => media'.err # "busy" /\ loc'.ret # "busy"
<1> USE DEF Busy, MediaInv, MediaTypeOK, MediaType, LocalsType, MediaError, NoLocals, Return
<1>1. CASE PollReturn \/ PollErase \/ PollWrite \/ PollFinish
  BY <1>1 DEF PollReturn, PollErase, PollWrite, PollFinish
<1>2. CASE FlushClean \/ FlushSame \/ FlushProgram \/ VerifyPassed
  BY <1>2 DEF FlushClean, FlushSame, FlushProgram, VerifyPassed, FlushReturn
<1>3. CASE EraseRefused \/ EraseFailed \/ ProgramFailed \/ VerifyFailed
  BY <1>3 DEF EraseRefused, EraseFailed, ProgramFailed, VerifyFailed, OpFailed
<1>4. CASE EraseStart \/ EraseEnd \/ ProgramPage \/ ProgramWrong
  BY <1>4 DEF EraseStart, EraseEnd, ProgramPage, ProgramWrong, NextPage
<1>5. CASE EraseRelease \/ ErasePublish
  BY <1>5 DEF EraseRelease, ErasePublish
<1>6. CASE WriteLookup \/ WriteLoad \/ WriteSetDirty \/ FinishClear \/ FinishDone
  BY <1>6 DEF WriteLookup, WriteLoad, WriteSetDirty, FinishClear, FinishDone
<1>7. CASE WriteCopy
  <2>1. media' = media /\ \E p \in PosReads : loc' = [loc EXCEPT !.pos = p]
    BY <1>7 DEF WriteCopy
  <2> QED
    BY <2>1
<1>8. CASE WriteAdvance
  <2>1. loc' = [NoLocals EXCEPT !.ret = "progress"]
    BY <1>8 DEF WriteAdvance
  <2>2. PICK p \in PosReads, n \in LenReads :
          media' = [media EXCEPT !.pos = (p + loc.chunk) % PosMod,
                                 !.type = IF (p + loc.chunk) % PosMod = n THEN "none" ELSE @]
    BY <1>8 DEF WriteAdvance
  <2> QED
    BY <2>1, <2>2
<1> QED
  BY <1>1, <1>2, <1>3, <1>4, <1>5, <1>6, <1>7, <1>8 DEF PollStep

\* Cancelling and beginning leave no work and no "busy".
LEMMA CancelledIsIdle ==
  ASSUME MediaInv
  PROVE  /\ ~Busy(Cancel(media)) /\ Cancel(media).err # "busy"
         /\ media.err # "busy" => Loading.err # "busy"
         /\ ~Busy(media) => ~Busy(Loading)
  BY DEF MediaInv, MediaTypeOK, MediaType, Busy, Cancel, Begin, Loading, TargetError

\* A write is refused as "busy" only when there is a job or a flush.
LEMMA WriteNotBusy ==
  ASSUME NEW m, RequestOK(m), ~Busy(m), m.err # "busy", NEW a, NEW p \in Payloads
  PROVE  QueueWrite(m, a, p).err # "busy"
<1>1. WriteRefusal(m, a, Length(p)) # "busy"
  BY DEF WriteRefusal
<1> QED
  BY <1>1 DEF QueueWrite, RequestOK, MediaType

\* Every handler keeps JobsInv: those that queue run in states without work,
\* and only dfuDNLOAD-SYNC, dfuMANIFEST-SYNC or dfuERROR follow them.
LEMMA RequestKeepsJobsInv ==
  ASSUME MediaInv, ClassInv, JobsInv, Request
  PROVE  JobsInv'
<1> USE DEF Handled, mainVars
<1>0. /\ dfu \in DfuType /\ RequestOK(media) /\ RequestOK(Loading)
      /\ media.err # "busy" /\ (AbortState => ~Busy(media)) /\ loc.ret # "busy"
  BY LoadingOK DEF ClassInv, ClassTypeOK, JobsInv, JobsAreSerialised
<1>a. ASSUME media'.err # "busy", loc' = loc,
             dfu'.state \in {"dfuIDLE", "dfuDNLOAD-IDLE", "dfuUPLOAD-IDLE"} => ~Busy(media')
      PROVE  JobsInv'
  BY <1>0, <1>a DEF JobsInv, JobsAreSerialised, AbortState, Busy
<1>1. CASE GetStateOrStall
  BY <1>0, <1>1, <1>a DEF GetStateOrStall, AbortState
<1>2. CASE GetStatusError
  BY <1>0, <1>2, <1>a DEF GetStatusError, DfuType
<1>3. CASE GetStatus
  <2>1. /\ dfu' = [dfu EXCEPT !.state = AfterPoll] /\ media' = media /\ loc' = loc
    BY <1>3 DEF GetStatus
  <2>2. AfterPoll \in {"dfuIDLE", "dfuDNLOAD-IDLE", "dfuUPLOAD-IDLE"} => ~Busy(media)
    BY <1>0 DEF AfterPoll, AbortState
  <2> QED
    BY <1>0, <1>a, <2>1, <2>2 DEF DfuType
<1>4. CASE ClrStatus \/ Abort \/ BusReset
  BY <1>4, <1>a, CancelledIsIdle DEF ClrStatus, Abort, BusReset
<1>5. CASE DnloadEnd
  <2>1. media' = Finish(media) /\ loc' = loc /\ dfu'.state = "dfuMANIFEST-SYNC"
    BY <1>0, <1>5 DEF DnloadEnd, DfuType
  <2>2. Finish(media).err = media.err
    BY <1>0 DEF Finish, RequestOK, MediaType
  <2> QED
    BY <1>0, <1>a, <2>1, <2>2
<1>6. ASSUME NEW ok \in BOOLEAN, NEW m, RequestOK(m), m.err # "busy", NEW b, NEW w,
             Commanded(ok, m, b, w)
      PROVE  JobsInv'
  <2>1. /\ media' = m /\ loc' = loc
        /\ dfu' = IF ok THEN [dfu EXCEPT !.state = "dfuDNLOAD-SYNC"]
                  ELSE SetError(dfu, m, "errADDRESS")
    BY <1>6 DEF Commanded
  <2>2. m.err \in MediaError
    BY <1>6 DEF RequestOK, MediaType
  <2>3. dfu'.state \in {"dfuDNLOAD-SYNC", "dfuERROR"}
    BY <1>0, <2>1, <2>2, SetErrorFacts DEF DfuType
  <2> QED
    BY <1>6, <1>a, <2>1, <2>3
<1>7. ASSUME NEW a \in HostAddrs, SetAddress(a) \/ SetExecAddress(a)
      PROVE  JobsInv'
  <2>1. /\ AddressValid(a, 1) \in BOOLEAN
        /\ (AddressValid(a, 1) /\ a % WordCells = 0) \in BOOLEAN
    BY DEF AddressValid
  <2> QED
    BY <1>0, <1>6, <1>7, <2>1 DEF SetAddress, SetExecAddress
<1>8. ASSUME NEW a \in HostAddrs, EraseCommand(a)
      PROVE  JobsInv'
  <2>1. ~Busy(media)
    BY <1>0, <1>8 DEF EraseCommand, Commanded, DnloadState, AbortState
  <2>2. RequestOK(QueueErase(media, a)) /\ QueueErase(media, a).err # "busy"
    <3>1. EraseRefusal(media, a) # "busy"
      BY <2>1 DEF EraseRefusal
    <3> QED
      BY <1>0, <3>1, QueueEraseOK DEF QueueErase, RequestOK, MediaType
  <2>3. EraseAccepted(media, a) \in BOOLEAN
    BY DEF EraseAccepted
  <2> QED
    BY <1>6, <1>8, <2>2, <2>3 DEF EraseCommand
<1>9. ASSUME NEW b \in HostBlocks, NEW p \in Payloads, DnloadData(b, p)
      PROVE  JobsInv'
  <2> DEFINE d  == [dfu EXCEPT !.dl = TRUE]
             m  == IF BlockValid(b) THEN QueueWrite(Loading, BlockAddress(b), p) ELSE Loading
             ok == BlockValid(b) /\ WriteAccepted(Loading, BlockAddress(b), Length(p))
  <2>1. /\ media' = m /\ loc' = loc /\ DnloadState
        /\ dfu' = IF ok THEN [d EXCEPT !.state = "dfuDNLOAD-SYNC"]
                  ELSE SetError(d, m, "errWRITE")
    BY <1>9 DEF DnloadData
  <2>2. ~Busy(Loading) /\ Loading.err # "busy"
    BY <1>0, <2>1, CancelledIsIdle DEF DnloadState, AbortState
  <2>3. /\ RequestOK(QueueWrite(Loading, BlockAddress(b), p))
        /\ QueueWrite(Loading, BlockAddress(b), p).err # "busy"
    BY <1>0, <2>2, QueueWriteOK, WriteNotBusy
  <2>4. m.err \in MediaError /\ m.err # "busy"
    BY <1>0, <2>2, <2>3 DEF RequestOK, MediaType
  <2>5. d \in DfuType
    BY <1>0 DEF DfuType
  <2> HIDE DEF d, m, ok
  <2>6. dfu'.state \in {"dfuDNLOAD-SYNC", "dfuERROR"}
    BY <2>1, <2>4, <2>5, SetErrorFacts DEF DfuType
  <2> QED
    BY <1>a, <2>1, <2>4, <2>6
<1>10. ASSUME NEW b \in HostBlocks, UploadRefused(b)
       PROVE  JobsInv'
  <2> DEFINE m == [media EXCEPT !.err = ReadError(b)]
  <2>1. /\ media' = m /\ loc' = loc
        /\ dfu' = SetError([dfu EXCEPT !.ul = TRUE], m, "errADDRESS")
    BY <1>10 DEF UploadRefused
  <2>2. ReadError(b) # "busy"
    BY <1>0 DEF ReadError
  <2>3. m.err = ReadError(b) /\ m.err \in MediaError /\ [dfu EXCEPT !.ul = TRUE] \in DfuType
    BY <1>0, ReadErrorOK DEF RequestOK, MediaType, DfuType
  <2> HIDE DEF m
  <2>4. dfu'.state = "dfuERROR"
    BY <2>1, <2>3, SetErrorFacts
  <2> QED
    BY <1>a, <2>1, <2>2, <2>3, <2>4
<1>11. ASSUME NEW b \in HostBlocks, NEW n \in 0 .. UploadMax, Upload(b, n)
       PROVE  JobsInv'
  <2>1. media' = media /\ loc' = loc /\ ~Busy(media)
    BY <1>0, <1>11 DEF Upload, UploadState, AbortState
  <2> QED
    BY <1>0, <1>a, <2>1
<1> QED
  BY <1>1, <1>2, <1>3, <1>4, <1>5, <1>7, <1>8, <1>9, <1>10, <1>11
     DEF Request, StatusRequest, Command

\* JobsInv is inductive.
LEMMA NextKeepsJobsInv ==
  MediaInv /\ ClassInv /\ JobsInv /\ [DfuNext]_dfuVars => JobsInv'
<1> SUFFICES ASSUME MediaInv, ClassInv, JobsInv, [DfuNext]_dfuVars PROVE JobsInv'
  OBVIOUS
<1>1. CASE Request
  BY <1>1, RequestKeepsJobsInv
<1>2. CASE MainPoll
  <2>1. CASE PollStep
    BY <1>2, <2>1, PollMakesNoWork
       DEF MainPoll, classVars, JobsInv, JobsAreSerialised, AbortState, Busy
  <2>2. CASE PollAgain
    BY <1>2, <2>2
       DEF MainPoll, PollAgain, NoLocals, classVars, JobsInv, JobsAreSerialised, AbortState, Busy
  <2> QED
    BY <1>2, <2>1, <2>2 DEF MainPoll
<1>3. CASE DfuPowerLoss
  BY <1>3 DEF DfuPowerLoss, PowerLoss, ResetStatics, InitMedia, TargetError, NoLocals,
       JobsInv, JobsAreSerialised, AbortState, Busy
<1>4. CASE UNCHANGED dfuVars
  BY <1>4 DEF dfuVars, mediaVars, classVars, JobsInv, JobsAreSerialised, AbortState, Busy
<1> QED
  BY <1>1, <1>2, <1>3, <1>4 DEF DfuNext, Request

\* The state machine never lets a second job in, so that the backend's busy
\* check is never what refuses a request.
THEOREM JobsStaySerialised == DfuSpec => []JobsAreSerialised
<1>1. DfuInit => JobsInv
  BY DEF DfuInit, MediaInit, InitMedia, TargetError, NoLocals, JobsInv, JobsAreSerialised,
     AbortState, Busy
<1>2. JobsInv => JobsAreSerialised
  BY DEF JobsInv
<1> QED
  BY <1>1, <1>2, NextKeepsJobsInv, MediaInvUnderClass, ClassInvariant, PTL DEF DfuSpec

=============================================================================
