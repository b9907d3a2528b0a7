------------------------------ MODULE UsbdDfu ------------------------------
(***************************************************************************)
(* The DFU class (CherryUSB/class/dfu/usbd_dfu.c) and its binding to the   *)
(* flash media backend (User/dfu_usb.c), on top of DfuFlash.               *)
(*                                                                         *)
(* Every class request and the bus reset are handled to the end inside the *)
(* USB interrupt: each is one action, which may preempt the main thread    *)
(* between any two of its steps and calls the backend through the          *)
(* operators of DfuFlash.                                                  *)
(***************************************************************************)
EXTENDS DfuFlash

CONSTANTS
  WordCells,     \* alignment of an execute address
  AddrMax,       \* UINT32_MAX
  HostBlocks,    \* block numbers (wValue) the host may use
  UploadMax,     \* largest wLength of an UPLOAD, which nothing limits
  Free           \* no expectation about a cell

ASSUME BindingAssumption ==
  /\ WordCells \in Nat \ {0} /\ AppBase % WordCells = 0
  /\ HostBlocks \subseteq Nat
  /\ UploadMax \in Nat /\ UploadMax >= XferCells
  /\ AddrMax \in Nat /\ \A b \in HostBlocks : AppEnd + b * XferCells <= AddrMax
  /\ Free \notin Cell

VARIABLES
  dfu,     \* g_dfu: state, status, download_active (dl), upload_active (ul)
  bind,    \* g_address_pointer, g_exec_address, g_dfuse_addressing, g_wait_reset_ms
  fresh,   \* activity_count differs from the main loop's sample
  want     \* what the host was told is stored: a history variable

classVars == <<dfu, bind, fresh, want>>
dfuVars   == <<mediaVars, classVars>>

State == {"dfuIDLE", "dfuDNLOAD-SYNC", "dfuDNBUSY", "dfuDNLOAD-IDLE",
          "dfuMANIFEST-SYNC", "dfuMANIFEST", "dfuMANIFEST-WAIT-RESET",
          "dfuUPLOAD-IDLE", "dfuERROR"}

\* usbd_dfu_get_status: the bStatus of each media error.
StatusOf == [none |-> "OK", address |-> "errADDRESS", erase |-> "errERASE",
             write |-> "errWRITE", verify |-> "errVERIFY", busy |-> "errNOTDONE",
             target |-> "errTARGET"]

Status == {StatusOf[e] : e \in MediaError}

NoWant == [a \in AppCell |-> Free]

\* reset_addressing
ResetAddressing(b) == [b EXCEPT !.ptr = AppBase, !.exec = AppBase, !.dfuse = FALSE]

InitDfu  == [state |-> "dfuIDLE", status |-> "OK", dl |-> FALSE, ul |-> FALSE]
InitBind == [ptr |-> AppBase, exec |-> AppBase, dfuse |-> FALSE, wait |-> 0]

ClassInit ==
  /\ dfu = InitDfu /\ bind = InitBind
  /\ fresh = FALSE
  /\ want = NoWant

\* The statics' initial values after a reset of the chip.
ClassReset == dfu' = InitDfu /\ bind' = InitBind /\ fresh' = FALSE /\ want' = NoWant

(***************************************************************************)
(* What the handlers share.                                                *)
(***************************************************************************)

\* Every request first counts as activity; none touches the main thread.
Handled(m, d, b, w) ==
  /\ media' = m /\ dfu' = d /\ bind' = b /\ want' = w
  /\ fresh' = TRUE
  /\ UNCHANGED <<flash, mainVars>>

\* dfu_set_error: the media error wins over the caller's fallback.
SetError(d, m, fallback) ==
  [d EXCEPT !.status = IF m.err = "none" THEN fallback ELSE StatusOf[m.err],
            !.state = "dfuERROR"]

\* dfu_cancel, with usbd_dfu_abort.
CancelClass(d)   == [d EXCEPT !.dl = FALSE, !.ul = FALSE]
AbortBinding(b)  == [ResetAddressing(b) EXCEPT !.wait = 0]

\* block_address: DfuSe block n >= 2 is at the pointer plus n - 2 transfers.
BlockBase   == IF bind.dfuse THEN bind.ptr ELSE AppBase
BlockIndex(b) == IF bind.dfuse THEN b - 2 ELSE b
BlockValid(b) ==
  /\ bind.dfuse => b >= 2
  /\ BlockIndex(b) <= AddrMax \div XferCells
  /\ BlockBase <= AddrMax - BlockIndex(b) * XferCells
BlockAddress(b) == BlockBase + BlockIndex(b) * XferCells

(***************************************************************************)
(* Requests accepted in every state.                                       *)
(***************************************************************************)

\* GETSTATE, and every request the current state rejects with a stall, only
\* count as activity.
GetStateOrStall == Handled(media, dfu, bind, want)

\* A status request seen while a failed erase is not yet published is one of
\* the Windows.
StatusAllowed == "publish" \in Races \/ ~(mpc = "erasePublish" /\ loc.ret # "none")

\* dfu_fill_status turns a media error into the error state ...
GetStatusError ==
  /\ StatusAllowed
  /\ media.err # "none" /\ dfu.state # "dfuERROR"
  /\ Handled(media, [dfu EXCEPT !.status = StatusOf[media.err], !.state = "dfuERROR"], bind, want)

\* ... and otherwise moves the download and manifestation forward.
\* Mutants: the final flush is not waited for, nor is a job.
ManifestAtOnce ==
  CASE dfu.state \in {"dfuDNLOAD-SYNC", "dfuDNBUSY"} ->
         IF Busy(media) THEN "dfuDNBUSY" ELSE "dfuDNLOAD-IDLE"
    [] dfu.state = "dfuMANIFEST-SYNC" -> "dfuMANIFEST"
    [] dfu.state = "dfuMANIFEST" -> "dfuMANIFEST-WAIT-RESET"
    [] OTHER -> dfu.state
NeverBusy ==
  CASE dfu.state \in {"dfuDNLOAD-SYNC", "dfuDNBUSY"} -> "dfuDNLOAD-IDLE"
    [] dfu.state = "dfuMANIFEST-SYNC" -> "dfuMANIFEST"
    [] dfu.state = "dfuMANIFEST" /\ ~Busy(media) -> "dfuMANIFEST-WAIT-RESET"
    [] OTHER -> dfu.state

AfterPoll ==
  CASE dfu.state \in {"dfuDNLOAD-SYNC", "dfuDNBUSY"} ->
         IF Busy(media) THEN "dfuDNBUSY" ELSE "dfuDNLOAD-IDLE"
    [] dfu.state = "dfuMANIFEST-SYNC" -> "dfuMANIFEST"
    [] dfu.state = "dfuMANIFEST" /\ ~Busy(media) -> "dfuMANIFEST-WAIT-RESET"
    [] OTHER -> dfu.state

GetStatus ==
  /\ StatusAllowed
  /\ media.err = "none" \/ dfu.state = "dfuERROR"
  /\ Handled(media, [dfu EXCEPT !.state = AfterPoll], bind, want)

(***************************************************************************)
(* Requests a state may reject.                                            *)
(***************************************************************************)
\* Mutant: the status survives the error.
ClrStatusKeepsStatus ==
  /\ dfu.state = "dfuERROR"
  /\ Handled(Cancel(media), [CancelClass(dfu) EXCEPT !.state = "dfuIDLE"],
             AbortBinding(bind), NoWant)

ClrStatus ==
  /\ dfu.state = "dfuERROR"
  /\ Handled(Cancel(media),
             [CancelClass(dfu) EXCEPT !.status = "OK", !.state = "dfuIDLE"],
             AbortBinding(bind), NoWant)

AbortState == dfu.state \in {"dfuIDLE", "dfuDNLOAD-IDLE", "dfuUPLOAD-IDLE"}

\* Mutant: ABORT does not reach the media backend.
AbortKeepsMedia ==
  /\ AbortState
  /\ Handled(media, [CancelClass(dfu) EXCEPT !.state = "dfuIDLE"],
             AbortBinding(bind), NoWant)

Abort ==
  /\ AbortState
  /\ Handled(Cancel(media), [CancelClass(dfu) EXCEPT !.state = "dfuIDLE"],
             AbortBinding(bind), NoWant)

DnloadState == dfu.state \in {"dfuIDLE", "dfuDNLOAD-IDLE"}

\* A zero-length DNLOAD asks for the final flush.
DnloadEnd ==
  /\ DnloadState
  /\ Handled(Finish(media), [dfu EXCEPT !.dl = FALSE, !.state = "dfuMANIFEST-SYNC"],
             bind, want)

\* Five-byte downloads of block 0 are commands.
Commanded(ok, m, b, w) ==
  /\ DnloadState
  /\ Handled(m, IF ok THEN [dfu EXCEPT !.state = "dfuDNLOAD-SYNC"]
                ELSE SetError(dfu, m, "errADDRESS"), b, w)

SetAddress(a) ==
  LET ok == AddressValid(a, 1)
  IN  Commanded(ok, media, IF ok THEN [bind EXCEPT !.ptr = a, !.dfuse = TRUE] ELSE bind, want)

\* Mutant: the alignment of the execute address is not checked.
SetExecUnaligned(a) ==
  LET ok == AddressValid(a, 1)
  IN  Commanded(ok, media, IF ok THEN [bind EXCEPT !.exec = a] ELSE bind, want)

SetExecAddress(a) ==
  LET ok == AddressValid(a, 1) /\ a % WordCells = 0
  IN  Commanded(ok, media, IF ok THEN [bind EXCEPT !.exec = a] ELSE bind, want)

EraseCommand(a) ==
  LET ok == EraseAccepted(media, a)
  IN  Commanded(ok, QueueErase(media, a), bind,
                IF ok THEN [c \in AppCell |-> IF c \in SectorAt(a) THEN Erased ELSE want[c]]
                ELSE want)

\* usbd_dfu_begin_load runs before the first data block of a session.
Loading == IF dfu.dl THEN media ELSE Begin(media)
LoadingBinding == IF dfu.dl THEN bind ELSE [bind EXCEPT !.wait = 0]

DnloadData(b, p) ==
  LET a  == BlockAddress(b)
      m  == IF BlockValid(b) THEN QueueWrite(Loading, a, p) ELSE Loading
      ok == BlockValid(b) /\ WriteAccepted(Loading, a, Length(p))
      d  == [dfu EXCEPT !.dl = TRUE]
  IN  /\ DnloadState
      /\ Handled(m, IF ok THEN [d EXCEPT !.state = "dfuDNLOAD-SYNC"]
                    ELSE SetError(d, m, "errWRITE"),
                 LoadingBinding,
                 [c \in AppCell |-> IF ok /\ c - a \in DOMAIN p THEN p[c - a] ELSE want[c]])

UploadState ==
  \/ dfu.state \in {"dfuIDLE", "dfuUPLOAD-IDLE"}
  \/ dfu.state = "dfuDNLOAD-IDLE" /\ ~dfu.dl

\* The read that serves UPLOAD (dfu_flash_read) is refused ...
ReadError(b) ==
  CASE ~BlockValid(b) -> media.err
    [] BlockValid(b) /\ ~DualBank -> "target"
    [] BlockValid(b) /\ DualBank /\ BlockAddress(b) \notin AppBase .. AppEnd -> "address"
    [] OTHER -> "none"
ReadAllowed(b) == BlockValid(b) /\ DualBank /\ BlockAddress(b) \in AppBase .. AppEnd

UploadRefused(b) ==
  LET m == [media EXCEPT !.err = ReadError(b)]
  IN  /\ UploadState /\ ~ReadAllowed(b)
      /\ Handled(m, SetError([dfu EXCEPT !.ul = TRUE], m, "errADDRESS"), bind, want)

\* ... or returns the bytes up to the end of the application; a short read
\* ends the upload.  wLength is checked only after this handler has run
\* (usbd_core.c:1051-1064): more than wTransferSize bytes change g_dfu here
\* all the same, and are then stalled.  Those past req_data land in the
\* core's own variables, which this model does not have.
Upload(b, n) ==
  LET short == AppEnd - BlockAddress(b) < n
  IN  /\ UploadState /\ ReadAllowed(b)
      /\ Handled(media,
                 [dfu EXCEPT !.ul = ~short,
                             !.state = IF short THEN "dfuIDLE" ELSE "dfuUPLOAD-IDLE"],
                 IF short THEN ResetAddressing(bind) ELSE bind, want)

\* USBD_EVENT_RESET: cancel and return to dfuIDLE.
BusReset ==
  /\ MayDrop
  /\ Handled(Cancel(media),
             [CancelClass(dfu) EXCEPT !.state = "dfuIDLE", !.status = "OK"],
             AbortBinding(bind), NoWant)

StatusRequest == GetStateOrStall \/ GetStatusError \/ GetStatus

Command ==
  \/ ClrStatus \/ Abort \/ DnloadEnd
  \/ \E a \in HostAddrs : SetAddress(a) \/ SetExecAddress(a) \/ EraseCommand(a)
  \/ \E b \in HostBlocks : \/ \E p \in Payloads : DnloadData(b, p)
                           \/ UploadRefused(b)
                           \/ \E n \in 0 .. UploadMax : Upload(b, n)

(***************************************************************************)
(* The class over a main loop that does nothing but poll.                  *)
(***************************************************************************)
MainPoll == (PollStep \/ PollAgain) /\ UNCHANGED classVars

DfuPowerLoss == PowerLoss /\ ClassReset

DfuInit == MediaInit /\ ClassInit
DfuNext == MainPoll \/ StatusRequest \/ Command \/ BusReset \/ DfuPowerLoss
DfuSpec == DfuInit /\ [][DfuNext]_dfuVars /\ WF_dfuVars(MainPoll)

(***************************************************************************)
(* Invariants.                                                             *)
(***************************************************************************)

\* The class and binding variables have their types; both addresses always
\* lie in the application, and the execute address is aligned.
DfuTypeOK ==
  /\ dfu \in [state : State, status : Status, dl : BOOLEAN, ul : BOOLEAN]
  /\ bind.ptr \in AppCell /\ bind.exec \in AppCell /\ bind.exec % WordCells = 0
  /\ bind.dfuse \in BOOLEAN /\ bind.wait \in Nat
  /\ fresh \in BOOLEAN
  /\ want \in [AppCell -> Cell \cup {Free}]

MediaFailed == media.err # "none" \/ (mpc = "erasePublish" /\ loc.ret # "none")

\* What the device told the host it took is in the flash, in the dirty cache
\* or in the job at hand; once it reports dfuDNLOAD-IDLE, none is in a job
\* and no failure of it is still to come (usbd_dfu.c:60-64).
AcknowledgedIsKept ==
  /\ dfu.state # "dfuERROR" /\ ~MediaFailed =>
       \A a \in AppCell : want[a] # Free => ImageCell(a) = want[a]
  /\ dfu.state = "dfuDNLOAD-IDLE" =>
       \A a \in AppCell : want[a] # Free => KeptCell(a) = want[a]

\* dfuMANIFEST-WAIT-RESET is reported only when every acknowledged byte and
\* erase of the session is in the flash (usbd_dfu.c:68-71).
ManifestIsDurable ==
  dfu.state = "dfuMANIFEST-WAIT-RESET" =>
    \A a \in AppCell : want[a] # Free => flash[a] = want[a]

\* Where UPLOAD is served, and after an abort or a reset, no downloaded data
\* waits in the cache: a read returns what a later flush cannot change, and
\* no cancelled byte can reach the flash.
IdleHoldsNoData ==
  UploadState =>
    ~Busy(media) /\ (BetweenPolls => ~(media.valid /\ media.dirty))

\* The state machine never lets a second job in: the backend's busy check
\* (dfu_flash.c:341, 374) is never what refuses a request.
JobsAreSerialised == media.err # "busy"

\* bStatus is not OK exactly in dfuERROR.
StatusMatchesState == dfu.status # "OK" <=> dfu.state = "dfuERROR"

(***************************************************************************)
(* Liveness.                                                               *)
(***************************************************************************)

\* While the main loop polls, every job and final flush ends, in success,
\* in an error the host will read, or by being cancelled.
JobsEnd == Busy(media) ~> ~Busy(media) \/ media.err # "none"
=============================================================================
