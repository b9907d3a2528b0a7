# CH32H417 DFU bootloader: TLA+ models, checks and proofs

The program is a 16 KB USB DFU bootloader for one microcontroller.  It owns the
chip for a few seconds after reset, lets a host download an application into
the internal flash through DFU 1.1 with DfuSe extensions, and then jumps to the
application.  Its own logic is about 1200 lines of C; everything below is
translated from them.  Paths in this file are relative to the repository.

## 1. The system

### Components

**Flash media backend** - `User/dfu_flash.c`.
State: one job (`g_job`: type, address, length, position, 512 bytes of data), a
one-sector write-back cache (`g_sector`, `g_sector_addr`, valid and dirty
flags), the end-of-download flags `g_finishing` and `g_all_done`, a sticky
`g_error`, and the flash array.
Operations: `dfu_flash_begin`, `_cancel`, `_queue_write`, `_queue_erase`,
`_finish`, `_read`, called from the USB interrupt; `dfu_flash_poll`, called from
the main loop, which erases, programs (256-byte pages) and verifies.
Correct when: accepted bytes end up in the flash, discarded ones never do, a
finished commit means everything is stored, the cache never lies about the
flash, only erased pages are programmed, and nothing outside the application
area changes.

**DFU class** - `CherryUSB/class/dfu/usbd_dfu.c`.
State: `g_dfu` (bState, bStatus, download/upload flags, activity counter).
Operations: the seven class requests, the bus-reset notification,
`usbd_dfu_force_idle`.
Correct when: what `GETSTATUS` acknowledges is true, manifestation is reported
only when the data are durable, `dfuIDLE` holds no leftover data, jobs never
overlap, and no job keeps the device busy for ever.

**DFU media binding** - `User/dfu_usb.c`.
State: DfuSe address pointer, execute address, addressing mode, the wait after
manifestation, the lock against a timeout boot.
Operations: block and command addressing, media error to bStatus, the two
helpers `resume_dfu_idle` and `dfu_usb_poll` of the main loop.

**Boot policy** - `User/main.c`, `User/dfu_boot.h`.
State: entry triggers, inactivity timer, the magic word that survives a reset.
Operations: enter DFU, time out, leave after manifestation, jump, and the
application's reboot request.
Correct when: a timeout starts the default application only and never over an
unread error, the entry that is jumped to was programmed, flash is settled at
the jump, and a silent host is left.

**USB device core and port** - `CherryUSB/core/usbd_core.c`,
`CherryUSB/port/usb_dc_ch32h417_usbhs.c`.
State: the controller's endpoint-0 registers (response, toggle, length), one DMA
buffer for SETUP, OUT and IN packets, the port's software toggles, copy position
and pending address; the core's request buffer with its position, residue and
zero-length flag, and the stage of the transfer.
Operations: the transfer interrupt (SETUP, OUT, IN), the bus reset, and the
calls between core and port.
Correct when: a request handler sees each transfer whole, unmixed and at most
once, the host learns what it decided, a transfer the host goes on with ends,
and both sides agree on the device's address.

**Host tool** - `scripts/dfu_download.py`.
State: the command line, the stage of the session, the file.
Operations: erase, set address, data blocks, execute address, manifestation;
upload; polling and its failures.
Correct when: an exit code 0 means what the user takes it for, and it never
fails without a cause.

**The rest**: descriptors (`User/usb_desc.c`), serial log (`User/serial.c`),
interrupt stubs (`User/ch32h417_it.c`), clocks and start-up
(`User/system_ch32h417.c`, `Common`, `Ld`), other host scripts, a test
application (`tests/jump_app`).

### How they interact

There are two threads and no lock.  The USB interrupt runs class requests and
bus resets to completion; it calls the backend's queueing functions directly.
The main loop runs `dfu_flash_poll` and the timers, and shares every variable
above with the interrupt.  Code runs from RAM, so the interrupt is served while
the flash controller erases or programs; only single volatile accesses are
atomic.  Below both threads, the flash controller may refuse an operation,
report a failure, or store something else, and the power may fail.

### What is hard

The hazards are listed with their lines in `PROJECT.json`.  They come from
six sources: an interrupt between two accesses of `dfu_flash_poll` (a stale
job, a stale cache flag, an error published after its job was released); the
one-sector cache (flush order, sector crossings, erase of the cached sector,
failures after the erase); request sequences the state machine admits and no
test drives; the boot decision taken by a thread that a request can still
overtake; the wire, on which handshakes are lost and transfers abandoned while
port and core keep their halves of the progress; and sessions that start from
what a killed one left in the device.

## 2. Modules

| module | models | composed of |
|---|---|---|
| `SectorStore` | abstract promise of the backend | - |
| `DfuFlash` | `dfu_flash.c` | refines `SectorStore` |
| `UsbdDfu` | `usbd_dfu.c` and the binding's callbacks in `dfu_usb.c` | extends `DfuFlash` |
| `DfuBoot` | `main.c` and the main-loop part of `dfu_usb.c` | extends `UsbdDfu` |
| `DfuHost` | `dfu_download.py` | extends `UsbdDfu` |
| `ControlPipe` | abstract promise of a control pipe | - |
| `UsbEp0` | endpoint 0 of `usb_dc_ch32h417_usbhs.c` and `usbd_core.c` | refines `ControlPipe` |
| `DfuFlashProofs` | theorems about `DfuFlash` | extends `DfuFlash` |
| `DfuStoreProofs` | the job and the cache, when no job is dropped in mid-poll | extends `DfuFlashProofs` |
| `DfuRefinementProofs` | `DfuFlash` implements `SectorStore` | extends `DfuStoreProofs` |
| `UsbdDfuProofs` | theorems about `UsbdDfu` | extends `UsbdDfu`, `DfuFlashProofs` |
| `DfuClassProofs` | what a DFU session acknowledges and stores | extends `UsbdDfuProofs`, `DfuRefinementProofs` |
| `DfuBootProofs` | theorems about `DfuBoot` | extends `DfuBoot`, `DfuClassProofs` |
| `UsbEp0Proofs` | theorems about `UsbEp0`, which implements `ControlPipe` | extends `UsbEp0` |
| `DfuHostProofs` | theorems about `DfuHost` | extends `DfuHost`, `DfuClassProofs` |
| `MCDfuFlash`, `MCUsbdDfu`, `MCDfuBoot`, `MCDfuHost` | small instances for TLC | extend the above |

### `DfuFlash`

A *cell* is the unit the properties tell apart; addresses, sectors, pages and
transfers are counted in cells and are parameters, as is the set of contents.
`media` is the record of everything the interrupt and the poll share except the
cache bytes; an interrupt call is one function of that record (`Cancel`,
`QueueWrite`, ...).  `dfu_flash_poll` is one action per access of a shared
variable: `mpc` names the place in the function, `loc` its live locals.  The
chain is

    enter -> lookup -> [flush -> prepare -> erasing -> program* -> verify] -> load
          -> copy -> setDirty -> advance -> polled            (write job)
    enter -> [flush ...] -> prepare -> erasing -> eraseDone -> erasePublish -> polled
    enter -> flush ... -> finishClear -> finishDone -> polled (final flush)

`flash_erase_sector` is two steps (the content is junk in between); each page
programmed is one step; `flush_sector` returns to the caller named by
`loc.after`.  `g_job.pos` and `g_job.len` are not volatile, so a second use in
the poll may see the value of the first load or a new one (`PosReads`,
`LenReads`).  `g_job.pos` wraps at 16 bits (`PosMod`), the remainder
`len - pos` is unsigned and huge once `pos` passed `len` (`Remain`), and a read
past `g_job.data` returns unknown bytes (`JobCell`).

Flash faults are a set: `refuse` (busy or write protection, nothing changed),
`report` (error flag or timeout, content unknown), `silent` (no error, wrong
content - found by the read-back).  `PowerLoss` zeroes the statics and may tear the
sector or page under way.  The progress counters, the debug record and the
delays are left out.

### `UsbdDfu`

Each class request is one action, written from the handler: guard from the
state switch, then the backend call, the new `g_dfu` and the new binding.
`GetStateOrStall` is any request that only counts as activity.  `want` is a
history variable: for each application cell, what the host was told is stored in
this session (`Free` when it was told nothing).  It appears in no guard.

The length of an UPLOAD is limited by nothing before the handler has run
(`usbd_core.c:1028-1034` looks at OUT requests only; `:1059` comes after), so
`UploadMax` may exceed a transfer: `g_dfu` and the addressing change for such a
request as for any other, and the core stalls its answer afterwards.  What
`dfu_flash_read` writes past the 512 bytes of `req_data` before that is **not**
modelled: it lands in the core's own variables, and the models say nothing of
a device that was sent such a request.  `DFU_PROTOCOL.md:166` limits an UPLOAD to
512 bytes.

### `DfuBoot`

One turn of the loop in `dfu_mode`: the poll, the report of an error, the wait
after manifestation, the late trigger, the inactivity timer.  `at` is the place
in `main` and `dfu_mode`, `mpc` of `DfuFlash` the place in `dfu_flash_poll`,
which runs while `at` is `"loop"`; outside it `mpc` stays at its entry.  The
teardown by `usbd_dfu_force_idle` and `resume_dfu_idle` runs with the interrupt
enabled; it has a step for each record it assigns (the flags inside one record
together), and `boot.resume` tells which of its two callers it returns to.
Leaving reads the execute address (`Leave`), tests the entry (`Jump`) and, when
it is invalid, enters DFU once more; the second pass does not test again, as in
`jump_to_app`.  The 20 ms until USB is turned off (`main.c:196-198`) are a step
of their own (`Deinit`), before which requests still arrive.  `ChipReset` keeps the flash and, for `AppReboot`, the magic word.

### `DfuHost`

Every control transfer of the tool is one action together with the request it
makes of `UsbdDfu`; the device's main thread, bus resets and power cuts come
between any two.  `stage` and `k` are the place in the script.  A tool may be
killed at any point: `StartTool` replaces it by a new run, which finds the
device as it is (`stale`).  The results keep apart what the exit code mixes:
`stored` (dfuMANIFEST-WAIT-RESET was read), `assumed` (a transfer failed while
polling for it, which the script takes for the jump to the application),
`uploaded`, and `error`.  The 200 polls are a nondeterministic give-up.

A block 0 of exactly five bytes that starts with the code of a command is one for
`dfu_handle_command` (`usbd_dfu.c:99-107`), also when it is a standard image;
`DFU_PROTOCOL.md:136-137` admits it.  `Lookalike` gives these payloads and the
command each is taken for.  `Ambiguous` sessions are the exception
`StoredIsInFlash` and `ErrorsHaveCause` state, and TLC violates both without it.

### `UsbEp0`

One action is one bus transaction together with the interrupt it raises, which
runs through port and core to its end: the controller answers NAK while the
transfer interrupt is pending.  `dev` holds the registers, the port's variables
and the core's; `dma` and `reqData` are the two buffers.  A byte of a data stage
is a pair of its transfer and its position, so bytes of two transfers never
look alike.  What a request handler decides is one reply, chosen freely.

The host is an arbitrary one: between two transactions it may abandon the
transfer with a SETUP or a bus reset, and any handshake may be lost.  A lost
handshake makes the host repeat an OUT packet, or makes the device repeat an IN
packet, which the host drops.  A SETUP always starts a new transfer.

*Repeated OUT packets.*  The interrupt handler never looks at the toggle of an
OUT packet (`USBHS_UEP_R_TOG_MATCH`), and the source does not tell whether the
controller lets a repeated one through.  `DropsRepeats` is that question.  With
TRUE the controller acknowledges and drops it, as device controllers commonly
do; `control_ep0` and the theorems of section 6 are for this controller.  With
FALSE the handler takes it for the next packet: `ArmedPacketIntact`,
`AddressesDifferOnlyByLoss` and `AddressAfterStatus` still hold when TLC checks
`ControlEp0.cfg` with it, but it violates `CopiesWhereCoreCounts`,
`KeepsPipePromise` and `TransfersFinish` - the packet is counted twice.  No finding is filed, since it
depends on the hardware; a check of the toggle in the handler would settle it.

An answer is written by its handler, in `reqData`, before any length is checked,
also when the request is then refused or stalled.  Address 0 is not assigned (`usbd_set_address(0)` acts at once), and
a host that ends its data stage early is not modelled.

### `ControlPipe`

What a control pipe promises its two users: a request is `Ask`ed, the handler is
`Call`ed at most once and with exactly the host's bytes, `Finish` is told only
for what the handler accepted and with its answer cut to the length asked for;
a transfer may `Fail` or be dropped.  The class model above rests on this: it
takes a class request as one action.  The mapping is at the end of `UsbEp0`.

### `SectorStore`

`disk`, `kept` and `image`: what the flash holds, what it will hold when the
completed requests are flushed, and what it will hold when the request at hand
is done too.  Work moves `disk` towards `kept` and `kept` towards `image`, one
sector at a time through torn and erased cells; a request ends when `kept` has
it, a commit when `disk` has it; `Discard` drops what did not reach the disk.
The mapping is at the end of `DfuFlash`: the dirty cache overlays the flash,
the unfinished job overlays both.

## 3. Windows left to the bus

Four windows are only closed by the timing of a real host.  They are named in
`Windows`; a run states in `Races` which of them it opens:

* `cancel` - a bus reset, a new session or the final flush inside a poll that
  holds a job.  The class itself prevents all of these but the bus reset.
* `publish` - `GETSTATUS` between the release of a failed erase job
  (`dfu_flash.c:412`) and the store of its error (`:419`).
* `teardown` - a request inside `usbd_dfu_force_idle` or `resume_dfu_idle` when
  the main loop runs them.
* `leaving` - a request between the timeout's decision and the disabled port.

The passing runs with `Races = {}` say what holds when they are closed; the
runs with a window open say what still holds (`media_races`) and what breaks
(the findings).  `boot_late` opens `teardown` and `leaving`.  With `teardown`
alone open (`Boot.cfg`, `Races = {"teardown"}`) a request accepted between the
cancel and the assignment of dfuIDLE leaves a job that the jump, or the next
session, drops.  TLC then violates `TimeoutBootsDefault`, `BootsSettledFlash`,
`BootsProgrammedEntry`, `TimeoutSparesErrors` and `ManifestIsDurable` (its trace
is in section 5); `CacheCoherent` holds, on that instance and, as
`BootKeepsCoherence` proves, in general.

## 4. Runs

The instances have one bootloader sector, one or two application sectors of
two cells, pages of one cell, transfers of two cells, and positions modulo 4;
payload cells differ by position, so a byte in the wrong place shows.  The flash
starts with an old application everywhere.  That is the smallest geometry in
which a write crosses a sector, starts inside one, ends at the end of the
application, passes it, and in which a sector has more than one page.

| run | question | bounds |
|---|---|---|
| `media` | Does the backend keep `SectorStore`'s promise under every sequence of calls, with all faults and power loss? | no step bound; write and erase addresses 3, 4, 5 (last cell of a sector, first of the next, last of the application); one payload |
| `media_races` | What survives a job dropped inside its poll? | no step bound; one application sector; one page a sector (pages are `media`'s question); addresses in the bootloader, in the application and outside the address space; payloads of two lengths, so that a chunk of one job can carry the position past the other; reported failures |
| `dfu_class` | Are acknowledgement, manifestation, abort and liveness right in the class? | `Credit` 5 commands, resets or power cuts; status requests unlimited; all faults; UPLOAD of up to two transfers |
| `boot` | What is booted, when, over which flash - by the build that leaves after manifestation and the one that stays? | `Credit` 4; timeouts of 1 and 2 turns; reported failures; addresses at the base (so that the default entry can be erased), in the second sector and at the end |
| `control_ep0` | Does port plus core keep `ControlPipe`'s promise, and end what it starts? | 3 transfers, 3 lost handshakes, 1 bus reset; packets of 2 bytes, a buffer of 5 (two packets and a half); OUT of 1, 4, 5 and 6 bytes (short, a multiple, the buffer, too long); IN of 3 and 6 bytes answered by 0, 4, 5 or 6 (cut, with and without zero-length packet, too long) |
| `host` | Is what the tool reports true, and does it end? | `Credit` 3 kills, give-ups, bus resets and power cuts; polls unlimited; nine command lines (below); reported failures |
| `erase_error`, `reset_keeps_data`, `reset_hang`, `boot_late`, `ep0_address`, `stale_upload` | the six findings | as small as the trace allows; `ep0_address` is `control_ep0` with a host that abandons SET_ADDRESS too |

`Credit` bounds the number of commands, not their order: a session needs a
command or two, its data, the zero-length end, and one disturbance.  A timeout
of one turn is as short as the code can be; longer ones only delay it.  The two
timeouts differ, so that the trigger matters.

Three transfers are enough to abandon one, disturb the next and see what is left
in a third.  The command lines of `host` are a two-block image with erase, a block across two sectors
with an execute address, a standard download, a block past the end of the
application, an upload that meets that end, a standard upload, and three
one-cell standard images that the device takes for each of the commands; three
disturbances let one of them be killed, another follow, and a power cut hit it.

The runs of `DfuBoot` do not check for deadlock: once an application runs and the
credit is spent, the bootloader has stopped.  Nor do those of `UsbEp0`: a
host that has made its transfers stops.

### What is checked

* `KeepsStorePromise` - `DfuFlash` implements `SectorStore` (refinement).
* `CacheCoherent` - a clean valid cache equals its sector.
* `CopyInBounds` - the copy into the cache stays in it, and reads only bytes of
  the job.  The second half needs the window `cancel` closed; the first,
  `CopyInCache`, does not, as `CopyStaysInCache` proves.
* `ProgramsErasedPages` - a page is programmed only when it, and all later ones
  of its sector, are erased.
* `BootloaderIntact`, `BeyondAppIntact` - action properties on what flash may
  change.  The first holds in all windows; the second does not: a position past
  its job carries the address past the application, as section 5 explains.
* `AcknowledgedIsKept`, `ManifestIsDurable` - the acknowledged content is in the
  flash, the dirty cache or the job; from `dfuDNLOAD-IDLE` on in no job; in
  `dfuMANIFEST-WAIT-RESET` in the flash.
* `IdleHoldsNoData` - where `UPLOAD` is served and after an abort, nothing waits
  in the cache.
* `JobsAreSerialised` - the backend's busy refusal is unreachable.
* `StatusMatchesState` - bStatus is OK exactly outside `dfuERROR`.
* `JobsEnd` - liveness: every job ends, fails or is cancelled.
* `TimeoutBootsDefault`, `TimeoutSparesErrors`, `BootsProgrammedEntry`,
  `BootsSettledFlash`, `SilentHostIsLeft` - the boot policy.
* `KeepsPipePromise` - `UsbEp0` implements `ControlPipe` (refinement).
* `CopiesWhereCoreCounts` - port and core agree where a data stage continues,
  however the one before it ended, and there is something left to receive.
* `ArmedPacketIntact` - what an armed IN sends is still what it was armed with,
  although SETUP and OUT use the same buffer.
* `AddressesDifferOnlyByLoss` - device and host use the same address, unless the
  handshake that ends a SET_ADDRESS was lost: then the host uses the new one and
  the device still has it pending, and answers no more until a bus reset.
* `AddressAfterStatus` - the device's address changes only after the status stage
  of SET_ADDRESS.
* `TransfersFinish` - liveness: a transfer the host goes on with ends.  Two
  exceptions are stated in it: when the handshake of the last data packet is
  lost, port and core have moved to the status stage and answer the repeated
  packet with NAK; and an OUT request longer than the buffer is stalled on IN
  only.  The host leaves both by its own timeout.
* `StoredIsInFlash`, `FreshUploadIsFlash` - what the tool reports is true, also
  for runs that start where a killed one stopped.
* `ErrorsHaveCause` - the tool's sequence of requests fits the state machine.
  This and `StoredIsInFlash` except images that look like a command.
* `SessionsEnd` - liveness: the tool's polling ends.
* `MediaTypeOK`, `DfuTypeOK`, `BootTypeOK`, `Ep0TypeOK`, `ToolTypeOK` - one type
  invariant per module.

### Fairness

Weak fairness of the main thread, in the modules that have one.  The main loop is a
`while (1)` on a processor that is never stopped, and interrupts are finite: the
host's requests are bounded by the bus, so the loop is never preempted for ever.
Flash operations end because every wait in `dfu_flash.c` has a timeout counter.
Nothing is assumed of the flash controller, nor of the arbitrary host of
`UsbdDfu` and `DfuBoot`, which may stop at any point.  Where the question is
about the host's own progress, it is a host that goes on: in `DfuHost` the tool
makes its next transfer (it is a sequential script; `GiveUp`, kills and resets
need no fairness), and in `UsbEp0` the host makes the next transaction of a
transfer it has not abandoned, with a handshake that is heard - losses are
bounded, as the three tries of a host controller are.  `SilentHostIsLeft` is stated for behaviors that from some point on
consist of main-thread steps only, which is what a silent host on a powered
chip means.

## 5. Findings

* `erase_error` - `dfu_flash_poll` clears the job before it publishes the
  failure.  `GETSTATUS` in between sees no job and no error, and answers
  `dfuDNLOAD-IDLE` with status OK for an erase that failed.  Usually the next
  status shows the error; a data block sent at once begins the load, which
  clears it.
* `reset_keeps_data` - a bus reset interrupts the poll between its reads of the
  job and its last update of the cache.  The cancel invalidates the cache, the
  poll then marks it dirty with the cancelled bytes.
* `reset_hang` - after the same reset, a new download queues a job before the
  interrupted poll reaches `dfu_flash.c:449`.  The poll adds the old chunk to the
  new position.  Once the position has passed the length, the equality test
  never holds again, and the device answers `dfuDNBUSY` until a reset.  The
  position's address then walks upwards, which is why `BeyondAppIntact` is
  claimed only without this window; below the base it can never get, which is
  what `BootloaderIntact` says and the proof shows.
* `ep0_address` - SET_ADDRESS records the address; the interrupt handler writes
  `DEV_AD` at the next IN packet that completes, of whatever transfer.  A host
  that abandons SET_ADDRESS before its status stage finds the device at the new
  address in the middle of its next request.  The passing run `control_ep0` is
  for hosts that do not abandon SET_ADDRESS; bus resets, which clear the
  record, it allows.
* `stale_upload` - `dfu_upload` answers a refused read with success and an
  unchanged length: the host receives old bytes of the request buffer, and sees
  the error only if it asks for the status.  The tool does not; a standard
  upload of one block after a killed DfuSe session writes them to the file and
  exits 0.  `FreshUploadIsFlash` says that this is the only case.
* `boot_late` - `SET_EXEC_ADDRESS` after the timeout decided, and before `main`
  reads the execute address, chooses what a timeout boots.

The first three and `boot_late` need an interrupt in a window of a few
instructions (or of one flash operation, for the reset); they are reported
because the documents state the opposite without a reservation.

One more window of that size has no run of its own: `usbd_dfu_force_idle` cancels
(`usbd_dfu.c:289`), then assigns dfuIDLE (`:291`), with the interrupt enabled.  A
status request and an ERASE command in between leave the erase queued under a
state that says nothing is.  The next session's first block is queued while it
runs, and is lost when it ends: the poll clears `g_job.type` of whatever job is
there (`dfu_flash.c:412`).  The device reports the block as taken with status OK,
and later the session as manifested, although `DFU_PROTOCOL.md:79-80` has the
timeout cancel the unfinished download and `README.md:76` the results of flash
operations returned through bStatus.  `Boot.cfg` with `Races = {"teardown"}` shows it
as a violation of `ManifestIsDurable`.

Three more observations have no run of their own.  Block numbers 0 and 1 in
DfuSe addressing are answered with `errWRITE` where `DFU_PROTOCOL.md:219` lists
`errADDRESS`.  An execute address set by a killed session is used by the next
one that names none, although `DFU_PROTOCOL.md:123` speaks of the present
manifestation.  And the tool exits 0 when any transfer fails while it polls for
the end of manifestation.

## 6. Proofs

`DfuFlashProofs` proves, for every geometry, payload set, fault set and set of
open windows that satisfies the assumptions:

| theorem | statement |
|---|---|
| `MediaInvariant` | `MediaSpec => []MediaInv` |
| `MediaTypes` | `MediaSpec => []MediaTypeOK` |
| `BootloaderStaysIntact` | `MediaSpec => BootloaderIntact` |
| `CacheStaysCoherent` | `MediaSpec => []CacheCoherent` |
| `OnlyErasedPagesProgrammed` | `MediaSpec => []ProgramsErasedPages` |

The assumptions are `GeometryAssumption` and `DataAssumption` of `DfuFlash`:
positive sizes; the application's bounds and the end of the address space are
multiples of the sector, the sector one of the page; a transfer is shorter than
the range of the position; the address space extends beyond the application by
that range (the program's addresses are 32 bits and the application ends far
below them); payloads are at most one transfer.

*Why an invariant is needed.*  `MediaTypeOK` is not inductive: that a position
added to a job's address is an address needs the job to lie in the application;
that a flash index is in range needs the cache's sector to be aligned.
`MediaInv` adds `JobInApp` (a queued job starts in the application, an erase on
a sector), `CacheInApp` (the cached sector is aligned and, when valid or being
flushed, not below the base) and `LocalsInApp` (which locals are meaningful at
which step, and that they point into the application while flash may change).
Cancelling in mid-poll is what makes it delicate: the cache may lose its valid
flag while it is flushed, so the clause on the sector under way cannot rest on
that flag.

*Argument.*  Lemmas on division give the arithmetic of sectors and pages
(`MultiplesApart`, `SectorBaseBounded`, `SectorsDisjoint`).  For each part of
`MediaInv` there is a lemma with one step per action of the poll; `RequestOK`
says what every interrupt call makes of the record.  `FlashChanges` says that a
step changes the flash only in the sector under way, `OpSectorInApp` that this
sector is not below the base; together they give `BootloaderStaysIntact`.

*Coherence.*  `CacheCoherent` is not inductive either: an erase of the cached
sector would break it.  `CoherentInv` adds that a flush works for a dirty cache
or one that was just cancelled (`FlushedIsDirty`) and that an erase job never
works on the cached sector (`ErasedIsUncached`); with `SectorsDisjoint` a clean
cache's sector is never the one that changes.

Both inductive invariants were checked by TLC on the instances of `media` and
`media_races` before they were proved.

`UsbdDfuProofs` proves, for every set of block numbers and host addresses too:

| theorem | statement |
|---|---|
| `MediaInvUnderClass` | `DfuSpec => [](MediaInv /\ CoherentInv)` |
| `ClassKeepsBootloader` | `DfuSpec => BootloaderIntact` |
| `ClassKeepsCoherence` | `DfuSpec => []CacheCoherent` |
| `ClassInvariant` | `DfuSpec => []ClassInv` |
| `ClassTypes` | `DfuSpec => []DfuTypeOK` |
| `StatusAlwaysMatchesState` | `DfuSpec => []StatusMatchesState` |
| `JobsStaySerialised` | `DfuSpec => []JobsAreSerialised` |

They add `BindingAssumption` of `UsbdDfu`; of it they use that the application's
base is a multiple of the word size (it is `0x08004000`), because the execute
address starts there.

*Argument.*  A step of `DfuSpec` is a step of the backend or a request
(`StepKinds`), and `RequestStepOK` shows for every handler that it reaches the
backend only through calls that leave a record with `RequestOK`; so the
backend's invariants carry over although the class writes at addresses that are
computed from block numbers.  `RequestConsistent` has one step per handler: it
leaves `bStatus` different from OK exactly in `dfuERROR`; it needs the media
error to have its type, because the status is looked up from it.
`JobsAreSerialised` alone is not inductive: `JobsInv` adds that in the three
states that accept new work there is no job and no final flush, and that the
poll never reports "busy" (its erase keeps its result in a local for some
steps).  `PollMakesNoWork` shows that the main thread cannot undo the first.

### With the windows closed

What follows has hypotheses on `Races`: a window of section 3 is closed.  The
code closes none of them itself; a theorem says what the bus must not do, and
the violation runs show that what it excludes does break the property.  Nothing
else is assumed: the constants, faults and power losses are as above.

`DfuStoreProofs`:

| theorem | statement | windows closed |
|---|---|---|
| `JobInvariant` | `MediaSpec => []StoreInv` | `cancel` |
| `CopyStaysInCache` | `MediaSpec => []CopyInCache` | none |
| `CopyStaysInBounds` | `MediaSpec => []CopyInBounds` | `cancel` |
| `BeyondStaysIntact` | `MediaSpec => BeyondAppIntact` | `cancel` |

`CopyInCache` needs no window closed, because each poll computes its chunk from
one load of the position (`ChunkFits`), whatever job it belongs to by then; that
the bytes it reads are the job's own, it says not.  For the rest, `StoreInv` adds `JobInv` and `CopyDone` to `MediaInv` and `CoherentInv`:
a queued write has bytes left and all of them lie in the application
(`JobToDo`); the locals of a poll are those of the job at hand (`LocalsAreJob`,
which is exactly what a job dropped in mid-poll breaks); where cache and locals
stand at each step (`CacheAtStep`); and which bytes the last copy wrote.

`DfuRefinementProofs`:

| theorem | statement | windows closed |
|---|---|---|
| `BackendKeepsPromise` | `MediaSpec => KeepsStorePromise` | `cancel` |

*Argument.*  `Disk`, `Kept`, `Image`, `Mode` and `Failed` are the mapping of
`DfuFlash`.  Each step of the poll is one of the moves of `SectorStore`
(`StoreMoves`): erase, page and verify steps move `disk` in one sector
towards `kept`; the copy with the step after it moves `kept` towards `image`;
`advance` completes a request when the last chunk is in; a lemma for each of
the interrupt's calls gives its operation of `SectorStore`, with `Refuse` or
`Discard` where the call is refused or starts anew.  Where nothing
moves, `Stutter` reduces the step to unchanged kept content, and the torn cells
of a failed or interrupted operation are those of the sector `MediaInv` names.

`DfuClassProofs`:

| theorem | statement | windows closed |
|---|---|---|
| `SessionInvariant` | `DfuSpec => []SessionInv` | `cancel` |
| `IdleHoldsNothing` | `DfuSpec => []IdleHoldsNoData` | `cancel` |
| `ClassKeepsBeyond` | `DfuSpec => BeyondAppIntact` | `cancel` |
| `AcknowledgedStaysKept` | `DfuSpec => []AcknowledgedIsKept` | `cancel`, `publish` |
| `ManifestDurable` | `DfuSpec => []ManifestIsDurable` | `cancel`, `publish` |

*Argument.*  Neither durability property is inductive.  `PromiseKept` is: what the
host was told is stored equals `ImageCell`, the content it is entitled to, as
long as nothing has failed; a poll keeps `ImageCell` because it implements
`SectorStore`.  `StatesRest` then says in which states of the class no job and
no dirty sector is left, so that `ImageCell` is the cache or the flash itself.
`ErrorsEndPolls` and `NoDataOutsideSession` are what makes the handlers keep
these.  A handler is reduced to what it does to the backend, the class state and
`want` (the disjuncts of `Outcome`), and each part of the invariant is proved once
for each of those.

`DfuBootProofs`:

| theorem | statement | windows closed |
|---|---|---|
| `BootKeepsBootloader` | `BootSpec => BootloaderIntact` | none |
| `BootKeepsCoherence` | `BootSpec => []CacheCoherent` | none |
| `BootTypes` | `BootSpec => []BootTypeOK` | none |
| `TimeoutsBootDefault` | `BootSpec => []TimeoutBootsDefault` | `teardown`, `leaving` |
| `EntryIsProgrammed` | `BootSpec => []BootsProgrammedEntry` | `teardown`, `leaving` |
| `BootInvariant` | `BootSpec => []BootInv` | all four |
| `ErrorsAreSpared` | `BootSpec => []TimeoutSparesErrors` | all four |
| `BootSettled` | `BootSpec => []BootsSettledFlash` | all four |
| `BootIdleHoldsNothing` | `BootSpec => []IdleHoldsNoData` | all four |
| `BootKeepsAcknowledged` | `BootSpec => [](AcknowledgedIsKept /\ ManifestIsDurable)` | all four |

They add `TimerAssumption`.  *Argument.*  The counters need
`BootTypeInv`: the inactivity counter is below its limit wherever it may still
be incremented (`TimerInTime`), and a session is resumed only by the teardown
that was told to.  `LeavesInv` follows the entry from the teardown, where the
execute address is reset, over the test to the jump; it needs no knowledge of
the backend beyond the fact that no poll runs there.  `BootInv` holds the session
invariants everywhere except in the middle of a teardown (`SessionAtRest`),
says what is left there (`TornDown`: nothing the host was promised, so that
putting the state to dfuIDLE is right), and follows an error from
the poll that met it: until the host has heard of it, the next poll returns it
and the loop never gets to the timer, unless a request has just come in, which
also restarts the timer (`ErrorsAreNews`, `TargetKnown` for a part without its
second bank).

Every inductive invariant was checked by TLC on the instance of its run before
it was proved.

### Endpoint 0

`UsbEp0Proofs` proves, under `Ep0Assumption` (positive sizes, a packet no longer
than the request buffer, which the configuration files give):

| theorem | statement | hypothesis |
|---|---|---|
| `Ep0Invariant` | `Ep0Spec => []Ep0Inv` | `DropsRepeats` |
| `Ep0Types` | `Ep0Spec => []Ep0TypeOK` | `DropsRepeats` |
| `OutStageInBounds` | `Ep0Spec => []CopiesWhereCoreCounts` | `DropsRepeats` |
| `ArmedPacketStays` | `Ep0Spec => []ArmedPacketIntact` | `DropsRepeats` |
| `Ep0KeepsPipe` | `Ep0Spec => KeepsPipePromise` | `DropsRepeats` |
| `AddressesDifferOnlyByLostHandshake` | `Ep0Spec => []AddressesDifferOnlyByLoss` | `DropsRepeats`, `"address" \notin Abandons` |
| `AddressChangesAfterStatus` | `Ep0Spec => AddressAfterStatus` | `DropsRepeats`, `"address" \notin Abandons` |

The first five hold whatever the host abandons, on a controller that drops
repeated OUT packets; section 2 says what of them is left on another.  The second
hypothesis of the last two is the one whose absence run `ep0_address` shows to
break the address.  The last two and `ArmedPacketStays` are proved from `Ep0Inv`
and so have its hypothesis; without it they are model-checked only.

*Argument.*  `Linked` says that the device's copy of the request is the host's.
`InArmed` and `OutArmed` are the device alone: what is armed is what the core
counts, and the bytes before its position are those of this transfer.  The rest is
about both sides, and the toggles are what makes it provable: the device is where
the host is when its toggle is the one the host expects, and one packet ahead (or,
for IN, behind) when it is not (`OutData`, `InData`).  An IN data stage
also needs that both see the same last packet: a repeated packet is a full one
that did not complete the length asked for, and the zero-length packet is pending
exactly when the answer is shorter than that and ends on a packet
(`PacketsLeft` keeps the remainder through the stage).  `Taken` says what a host
holds when its data stage is over.  Each handler has a lemma that says what it
makes of the device (`HandledFacts`, `OutDoneFacts`, `InDoneFacts`), each
transaction one that it keeps the invariant, and one that it is a step of
`ControlPipe`: a SETUP asks, the last new OUT packet calls, the status stage
finishes, a repeated packet stutters.  `AddrInv` adds the addresses: one is pending
only between a SET_ADDRESS and the handshake of its status stage.

### The tool over the device

`DfuHostProofs` proves, under `HostAssumption` (an image has at least one cell, a
standard session is at the application's base) and `ToolAssumption` (the tool's
block numbers fit `wValue`, so they are among `HostBlocks`), and
`LookalikeAssumption` (a payload taken for a command is shorter than a transfer):

| theorem | statement | hypothesis |
|---|---|---|
| `BaseInvariant` | `HostSpec => []BaseInv` | none |
| `ToolIsAHost` | `HostSpec => DfuInit /\ [][DfuNext]_dfuVars` | none |
| `ToolTypes` | `HostSpec => []ToolTypeOK` | none |
| `ErrorsAlwaysHaveCause` | `HostSpec => []ErrorsHaveCause` | `GoodArguments` |
| `StoredStaysInFlash` | `HostSpec => []StoredIsInFlash` | windows `cancel`, `publish` closed |
| `FreshUploadsAreFlash` | `HostSpec => []FreshUploadIsFlash` | window `cancel` closed, `DualBank` |

`GoodArguments` says that every address on the command line lies in the
application and that an execute address is aligned; with any other the device
refuses the command, as it should.  `DualBank` is the DBMODE bit of the chip the
firmware is for (`README.md:11`).  On a chip without it a read is refused, and
finding `stale_upload` says what becomes of a refused read.

*Argument.*  The tool asks for nothing that the class does not admit
(`SendCases`, `ReadBlockInHostBlocks`; an image taken for a command makes a
command the class admits), so a step of `HostSpec` is one of `DfuNext`
or none, and every invariant of `DfuClassProofs` holds here.  What is left is to
tie the stage of the script to the state of the device:

- `Ready` gives the states that a stage expects as long as nothing is to blame;
  each request finds such a state (`SendFindsReady`) and each status leads to one
  (`PollFindsReady`).  It needs that a device in dfuIDLE has no DfuSe addressing
  left (`IdleIsStandard`).
- `BlocksTaken` says that every cell sent so far was taken at its place in the
  application, `BindingSet` that pointer, addressing mode and execute address are
  those of the command line from the command that sets them on.  Both only until
  the device reports an error.  `BlockIsPlaced` and `BlockCells` are the arithmetic
  of a block: DfuSe block `k + 2` and standard block `k` both lie `k` transfers
  from the address given.  `MovedKeepsSent` is the other half: the script goes on to
  the execute address or the final DNLOAD only when the blocks cover the image
  (`RoundedUp`).  At dfuMANIFEST-WAIT-RESET the class's own promise puts all of it in
  the flash, and a backend at rest leaves it there (`RestKeepsFlash`).
- `Reading` says that the file is a prefix of the flash, that the next block is the
  one that follows it, and that from the first block on the device is in
  dfuUPLOAD-IDLE, where nothing is queued or cached that could change the flash.

Every inductive invariant above was checked by TLC on the instance of its run
before it was proved.

*Only model-checked*: all liveness, which is beyond this prover.

*What the hypotheses are for.*  With `cancel` open TLC violates `StoredIsInFlash` and
`FreshUploadIsFlash` on the instance of run `host`, and without `DualBank` it
violates `FreshUploadIsFlash`: these the theorems need.  With `publish` open it finds no
violation of `StoredIsInFlash` on that instance; the theorem assumes that window
closed because it rests on `AcknowledgedStaysKept`, which fails with it open (run
`erase_error`).  Whether the tool's own order of requests makes up for that
window in general is not proved.

## 7. Not modelled, and what comes next

Not modelled: descriptors and clock set-up (constant tables and registers), the
serial log (output only), the jump stub (after the model's last state).  Of the
device core, what the standard requests other than SET_ADDRESS answer, and of
the port, suspend, remote wake-up and endpoints other than 0: the DFU interface
has no endpoint of its own.  Delays, the progress counters and the debug record
influence no decision the models make.  Of `scripts`, the tests: they need the
hardware and judge by hand-picked sequences.

By far the largest part of the repository, `Common` (the register definitions
and peripheral drivers of the chip vendor: timers, Ethernet, CAN, converters
...), is not used by the bootloader except for a few clock, pin and flash
register writes, and has no logic of this program.

Plan, in order:

1. The standard requests of `usbd_core.c` (configuration, interface and endpoint
   features) over `UsbEp0`, whose answers are one free reply so far.
2. Suspend and wake-up of the port, and the vendor's flash controller below
   `DfuFlash`, whose outcomes are the nondeterministic `Faults` so far.
