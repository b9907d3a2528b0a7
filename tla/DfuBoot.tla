------------------------------ MODULE DfuBoot ------------------------------
(***************************************************************************)
(* The bootloader: main, dfu_mode and jump_to_app (User/main.c) and the    *)
(* part of dfu_usb_poll and its helpers that runs in the main loop         *)
(* (User/dfu_usb.c), around the DFU class of UsbdDfu.                      *)
(*                                                                         *)
(* One turn of the main loop polls the flash backend (PollStep), waits for *)
(* the end of manifestation or resets that wait, and updates the           *)
(* inactivity timer.  The timer and the end of manifestation tear the      *)
(* session down by assignments the USB interrupt can separate, so each     *)
(* variable they write has its own step here.                              *)
(***************************************************************************)
EXTENDS UsbdDfu

CONSTANTS
  StayBuilds,    \* the values of DFU_DEBUG_STAY_IN_DFU considered
  WaitMs,        \* turns in dfuMANIFEST-WAIT-RESET before leaving it
  DefaultMs,     \* DFU_DEFAULT_INACTIVITY_MS
  TriggerMs      \* DFU_TRIGGER_INACTIVITY_MS

ASSUME TimerAssumption ==
  /\ StayBuilds \subseteq BOOLEAN /\ StayBuilds # {}
  /\ {WaitMs, DefaultMs, TriggerMs} \subseteq Nat \ {0}

VARIABLES
  at,     \* where main and dfu_mode are; in "loop" dfu_flash_poll runs
  boot,   \* dfu_mode's and main's locals, g_timeout_boot_blocked and the build
  magic   \* g_dfu_magic holds DFU_BOOT_MAGIC_VALUE

bootVars == <<dfuVars, at, boot, magic>>

InitBoot(stay) ==
  [stay |-> stay, triggered |-> FALSE, inactive |-> 0, blocked |-> FALSE,
   pass |-> 1, entry |-> AppBase, why |-> "none", resume |-> FALSE]

TeardownAt == {"tdCancel", "tdAddress", "tdFlags", "tdStatus", "tdState",
               "rsBegin", "rsAddress"}
LeavingAt  == {"decide", "leave", "jump", "delay"}
BootAt     == TeardownAt \cup LeavingAt \cup {"start", "loop", "tick", "booted"}

\* The first word of an application tells: erased means none, junk may look
\* like either.
EntryTests(a) ==
  IF flash[a] = Erased THEN {FALSE} ELSE IF flash[a] = Junk THEN BOOLEAN ELSE {TRUE}

Timeout == IF boot.triggered THEN TriggerMs ELSE DefaultMs

\* A step of the main thread outside dfu_flash_poll, and the one after it
\* returned; neither touches the flash, the cache or the media record.
Main(label) == at' = label /\ UNCHANGED <<flash, mainVars>>
Polled(label) == at = "loop" /\ PollAgain /\ at' = label

(***************************************************************************)
(* Entry.                                                                  *)
(***************************************************************************)

\* main: read the triggers, consume the magic word, start USB.
Start ==
  /\ at = "start"
  /\ \E pin \in BOOLEAN : boot' = [boot EXCEPT !.triggered = magic \/ pin]
  /\ magic' = FALSE
  /\ Main("loop")
  /\ UNCHANGED <<media, classVars>>

(***************************************************************************)
(* dfu_usb_poll after dfu_flash_poll returned.                             *)
(***************************************************************************)

\* A media error holds the loop here: the inactivity timer restarts.
\* Mutant: after an error the loop goes on to the timer.
ReportErrorGoesOn ==
  /\ loc.ret = "failed" /\ Polled("tick")
  /\ UNCHANGED <<classVars, boot, magic>>

ReportError ==
  /\ loc.ret = "failed" /\ Polled("loop")
  /\ boot' = [boot EXCEPT !.inactive = 0]
  /\ UNCHANGED <<classVars, magic>>

Manifested == media.done /\ dfu.state = "dfuMANIFEST-WAIT-RESET"

\* bind.wait counts turns of the loop in dfuMANIFEST-WAIT-RESET.
\* Mutant: one turn too many.
CountWaitTooLong ==
  /\ loc.ret # "failed" /\ Polled("tick")
  /\ ~Manifested \/ bind.wait <= WaitMs
  /\ bind' = [bind EXCEPT !.wait = IF Manifested THEN @ + 1 ELSE 0]
  /\ UNCHANGED <<dfu, fresh, want, boot, magic>>

CountWait ==
  /\ loc.ret # "failed" /\ Polled("tick")
  /\ ~Manifested \/ bind.wait < WaitMs
  /\ bind' = [bind EXCEPT !.wait = IF Manifested THEN @ + 1 ELSE 0]
  /\ UNCHANGED <<dfu, fresh, want, boot, magic>>

\* Then the selected application is started, or the session resumed when it
\* is invalid or the build stays in DFU.
EndManifest ==
  /\ loc.ret # "failed"
  /\ Manifested /\ bind.wait >= WaitMs
  /\ \E ok \in EntryTests(bind.exec) :
       IF ok /\ ~boot.stay
       THEN Polled("leave") /\ boot' = [boot EXCEPT !.why = "manifest"]
       ELSE Polled("tdCancel") /\ boot' = [boot EXCEPT !.resume = TRUE]
  /\ UNCHANGED <<classVars, magic>>

(***************************************************************************)
(* The rest of the loop in dfu_mode.                                       *)
(***************************************************************************)

\* A trigger seen late lengthens the timeout.
LateTrigger ==
  /\ at = "tick" /\ ~boot.triggered
  /\ boot' = [boot EXCEPT !.triggered = TRUE, !.inactive = 0]
  /\ Main("tick")
  /\ UNCHANGED <<media, classVars, magic>>

\* Mutant: the activity count is compared and never sampled again.
TickNeverSamples ==
  /\ at = "tick" /\ fresh
  /\ boot' = [boot EXCEPT !.inactive = 0]
  /\ Main("loop")
  /\ UNCHANGED <<media, fresh, dfu, bind, want, magic>>

TickActive ==
  /\ at = "tick" /\ fresh
  /\ fresh' = FALSE
  /\ boot' = [boot EXCEPT !.inactive = 0]
  /\ Main("loop")
  /\ UNCHANGED <<media, dfu, bind, want, magic>>

TickQuiet ==
  /\ at = "tick" /\ ~fresh
  /\ boot' = [boot EXCEPT !.inactive = @ + 1]
  /\ Main(IF boot.inactive + 1 >= Timeout THEN "tdCancel" ELSE "loop")
  /\ UNCHANGED <<media, classVars, magic>>

(***************************************************************************)
(* usbd_dfu_force_idle, alone or inside resume_dfu_idle.                   *)
(***************************************************************************)
\* Mutant: the timeout leaves the media backend as it is.
TearKeepsMedia ==
  /\ at = "tdCancel"
  /\ want' = NoWant
  /\ Main("tdAddress")
  /\ UNCHANGED <<media, dfu, bind, fresh, boot, magic>>

TearCancel ==
  /\ at = "tdCancel"
  /\ media' = Cancel(media) /\ want' = NoWant
  /\ Main("tdAddress")
  /\ UNCHANGED <<dfu, bind, fresh, boot, magic>>

\* Mutant: the timeout keeps the execute address.
TearKeepsAddress ==
  /\ at = "tdAddress"
  /\ bind' = [bind EXCEPT !.wait = 0]
  /\ Main("tdFlags")
  /\ UNCHANGED <<media, dfu, fresh, want, boot, magic>>

TearAddress ==
  /\ at = "tdAddress"
  /\ bind' = AbortBinding(bind)
  /\ Main("tdFlags")
  /\ UNCHANGED <<media, dfu, fresh, want, boot, magic>>

TearFlags ==
  /\ at = "tdFlags"
  /\ dfu' = CancelClass(dfu)
  /\ Main("tdStatus")
  /\ UNCHANGED <<media, bind, fresh, want, boot, magic>>

TearStatus ==
  /\ at = "tdStatus"
  /\ dfu' = [dfu EXCEPT !.status = "OK"]
  /\ Main("tdState")
  /\ UNCHANGED <<media, bind, fresh, want, boot, magic>>

TearState ==
  /\ at = "tdState"
  /\ dfu' = [dfu EXCEPT !.state = "dfuIDLE"]
  /\ Main(IF boot.resume THEN "rsBegin" ELSE "decide")
  /\ UNCHANGED <<media, bind, fresh, want, boot, magic>>

ResumeBegin ==
  /\ at = "rsBegin"
  /\ media' = Begin(media) /\ want' = NoWant
  /\ Main("rsAddress")
  /\ UNCHANGED <<dfu, bind, fresh, boot, magic>>

\* resume_dfu_idle resets the addresses again; its caller then locks the
\* session against a timeout boot.
ResumeAddress ==
  /\ at = "rsAddress"
  /\ bind' = AbortBinding(bind)
  /\ boot' = [boot EXCEPT !.blocked = TRUE, !.resume = FALSE]
  /\ Main("tick")
  /\ UNCHANGED <<media, dfu, fresh, want, magic>>

(***************************************************************************)
(* Leaving DFU mode.                                                       *)
(***************************************************************************)
\* Mutants: the lock, or the entry, is not looked at.
DecideIgnoresLock ==
  /\ at = "decide"
  /\ \E ok \in EntryTests(AppBase) :
       IF ok
       THEN Main("leave") /\ boot' = [boot EXCEPT !.why = "timeout"]
       ELSE Main("loop") /\ boot' = [boot EXCEPT !.inactive = 0]
  /\ UNCHANGED <<media, classVars, magic>>
DecideIgnoresEntry ==
  /\ at = "decide"
  /\ IF boot.blocked
     THEN Main("loop") /\ boot' = [boot EXCEPT !.inactive = 0]
     ELSE Main("leave") /\ boot' = [boot EXCEPT !.why = "timeout"]
  /\ UNCHANGED <<media, classVars, magic>>

Decide ==
  /\ at = "decide"
  /\ \E ok \in EntryTests(AppBase) :
       IF ok /\ ~boot.blocked
       THEN Main("leave") /\ boot' = [boot EXCEPT !.why = "timeout"]
       ELSE Main("loop") /\ boot' = [boot EXCEPT !.inactive = 0]
  /\ UNCHANGED <<media, classVars, magic>>

\* main and the second call in jump_to_app read the execute address; only
\* main checks its range, which set_exec_address already guarantees.
Leave ==
  /\ at = "leave"
  /\ boot' = [boot EXCEPT !.entry = bind.exec]
  /\ Main(IF boot.pass = 1 THEN "jump" ELSE "delay")
  /\ UNCHANGED <<media, classVars, magic>>

\* An entry found invalid at the last moment starts DFU mode once more.
Jump ==
  /\ at = "jump"
  /\ \E ok \in EntryTests(boot.entry) :
       IF ok
       THEN Main("delay") /\ UNCHANGED <<media, bind, fresh, want, boot>>
       ELSE /\ Main("loop")
            /\ media' = Begin(media) /\ want' = NoWant
            /\ bind' = ResetAddressing(bind) /\ fresh' = FALSE
            /\ boot' = [InitBoot(boot.stay) EXCEPT !.pass = 2]
  /\ UNCHANGED <<dfu, magic>>

\* 20 ms after the entry was tested or read for the last time, USB is turned
\* off and the application started.
Deinit == at = "delay" /\ Main("booted") /\ UNCHANGED <<media, classVars, boot, magic>>

MainLoop ==
  \/ Start \/ ReportError \/ CountWait \/ EndManifest
  \/ LateTrigger \/ TickActive \/ TickQuiet
  \/ TearCancel \/ TearAddress \/ TearFlags \/ TearStatus \/ TearState
  \/ ResumeBegin \/ ResumeAddress \/ Decide \/ Leave \/ Jump \/ Deinit

(***************************************************************************)
(* The application, resets and the USB interrupt.                          *)
(***************************************************************************)
ChipReset ==
  /\ DfuPowerLoss
  /\ at' = "start" /\ boot' = InitBoot(boot.stay)

\* The application asks for an update: dfu_request_reboot.
AppReboot == at = "booted" /\ magic' = TRUE /\ ChipReset

PowerCycle == magic' = FALSE /\ ChipReset

\* The interrupt is enabled from dfu_usb_init to usb_dc_deinit.
UsbOn ==
  /\ at \notin {"start", "booted"}
  /\ at \in TeardownAt => "teardown" \in Races
  /\ at \in LeavingAt => "leaving" \in Races

Usb(request) == UsbOn /\ request /\ UNCHANGED <<at, boot, magic>>

BootInit ==
  /\ DfuInit /\ at = "start"
  /\ boot \in {InitBoot(stay) : stay \in StayBuilds} /\ magic = FALSE

Poll == at = "loop" /\ PollStep /\ UNCHANGED <<classVars, at, boot, magic>>

MainThread == MainLoop \/ Poll

BootNext ==
  \/ MainThread
  \/ Usb(StatusRequest) \/ Usb(Command) \/ Usb(BusReset)
  \/ AppReboot \/ PowerCycle

BootSpec == BootInit /\ [][BootNext]_bootVars /\ WF_bootVars(MainThread)

(***************************************************************************)
(* Invariants.                                                             *)
(***************************************************************************)

\* The main thread's outer variables have their types; the timers never run
\* past the point where they act.
BootTypeOK ==
  /\ at \in BootAt
  /\ boot \in [stay : StayBuilds, triggered : BOOLEAN, inactive : 0 .. (DefaultMs + TriggerMs),
               blocked : BOOLEAN, pass : {1, 2}, entry : AppCell,
               why : {"none", "timeout", "manifest"}, resume : BOOLEAN]
  /\ bind.wait \in 0 .. WaitMs
  /\ magic \in BOOLEAN

\* An inactivity timeout starts the default application only, and never once
\* a manifestation locked the session: main.c:160-163.
TimeoutBootsDefault ==
  at = "booted" /\ boot.why = "timeout" => boot.entry = AppBase /\ ~boot.blocked

\* The processor never jumps to an erased entry, on the second pass of
\* jump_to_app either, which does not test it again.
BootsProgrammedEntry == at = "booted" => flash[boot.entry] # Erased

\* Leaving by manifestation, everything the host was told is stored is in
\* the flash; leaving by timeout, nothing accepted is still on its way there.
BootsSettledFlash ==
  at = "booted" =>
    /\ ~Busy(media) /\ ~(media.valid /\ media.dirty)
    /\ boot.why = "manifest" => \A a \in AppCell : want[a] # Free => flash[a] = want[a]

\* A timeout never tears a session down, nor boots, over a flash error the
\* host has not read: main.c:136-141, DFU_PROTOCOL.md:84-85.
TimeoutSparesErrors ==
  (at = "tdCancel" /\ ~boot.resume) \/ at = "booted" => media.err = "none"

(***************************************************************************)
(* Liveness.                                                               *)
(***************************************************************************)
\* A host that falls silent, on a chip that stays powered, does not keep a
\* good application from starting, unless an error waits to be read, a
\* manifestation locked the session or the application is missing.
SilentHostIsLeft ==
  <>[][MainThread]_bootVars =>
    []<>(at = "booted" \/ media.err # "none" \/ boot.blocked \/ flash[AppBase] \in {Erased, Junk})
=============================================================================
