---------------------------- MODULE DfuBootProofs ----------------------------
(***************************************************************************)
(* What TLAPS proves of the bootloader as a whole: that its types hold and *)
(* the flash below the application is out of reach whatever the races, and *)
(* which application it starts, over what flash, when the interrupt keeps  *)
(* out of the windows that Races names.                                    *)
(*                                                                         *)
(* Outside dfu_flash_poll the main thread leaves the backend alone, but    *)
(* for the teardown of a session; the invariants of DfuClassProofs hold    *)
(* everywhere but in its middle, where what is left is TornDown.           *)
(***************************************************************************)
EXTENDS DfuBoot, DfuClassProofs

(***************************************************************************)
(* The kinds of steps.                                                     *)
(***************************************************************************)

\* A step of main, dfu_mode or the end of dfu_usb_poll that does no more
\* than return from dfu_flash_poll.
LoopStep ==
  \/ Start \/ ReportError \/ CountWait \/ EndManifest \/ LateTrigger
  \/ TickActive \/ TickQuiet \/ Decide \/ Leave \/ Deinit \/ ResumeAddress

\* A step that cancels the job, and one that changes g_dfu.
DropStep  == TearCancel \/ ResumeBegin
StateStep == TearFlags \/ TearStatus \/ TearState

LEMMA BootSteps ==
  ASSUME [BootNext]_bootVars
  PROVE  \/ Poll \/ LoopStep \/ DropStep \/ StateStep \/ TearAddress \/ Jump
         \/ (UsbOn /\ Request /\ UNCHANGED <<at, boot, magic>>)
         \/ (ChipReset /\ magic' \in BOOLEAN) \/ UNCHANGED bootVars
  BY DEF BootNext, MainThread, MainLoop, LoopStep, DropStep, StateStep, Usb, AppReboot,
       PowerCycle, Request

\* What such a step leaves of the backend and the class.
LEMMA LoopStepFacts ==
  ASSUME LoopStep
  PROVE  /\ PollAgain \/ UNCHANGED mediaVars
         /\ UNCHANGED <<dfu, want>>
  BY DEF LoopStep, Start, ReportError, CountWait, EndManifest, LateTrigger, TickActive,
       TickQuiet, Decide, Leave, Deinit, ResumeAddress, Main, Polled, mainVars, mediaVars, classVars

\* What the teardown leaves: nothing that was accepted.
LEMMA DropStepFacts ==
  ASSUME DropStep
  PROVE  /\ media' = Cancel(media) /\ want' = NoWant /\ HandledOnly
         /\ UNCHANGED <<dfu, bind, fresh, boot>>
  BY DEF DropStep, TearCancel, ResumeBegin, Begin, Main, mainVars, HandledOnly

LEMMA StateStepFacts ==
  ASSUME StateStep \/ TearAddress
  PROVE  UNCHANGED mediaVars /\ UNCHANGED <<fresh, want, boot>>
  BY DEF StateStep, TearFlags, TearStatus, TearState, TearAddress, Main, mainVars, mediaVars

\* The second start of DFU mode begins anew; an entry found valid changes
\* nothing.
LEMMA JumpFacts ==
  ASSUME Jump
  PROVE  /\ HandledOnly /\ at = "jump" /\ UNCHANGED dfu
         /\ \/ /\ at' = "delay" /\ flash[boot.entry] # Erased
               /\ UNCHANGED <<media, bind, fresh, want, boot>>
            \/ /\ at' = "loop" /\ media' = Begin(media) /\ want' = NoWant
               /\ bind' = ResetAddressing(bind) /\ fresh' = FALSE
               /\ boot' = [InitBoot(boot.stay) EXCEPT !.pass = 2]
<1>1. PICK ok \in EntryTests(boot.entry) :
        IF ok
        THEN Main("delay") /\ UNCHANGED <<media, bind, fresh, want, boot>>
        ELSE /\ Main("loop")
             /\ media' = Begin(media) /\ want' = NoWant
             /\ bind' = ResetAddressing(bind) /\ fresh' = FALSE
             /\ boot' = [InitBoot(boot.stay) EXCEPT !.pass = 2]
  BY DEF Jump
<1>2. ok => flash[boot.entry] # Erased
  BY <1>1 DEF EntryTests
<1> QED
  BY <1>1, <1>2 DEF Jump, Main, mainVars, HandledOnly

\* A reset of the chip.
LEMMA ResetFacts ==
  ASSUME ChipReset
  PROVE  /\ PowerLoss /\ MediaNext /\ DfuPowerLoss
         /\ dfu' = InitDfu /\ bind' = InitBind /\ fresh' = FALSE /\ want' = NoWant
         /\ at' = "start" /\ boot' = InitBoot(boot.stay)
  BY DEF ChipReset, DfuPowerLoss, ClassReset, MediaNext

(***************************************************************************)
(* The backend, for all races.                                             *)
(***************************************************************************)

\* MediaInv and CoherentInv are inductive under BootSpec too.
LEMMA BootKeepsMediaInv ==
  MediaInv /\ CoherentInv /\ [BootNext]_bootVars => MediaInv' /\ CoherentInv'
<1> SUFFICES ASSUME MediaInv, CoherentInv, [BootNext]_bootVars
             PROVE  MediaInv' /\ CoherentInv'
  OBVIOUS
<1>1. CASE MediaNext \/ UNCHANGED mediaVars
  BY <1>1, NextKeepsMediaInv, NextKeepsCoherentInv
<1>2. CASE Request
  BY <1>2, RequestStepOK, RequestKeepsMediaInv, RequestKeepsCoherentInv DEF HandledOnly
<1>3. CASE DropStep
  BY <1>3, DropStepFacts, CancelOK, RequestKeepsMediaInv, RequestKeepsCoherentInv
     DEF HandledOnly
<1>4. CASE Jump
  <2>1. RequestOK(media') /\ HandledOnly
    BY <1>4, JumpFacts, CancelOK, LoadingOK
  <2> QED
    BY <2>1, RequestKeepsMediaInv, RequestKeepsCoherentInv DEF HandledOnly
<1>5. Poll \/ LoopStep \/ StateStep \/ TearAddress \/ ChipReset \/ UNCHANGED bootVars
        => MediaNext \/ UNCHANGED mediaVars
  BY LoopStepFacts, StateStepFacts, ResetFacts
     DEF Poll, MediaNext, bootVars, dfuVars
<1> QED
  BY <1>1, <1>2, <1>3, <1>4, <1>5, BootSteps

LEMMA MediaInvUnderBoot == BootSpec => [](MediaInv /\ CoherentInv)
<1>1. BootInit => MediaInv /\ CoherentInv
  BY DfuInitMediaInv DEF BootInit
<1> QED
  BY <1>1, BootKeepsMediaInv, PTL DEF BootSpec

\* A cache that counts as clean is the flash's content, also when requests
\* come in while the main loop tears a session down or leaves DFU mode.
THEOREM BootKeepsCoherence == BootSpec => []CacheCoherent
<1>1. MediaInv /\ CoherentInv => CacheCoherent
  BY DEF CoherentInv
<1> QED
  BY <1>1, MediaInvUnderBoot, PTL

\* Nothing the bootloader does, in any of the windows, changes a cell below
\* the application.
THEOREM BootKeepsBootloader == BootSpec => BootloaderIntact
<1>1. ASSUME MediaInv, [BootNext]_bootVars
      PROVE  [\A a \in 0 .. AppBase - 1 : flash'[a] = flash[a]]_mediaVars
  <2>1. CASE MediaNext
    <3>1. SUFFICES ASSUME NEW a \in 0 .. AppBase - 1, flash'[a] # flash[a] PROVE FALSE
      OBVIOUS
    <3>2. a \in Addr
      BY Sizes DEF Addr
    <3>3. mpc \in BurnPc /\ a \in SectorAt(OpSector)
      BY <1>1, <2>1, <3>1, <3>2, FlashChanges
    <3>4. AppBase <= a
      BY <1>1, <3>3, OpSectorInApp
    <3> QED
      BY <3>4, Sizes
  <2>2. CASE UNCHANGED mediaVars
    BY <2>2
  <2>3. CASE Request \/ DropStep \/ Jump
    <3>1. HandledOnly
      BY <1>1, <2>3, RequestStepOK, DropStepFacts, JumpFacts
    <3> QED
      BY <3>1 DEF HandledOnly
  <2>4. Poll \/ LoopStep \/ StateStep \/ TearAddress \/ ChipReset \/ UNCHANGED bootVars
          => MediaNext \/ UNCHANGED mediaVars
    BY LoopStepFacts, StateStepFacts, ResetFacts
       DEF Poll, MediaNext, bootVars, dfuVars
  <2> QED
    BY <1>1, <2>1, <2>2, <2>3, <2>4, BootSteps
<1> QED
  BY <1>1, MediaInvUnderBoot, PTL DEF BootSpec, BootloaderIntact

(***************************************************************************)
(* Types and timers, for all races.                                        *)
(***************************************************************************)

BootType ==
  [stay : StayBuilds, triggered : BOOLEAN, inactive : 0 .. (DefaultMs + TriggerMs),
   blocked : BOOLEAN, pass : {1, 2}, entry : AppCell,
   why : {"none", "timeout", "manifest"}, resume : BOOLEAN]

\* The timer has run out only where that is being acted on.
TimerInTime ==
  /\ boot.inactive <= Timeout
  /\ at \in {"loop", "tick"} \/ boot.resume => boot.inactive < Timeout
  /\ at = "start" => boot.inactive = 0

\* The session is resumed by the teardown that was told to.
ResumeInTeardown ==
  /\ boot.resume => at \in TeardownAt
  /\ at \in {"rsBegin", "rsAddress"} => boot.resume

BindingTyped ==
  bind \in BindType /\ want \in WantType /\ fresh \in BOOLEAN /\ bind.wait \in 0 .. WaitMs

BootTypeInv ==
  /\ at \in BootAt /\ boot \in BootType /\ magic \in BOOLEAN
  /\ BindingTyped /\ TimerInTime /\ ResumeInTeardown

\* The two timeouts are positive, and bounded by their sum.
LEMMA TimeoutFacts ==
  /\ WaitMs \in Nat /\ DefaultMs \in Nat /\ TriggerMs \in Nat
  /\ Timeout \in Nat \ {0} /\ Timeout <= DefaultMs + TriggerMs
  /\ 0 \in 0 .. WaitMs /\ 0 \in 0 .. (DefaultMs + TriggerMs)
  BY TimerAssumption DEF Timeout

\* What dfu_mode starts with is typed, and its timer far from its end.
LEMMA InitBootFacts ==
  ASSUME NEW stay \in StayBuilds
  PROVE  /\ InitBoot(stay) \in BootType
         /\ [InitBoot(stay) EXCEPT !.pass = 2] \in BootType
         /\ InitBoot(stay).inactive = 0 /\ ~InitBoot(stay).resume
         /\ [InitBoot(stay) EXCEPT !.pass = 2].inactive = 0
         /\ ~[InitBoot(stay) EXCEPT !.pass = 2].resume
<1>1. 0 \in 0 .. (DefaultMs + TriggerMs) /\ AppBase \in AppCell
  BY TimeoutFacts, BaseIsAligned
<1> QED
  BY <1>1 DEF InitBoot, BootType

\* A timer that was reset is in time.
LEMMA ResetTimer ==
  ASSUME boot'.inactive = 0
  PROVE  TimerInTime'
<1>1. Timeout' \in Nat \ {0}
  BY TimerAssumption DEF Timeout
<1> QED
  BY <1>1 DEF TimerInTime

\* Requests and teardowns only ever reset the wait.
LEMMA AbortedWait ==
  ASSUME NEW b \in BindType
  PROVE  AbortBinding(b).wait = 0 /\ ResetAddressing(b).wait = b.wait
  BY DEF BindType, AbortBinding, ResetAddressing

LEMMA RequestKeepsWait ==
  ASSUME bind \in BindType, Request
  PROVE  bind'.wait \in {bind.wait, 0}
<1> USE DEF Handled
<1>1. CASE GetStateOrStall \/ GetStatusError \/ GetStatus \/ DnloadEnd
  BY <1>1 DEF GetStateOrStall, GetStatusError, GetStatus, DnloadEnd
<1>2. CASE ClrStatus \/ Abort \/ BusReset
  BY <1>2, AbortedWait DEF ClrStatus, Abort, BusReset
<1>3. ASSUME NEW a \in HostAddrs, SetAddress(a) \/ SetExecAddress(a) \/ EraseCommand(a)
      PROVE  bind'.wait \in {bind.wait, 0}
  BY <1>3 DEF SetAddress, SetExecAddress, EraseCommand, Commanded, BindType
<1>4. ASSUME NEW b \in HostBlocks, NEW p \in Payloads, DnloadData(b, p)
      PROVE  bind'.wait \in {bind.wait, 0}
  BY <1>4 DEF DnloadData, LoadingBinding, BindType
<1>5. ASSUME NEW b \in HostBlocks,
             UploadRefused(b) \/ \E n \in 0 .. UploadMax : Upload(b, n)
      PROVE  bind'.wait \in {bind.wait, 0}
  <2>1. bind' \in {bind, ResetAddressing(bind)}
    BY <1>5 DEF UploadRefused, Upload
  <2> QED
    BY <2>1, AbortedWait
<1> QED
  BY <1>1, <1>2, <1>3, <1>4, <1>5 DEF Request, StatusRequest, Command

\* What the steps that do not run the timer leave it.
LEMMA SameTimer ==
  ASSUME BootTypeInv, boot'.inactive = boot.inactive, boot'.triggered = boot.triggered,
         at' \in {"loop", "tick"} \/ boot'.resume
           => at \in {"loop", "tick"} \/ boot.resume,
         at' = "start" => at = "start"
  PROVE  TimerInTime'
  BY DEF BootTypeInv, TimerInTime, Timeout

\* The end of dfu_usb_poll.
LEMMA PollEndKeepsTypes ==
  ASSUME BootTypeInv, ReportError \/ CountWait \/ EndManifest
  PROVE  BootTypeInv'
<1> USE DEF BootTypeInv, Polled
<1>1. CASE ReportError
  <2>1. /\ at = "loop" /\ at' = "loop" /\ boot' = [boot EXCEPT !.inactive = 0]
        /\ UNCHANGED <<dfu, bind, fresh, want, magic>>
    BY <1>1 DEF ReportError, classVars
  <2>2. boot' \in BootType /\ boot'.inactive = 0 /\ boot'.resume = boot.resume
    BY <2>1, TimeoutFacts DEF BootType
  <2> QED
    BY <2>1, <2>2, ResetTimer DEF BindingTyped, ResumeInTeardown, TeardownAt
<1>2. CASE CountWait
  <2>1. /\ at = "loop" /\ at' = "tick" /\ UNCHANGED <<dfu, fresh, want, boot, magic>>
        /\ ~Manifested \/ bind.wait < WaitMs
        /\ bind' = [bind EXCEPT !.wait = IF Manifested THEN @ + 1 ELSE 0]
    BY <1>2 DEF CountWait
  <2>2. bind.wait \in Nat /\ bind.wait <= WaitMs
    BY DEF BindingTyped
  <2>3. bind' \in BindType /\ bind'.wait \in 0 .. WaitMs
    BY <2>1, <2>2, TimeoutFacts DEF BindingTyped, BindType
  <2>4. TimerInTime'
    BY <2>1, SameTimer
  <2> QED
    BY <2>1, <2>3, <2>4 DEF BindingTyped, ResumeInTeardown, TeardownAt, BootAt
<1>3. CASE EndManifest
  <2>1. /\ at = "loop" /\ UNCHANGED <<dfu, bind, fresh, want, magic>>
        /\ \/ at' = "leave" /\ boot' = [boot EXCEPT !.why = "manifest"]
           \/ at' = "tdCancel" /\ boot' = [boot EXCEPT !.resume = TRUE]
    BY <1>3 DEF EndManifest, classVars
  <2>2. /\ boot' \in BootType /\ boot'.inactive = boot.inactive
        /\ boot'.triggered = boot.triggered
        /\ at' = "leave" => boot'.resume = boot.resume
    BY <2>1 DEF BootType
  <2>3. TimerInTime'
    BY <2>1, <2>2, SameTimer
  <2> QED
    BY <2>1, <2>2, <2>3 DEF BindingTyped, ResumeInTeardown, TeardownAt, LeavingAt, BootAt
<1> QED
  BY <1>1, <1>2, <1>3

\* The inactivity timer.
LEMMA TickKeepsTypes ==
  ASSUME BootTypeInv, LateTrigger \/ TickActive \/ TickQuiet
  PROVE  BootTypeInv'
<1> USE DEF BootTypeInv, Main
<1>1. CASE LateTrigger
  <2>1. /\ at = "tick" /\ at' = "tick"
        /\ boot' = [boot EXCEPT !.triggered = TRUE, !.inactive = 0]
        /\ UNCHANGED <<dfu, bind, fresh, want, magic>>
    BY <1>1 DEF LateTrigger, classVars
  <2>2. boot' \in BootType /\ boot'.inactive = 0 /\ boot'.resume = boot.resume
    <3>1. TRUE \in BOOLEAN /\ 0 \in 0 .. (DefaultMs + TriggerMs)
      BY TimeoutFacts
    <3> QED
      BY <2>1, <3>1 DEF BootType
  <2> QED
    BY <2>1, <2>2, ResetTimer DEF BindingTyped, ResumeInTeardown, TeardownAt
<1>2. CASE TickActive
  <2>1. /\ at = "tick" /\ at' = "loop" /\ boot' = [boot EXCEPT !.inactive = 0]
        /\ fresh' = FALSE /\ UNCHANGED <<dfu, bind, want, magic>>
    BY <1>2 DEF TickActive
  <2>2. boot' \in BootType /\ boot'.inactive = 0 /\ boot'.resume = boot.resume
    BY <2>1, TimeoutFacts DEF BootType
  <2> QED
    BY <2>1, <2>2, ResetTimer DEF BindingTyped, ResumeInTeardown, TeardownAt, BootAt
<1>3. CASE TickQuiet
  <2> DEFINE i == boot.inactive
  <2>1. /\ at = "tick" /\ boot' = [boot EXCEPT !.inactive = @ + 1]
        /\ at' = IF i + 1 >= Timeout THEN "tdCancel" ELSE "loop"
        /\ UNCHANGED <<dfu, bind, fresh, want, magic>>
    BY <1>3 DEF TickQuiet, classVars
  <2>2. i \in Nat /\ i < Timeout /\ ~boot.resume
    BY <2>1 DEF TimerInTime, BootType, ResumeInTeardown, TeardownAt
  <2>3. i + 1 \in 0 .. (DefaultMs + TriggerMs) /\ i + 1 <= Timeout
    BY <2>2, TimeoutFacts
  <2>4. /\ boot' \in BootType /\ boot'.inactive = i + 1 /\ ~boot'.resume
        /\ boot'.triggered = boot.triggered
    BY <2>1, <2>2, <2>3 DEF BootType
  <2>5. Timeout' = Timeout
    BY <2>4 DEF Timeout
  <2>6. at' = "loop" => i + 1 < Timeout
    BY <2>1, <2>2, TimeoutFacts
  <2>7. at' \in {"tdCancel", "loop"}
    BY <2>1
  <2> HIDE DEF i
  <2> QED
    BY <2>1, <2>3, <2>4, <2>5, <2>6, <2>7
       DEF TimerInTime, BindingTyped, ResumeInTeardown, TeardownAt, BootAt
<1> QED
  BY <1>1, <1>2, <1>3

\* The teardown of a session.
LEMMA TeardownKeepsTypes ==
  ASSUME BootTypeInv, DropStep \/ StateStep \/ TearAddress \/ ResumeAddress
  PROVE  BootTypeInv'
<1> USE DEF BootTypeInv
<1>0. bind \in BindType /\ NoWant \in WantType
  BY NoWantOK DEF BindingTyped
<1>1. CASE ResumeAddress
  <2>1. /\ at = "rsAddress" /\ at' = "tick"
        /\ boot' = [boot EXCEPT !.blocked = TRUE, !.resume = FALSE]
        /\ bind' = AbortBinding(bind) /\ UNCHANGED <<fresh, want, magic>>
    BY <1>1 DEF ResumeAddress, Main
  <2>2. /\ boot' \in BootType /\ boot'.inactive = boot.inactive /\ ~boot'.resume
        /\ boot'.triggered = boot.triggered
    BY <2>1 DEF BootType
  <2>3. boot.resume
    BY <2>1 DEF ResumeInTeardown
  <2>4. TimerInTime'
    BY <2>1, <2>2, <2>3, SameTimer
  <2> QED
    BY <1>0, <2>1, <2>2, <2>4, AbortBindingOK, AbortedWait, TimeoutFacts
       DEF BindingTyped, ResumeInTeardown, BootAt
<1>2. CASE DropStep \/ StateStep \/ TearAddress
  <2>1. /\ boot' = boot /\ magic' = magic /\ fresh' = fresh /\ want' \in {want, NoWant}
        /\ bind' \in {bind, AbortBinding(bind)}
        /\ at \in TeardownAt
    BY <1>2 DEF DropStep, StateStep, TearCancel, ResumeBegin, TearFlags, TearStatus, TearState,
         TearAddress, TeardownAt
  <2>2. at' \in TeardownAt \/ (at' = "decide" /\ ~boot.resume)
    BY <1>2 DEF DropStep, StateStep, TearCancel, ResumeBegin, TearFlags, TearStatus, TearState,
         TearAddress, TeardownAt, Main
  <2>3. at' \in {"rsBegin", "rsAddress"} => boot.resume
    BY <1>2 DEF DropStep, StateStep, TearCancel, ResumeBegin, TearFlags, TearStatus, TearState,
         TearAddress, Main, ResumeInTeardown
  <2>4. TimerInTime'
    BY <2>1, <2>2, SameTimer DEF TeardownAt
  <2>5. bind' \in BindType /\ bind'.wait \in 0 .. WaitMs
    BY <1>0, <2>1, AbortBindingOK, AbortedWait, TimeoutFacts DEF BindingTyped
  <2> QED
    BY <1>0, <2>1, <2>2, <2>3, <2>4, <2>5
       DEF BindingTyped, ResumeInTeardown, BootAt, LeavingAt
<1> QED
  BY <1>1, <1>2

\* Starting and leaving.
LEMMA EntryKeepsTypes ==
  ASSUME BootTypeInv,
         Start \/ Decide \/ Leave \/ Jump \/ Deinit \/ (ChipReset /\ magic' \in BOOLEAN)
  PROVE  BootTypeInv'
<1> USE DEF BootTypeInv
<1>1. CASE Start
  <2>1. /\ at = "start" /\ at' = "loop" /\ magic' = FALSE
        /\ UNCHANGED <<bind, fresh, want>>
    BY <1>1 DEF Start, Main, classVars
  <2>2. PICK t \in BOOLEAN : boot' = [boot EXCEPT !.triggered = t]
    BY <1>1 DEF Start
  <2>3. /\ boot' \in BootType /\ boot'.inactive = 0 /\ boot'.resume = boot.resume
    BY <2>1, <2>2 DEF BootType, TimerInTime
  <2> QED
    BY <2>1, <2>3, ResetTimer DEF BindingTyped, ResumeInTeardown, TeardownAt, BootAt
<1>2. CASE Decide
  <2>1. /\ at = "decide" /\ UNCHANGED <<bind, fresh, want, magic>>
        /\ \/ at' = "leave" /\ boot' = [boot EXCEPT !.why = "timeout"]
           \/ at' = "loop" /\ boot' = [boot EXCEPT !.inactive = 0]
    BY <1>2 DEF Decide, Main, classVars
  <2>2. ~boot.resume
    BY <2>1 DEF ResumeInTeardown, TeardownAt
  <2>3. CASE at' = "leave"
    <3>1. /\ boot' \in BootType /\ boot'.inactive = boot.inactive /\ ~boot'.resume
          /\ boot'.triggered = boot.triggered
      BY <2>1, <2>2, <2>3 DEF BootType
    <3>2. TimerInTime'
      BY <2>3, <3>1, SameTimer
    <3> QED
      BY <2>1, <2>3, <3>1, <3>2 DEF BindingTyped, ResumeInTeardown, LeavingAt, BootAt
  <2>4. CASE at' = "loop"
    <3>1. boot' \in BootType /\ boot'.inactive = 0 /\ ~boot'.resume
      BY <2>1, <2>2, <2>4, TimeoutFacts DEF BootType
    <3> QED
      BY <2>1, <2>4, <3>1, ResetTimer DEF BindingTyped, ResumeInTeardown, BootAt
  <2> QED
    BY <2>1, <2>3, <2>4
<1>3. CASE Leave
  <2>1. /\ at = "leave" /\ at' \in {"jump", "delay"} /\ UNCHANGED <<bind, fresh, want, magic>>
        /\ boot' = [boot EXCEPT !.entry = bind.exec]
    BY <1>3 DEF Leave, Main, classVars
  <2>2. bind.exec \in AppCell
    BY DEF BindingTyped, BindType
  <2>3. /\ boot' \in BootType /\ boot'.inactive = boot.inactive
        /\ boot'.resume = boot.resume /\ boot'.triggered = boot.triggered
    BY <2>1, <2>2 DEF BootType
  <2>4. TimerInTime' /\ ~boot.resume
    BY <2>1, <2>3, SameTimer DEF ResumeInTeardown, TeardownAt
  <2> QED
    BY <2>1, <2>3, <2>4 DEF BindingTyped, ResumeInTeardown, LeavingAt, BootAt
<1>4. CASE Jump
  <2>1. magic' = magic /\ at = "jump" /\ ~boot.resume
    BY <1>4, JumpFacts DEF Jump, ResumeInTeardown, TeardownAt
  <2>2. CASE at' = "delay" /\ UNCHANGED <<media, bind, fresh, want, boot>>
    <3>1. TimerInTime'
      BY <2>1, <2>2, SameTimer
    <3> QED
      BY <2>1, <2>2, <3>1 DEF BindingTyped, ResumeInTeardown, LeavingAt, BootAt
  <2>3. CASE /\ at' = "loop" /\ want' = NoWant
             /\ bind' = ResetAddressing(bind) /\ fresh' = FALSE
             /\ boot' = [InitBoot(boot.stay) EXCEPT !.pass = 2]
    <3>1. boot.stay \in StayBuilds
      BY DEF BootType
    <3>2. boot' \in BootType /\ boot'.inactive = 0 /\ ~boot'.resume
      BY <2>3, <3>1, InitBootFacts
    <3>3. BindingTyped'
      BY <2>3, AbortBindingOK, AbortedWait, NoWantOK DEF BindingTyped
    <3> QED
      BY <2>1, <2>3, <3>2, <3>3, ResetTimer DEF ResumeInTeardown, BootAt
  <2> QED
    BY <1>4, <2>2, <2>3, JumpFacts
<1>5. CASE ChipReset /\ magic' \in BOOLEAN
  <2>1. /\ bind' = InitBind /\ fresh' = FALSE /\ want' = NoWant
        /\ at' = "start" /\ boot' = InitBoot(boot.stay)
    BY <1>5, ResetFacts
  <2>2. boot.stay \in StayBuilds
    BY DEF BootType
  <2>3. boot' \in BootType /\ boot'.inactive = 0 /\ ~boot'.resume
    BY <2>1, <2>2, InitBootFacts
  <2>4. bind'.wait = 0 /\ bind' \in BindType
    BY <2>1, InitialClass DEF InitBind
  <2>5. BindingTyped'
    <3>1. /\ NoWant \in WantType /\ FALSE \in BOOLEAN /\ 0 \in 0 .. WaitMs
      BY NoWantOK, TimeoutFacts
    <3> QED
      BY <2>1, <2>4, <3>1 DEF BindingTyped
  <2> QED
    BY <1>5, <2>1, <2>3, <2>5, ResetTimer DEF ResumeInTeardown, BootAt
<1>6. CASE Deinit
  <2>1. /\ at = "delay" /\ at' = "booted" /\ UNCHANGED <<bind, fresh, want, boot, magic>>
    BY <1>6 DEF Deinit, Main, classVars
  <2>2. TimerInTime' /\ ~boot.resume
    BY <2>1, SameTimer DEF ResumeInTeardown, TeardownAt
  <2> QED
    BY <2>1, <2>2 DEF BindingTyped, ResumeInTeardown, BootAt
<1> QED
  BY <1>1, <1>2, <1>3, <1>4, <1>5, <1>6

LEMMA BootKeepsTypes == BootTypeInv /\ [BootNext]_bootVars => BootTypeInv'
<1> SUFFICES ASSUME BootTypeInv, [BootNext]_bootVars PROVE BootTypeInv'
  OBVIOUS
<1>1. CASE UsbOn /\ Request /\ UNCHANGED <<at, boot, magic>>
  <2>1. BindingTyped'
    BY <1>1, RequestBindType, RequestKeepsWait, TimeoutFacts DEF BootTypeInv, BindingTyped
  <2> QED
    BY <1>1, <2>1 DEF BootTypeInv, TimerInTime, Timeout, ResumeInTeardown
<1>2. CASE Poll \/ UNCHANGED bootVars
  BY <1>2 DEF Poll, bootVars, dfuVars, classVars, BootTypeInv, BindingTyped, TimerInTime,
       Timeout, ResumeInTeardown
<1> QED
  BY <1>1, <1>2, BootSteps, PollEndKeepsTypes, TickKeepsTypes, TeardownKeepsTypes,
     EntryKeepsTypes DEF LoopStep

\* They hold at start-up.
LEMMA InitBootTypes == BootInit => BootTypeInv
<1> SUFFICES ASSUME BootInit PROVE BootTypeInv
  OBVIOUS
<1>1. PICK stay \in StayBuilds : boot = InitBoot(stay)
  BY DEF BootInit
<1>2. /\ at = "start" /\ magic = FALSE
      /\ bind = InitBind /\ fresh = FALSE /\ want = NoWant
  BY DEF BootInit, DfuInit, ClassInit
<1>3. boot \in BootType /\ boot.inactive = 0 /\ ~boot.resume
  BY <1>1, InitBootFacts
<1>4. bind \in BindType /\ bind.wait = 0 /\ 0 \in 0 .. WaitMs /\ want \in WantType
  BY <1>2, InitialClass, TimeoutFacts DEF InitBind
<1>5. TimerInTime
  BY <1>2, <1>3, TimeoutFacts DEF TimerInTime
<1> QED
  BY <1>2, <1>3, <1>4, <1>5 DEF BootTypeInv, BindingTyped, ResumeInTeardown, BootAt

\* The main thread's variables keep their types and its counters their
\* bounds, whatever the races.
THEOREM BootTypes == BootSpec => []BootTypeOK
<1>1. BootTypeInv => BootTypeOK
  BY DEF BootTypeInv, BootType, BindingTyped, BootTypeOK
<1> QED
  BY <1>1, InitBootTypes, BootKeepsTypes, PTL DEF BootSpec

(***************************************************************************)
(* Which application is started, when no request falls into a teardown or  *)
(* after the decision to leave.                                            *)
(***************************************************************************)

LeavesInv ==
  /\ at \in {"tdFlags", "tdStatus", "tdState", "decide"} => bind.exec = AppBase
  /\ at = "leave" => flash[bind.exec] # Erased
  /\ at = "leave" /\ boot.why = "timeout" => bind.exec = AppBase
  /\ at \in {"jump", "delay", "booted"} /\ boot.why = "timeout" => boot.entry = AppBase
  /\ at \in {"delay", "booted"} => flash[boot.entry] # Erased
  /\ boot.why = "timeout" => at \in {"leave", "jump", "delay", "booted"} /\ ~boot.blocked

\* Elsewhere it only asks where the main thread is not.
LEMMA NotLeaving ==
  ASSUME at' \notin {"tdFlags", "tdStatus", "tdState", "decide", "leave", "jump", "delay", "booted"},
         boot'.why # "timeout"
  PROVE  LeavesInv'
  BY DEF LeavesInv

LEMMA LeavingKeepsLeavesInv ==
  ASSUME BootTypeInv, LeavesInv, EndManifest \/ Decide \/ Leave \/ Jump \/ Deinit
  PROVE  LeavesInv'
<1>0. boot \in BootType /\ bind \in BindType
  BY DEF BootTypeInv, BindingTyped
<1>1. CASE EndManifest
  <2>1. PICK ok \in EntryTests(bind.exec) :
          IF ok /\ ~boot.stay
          THEN Polled("leave") /\ boot' = [boot EXCEPT !.why = "manifest"]
          ELSE Polled("tdCancel") /\ boot' = [boot EXCEPT !.resume = TRUE]
    BY <1>1 DEF EndManifest
  <2>2. UNCHANGED <<flash, bind>> /\ at = "loop" /\ boot.why # "timeout"
    BY <1>1, <2>1 DEF EndManifest, classVars, Polled, PollAgain, LeavesInv
  <2>3. CASE ok /\ ~boot.stay
    <3>1. at' = "leave" /\ boot'.why = "manifest" /\ flash[bind.exec] # Erased
      BY <1>0, <2>1, <2>3 DEF Polled, EntryTests, BootType
    <3> QED
      BY <2>2, <3>1 DEF LeavesInv
  <2>4. CASE ~(ok /\ ~boot.stay)
    <3>1. at' = "tdCancel" /\ boot'.why = boot.why
      BY <1>0, <2>1, <2>4 DEF Polled, BootType
    <3> QED
      BY <2>2, <3>1, NotLeaving
  <2> QED
    BY <2>3, <2>4
<1>2. CASE Decide
  <2>1. PICK ok \in EntryTests(AppBase) :
          IF ok /\ ~boot.blocked
          THEN Main("leave") /\ boot' = [boot EXCEPT !.why = "timeout"]
          ELSE Main("loop") /\ boot' = [boot EXCEPT !.inactive = 0]
    BY <1>2 DEF Decide
  <2>2. at = "decide" /\ UNCHANGED <<flash, bind>> /\ boot.why # "timeout"
    BY <1>2, <2>1 DEF Decide, classVars, Main, LeavesInv
  <2>3. CASE ok /\ ~boot.blocked
    <3>1. /\ at' = "leave" /\ ~boot'.blocked /\ flash[AppBase] # Erased
          /\ bind.exec = AppBase
      BY <1>0, <2>1, <2>2, <2>3 DEF Main, EntryTests, BootType, LeavesInv
    <3> QED
      BY <2>2, <3>1 DEF LeavesInv
  <2>4. CASE ~(ok /\ ~boot.blocked)
    <3>1. at' = "loop" /\ boot'.why = boot.why
      BY <1>0, <2>1, <2>4 DEF Main, BootType
    <3> QED
      BY <2>2, <3>1, NotLeaving
  <2> QED
    BY <2>3, <2>4
<1>3. CASE Leave
  <2>1. /\ at = "leave" /\ at' \in {"jump", "delay"} /\ UNCHANGED <<flash, bind>>
        /\ boot' = [boot EXCEPT !.entry = bind.exec]
    BY <1>3 DEF Leave, Main, classVars
  <2>2. boot'.entry = bind.exec /\ boot'.why = boot.why /\ boot'.blocked = boot.blocked
    BY <1>0, <2>1 DEF BootType
  <2> QED
    BY <2>1, <2>2 DEF LeavesInv
<1>4. CASE Jump
  <2>1. /\ at = "jump" /\ UNCHANGED flash
        /\ \/ at' = "delay" /\ flash[boot.entry] # Erased /\ UNCHANGED <<bind, boot>>
           \/ at' = "loop" /\ boot' = [InitBoot(boot.stay) EXCEPT !.pass = 2]
    BY <1>4, JumpFacts DEF HandledOnly
  <2>2. [InitBoot(boot.stay) EXCEPT !.pass = 2].why = "none"
    BY DEF InitBoot
  <2> QED
    BY <2>1, <2>2 DEF LeavesInv
<1>5. CASE Deinit
  BY <1>5 DEF Deinit, Main, classVars, LeavesInv
<1> QED
  BY <1>1, <1>2, <1>3, <1>4, <1>5

LEMMA TeardownKeepsLeavesInv ==
  ASSUME BootTypeInv, LeavesInv, DropStep \/ StateStep \/ TearAddress
  PROVE  LeavesInv'
<1>1. boot' = boot /\ boot.why # "timeout"
  BY DropStepFacts, StateStepFacts DEF DropStep, StateStep, TearCancel, ResumeBegin, TearFlags,
     TearStatus, TearState, TearAddress, LeavesInv
<1>2. CASE DropStep
  <2>1. at' \in {"tdAddress", "rsAddress"}
    BY <1>2 DEF DropStep, TearCancel, ResumeBegin, Main
  <2> QED
    BY <1>1, <2>1, NotLeaving
<1>3. CASE TearAddress
  <2>1. at' = "tdFlags" /\ bind' = AbortBinding(bind) /\ bind \in BindType
    BY <1>3 DEF TearAddress, Main, BootTypeInv, BindingTyped
  <2>2. bind'.exec = AppBase
    BY <2>1 DEF BindType, AbortBinding, ResetAddressing
  <2> QED
    BY <1>1, <2>1, <2>2 DEF LeavesInv
<1>4. CASE StateStep
  <2>1. /\ bind' = bind /\ at \in {"tdFlags", "tdStatus", "tdState"}
        /\ at' \in {"tdStatus", "tdState", "decide", "rsBegin"}
    BY <1>4 DEF StateStep, TearFlags, TearStatus, TearState, Main
  <2> QED
    BY <1>1, <2>1 DEF LeavesInv
<1> QED
  BY <1>2, <1>3, <1>4

LEMMA NextKeepsLeavesInv ==
  ASSUME "teardown" \notin Races, "leaving" \notin Races, BootTypeInv, LeavesInv,
         [BootNext]_bootVars
  PROVE  LeavesInv'
<1>0. boot \in BootType
  BY DEF BootTypeInv
<1>1. CASE UsbOn /\ Request /\ UNCHANGED <<at, boot, magic>>
  BY <1>1 DEF UsbOn, TeardownAt, LeavingAt, LeavesInv
<1>2. CASE Poll
  BY <1>2 DEF Poll, LeavesInv
<1>3. CASE ChipReset
  BY <1>3, ResetFacts, NotLeaving DEF InitBoot
<1>4. CASE Start \/ ReportError \/ CountWait \/ LateTrigger \/ TickActive \/ TickQuiet
           \/ ResumeAddress
  <2>1. at \in {"start", "loop", "tick", "rsAddress"} /\ at' \in {"loop", "tick", "tdCancel"}
    BY <1>4 DEF Start, ReportError, CountWait, LateTrigger, TickActive, TickQuiet,
         ResumeAddress, Main, Polled
  <2>2. boot'.why = boot.why
    BY <1>0, <1>4 DEF Start, ReportError, CountWait, LateTrigger, TickActive, TickQuiet,
         ResumeAddress, BootType
  <2>3. boot'.why # "timeout"
    BY <2>1, <2>2 DEF LeavesInv
  <2> QED
    BY <2>1, <2>3, NotLeaving
<1>5. CASE UNCHANGED bootVars
  BY <1>5 DEF bootVars, dfuVars, mediaVars, classVars, LeavesInv
<1> QED
  BY <1>1, <1>2, <1>3, <1>4, <1>5, BootSteps, LeavingKeepsLeavesInv, TeardownKeepsLeavesInv
     DEF LoopStep

LEMMA LeavesInvHolds ==
  "teardown" \notin Races /\ "leaving" \notin Races
    => (BootSpec => [](BootTypeInv /\ LeavesInv))
<1> SUFFICES ASSUME "teardown" \notin Races, "leaving" \notin Races
             PROVE  BootSpec => [](BootTypeInv /\ LeavesInv)
  OBVIOUS
<1>1. BootInit => LeavesInv
  BY DEF BootInit, InitBoot, LeavesInv
<1>2. BootTypeInv /\ LeavesInv /\ [BootNext]_bootVars => LeavesInv'
  BY NextKeepsLeavesInv
<1> QED
  BY <1>1, <1>2, InitBootTypes, BootKeepsTypes, PTL DEF BootSpec

\* A timeout starts the application at DFU_FLASH_APP_BASE, and none once a
\* manifestation has locked the session.
THEOREM TimeoutsBootDefault ==
  "teardown" \notin Races /\ "leaving" \notin Races => (BootSpec => []TimeoutBootsDefault)
<1> SUFFICES ASSUME "teardown" \notin Races, "leaving" \notin Races
             PROVE  BootSpec => []TimeoutBootsDefault
  OBVIOUS
<1>1. LeavesInv => TimeoutBootsDefault
  BY DEF LeavesInv, TimeoutBootsDefault
<1> QED
  BY <1>1, LeavesInvHolds, PTL

\* No application is started whose first word is erased, on neither pass.
THEOREM EntryIsProgrammed ==
  "teardown" \notin Races /\ "leaving" \notin Races => (BootSpec => []BootsProgrammedEntry)
<1> SUFFICES ASSUME "teardown" \notin Races, "leaving" \notin Races
             PROVE  BootSpec => []BootsProgrammedEntry
  OBVIOUS
<1>1. LeavesInv => BootsProgrammedEntry
  BY DEF LeavesInv, BootsProgrammedEntry
<1> QED
  BY <1>1, LeavesInvHolds, PTL

(***************************************************************************)
(* The session and the error the main thread meets around it, when no      *)
(* request falls into any of the windows Races names.                      *)
(***************************************************************************)

NoWindow ==
  /\ "cancel" \notin Races /\ "publish" \notin Races
  /\ "teardown" \notin Races /\ "leaving" \notin Races

\* Where the session is half torn down: g_dfu still tells of one.
TornAt == {"tdAddress", "tdFlags", "tdStatus", "tdState"}

\* dfu_flash_poll is not on the stack elsewhere.
OutsideLoop == at # "loop" => mpc = "enter" /\ loc = NoLocals

\* The session's invariants hold but where it is half torn down ...
SessionAtRest == at \notin TornAt => SessionInv /\ PromiseInv

\* ... and there nothing is left to lose.
TornDown ==
  /\ at \in TornAt => want = NoWant /\ ~Busy(media) /\ ~media.dirty
  /\ at = "tdState" => dfu.status = "OK"

\* On a part without its second bank there is always an error.
TargetKnown == ~DualBank => media.err # "none"

\* An error the host has not heard of holds the main loop: the next poll
\* reports it, unless a request has just come in.
ErrorsAreNews ==
  media.err # "none" =>
    \/ at = "start"
    \/ at \in {"loop", "tick"} /\ fresh
    \/ at = "loop" /\ (mpc = "enter" \/ (mpc = "polled" /\ loc.ret = "failed"))

\* DFU mode is left with nothing at hand and, after a manifestation, with
\* all the host was told is stored in the flash.
LeavesSettled ==
  /\ at \in LeavingAt \cup {"booted"} => ~Busy(media) /\ ~media.dirty
  /\ at \in {"leave", "jump", "delay", "booted"} /\ boot.why = "manifest" =>
       \A a \in AppCell : want[a] # Free => flash[a] = want[a]

BootInv ==
  /\ StoreInv /\ BootTypeInv /\ dfu \in DfuType
  /\ OutsideLoop /\ SessionAtRest /\ TornDown /\ TargetKnown /\ ErrorsAreNews /\ LeavesSettled

\* Outside the loop no error waits.
LEMMA NoErrorOutside ==
  ASSUME BootInv, at \notin {"start", "loop", "tick"}
  PROVE  media.err = "none" /\ DualBank /\ mpc = "enter" /\ loc = NoLocals
  BY DataAssumption DEF BootInv, ErrorsAreNews, TargetKnown, OutsideLoop

\* Requests come in only where the session is whole.
LEMMA RequestsMeetSession ==
  ASSUME NoWindow, BootInv, UsbOn
  PROVE  at \in {"loop", "tick"} /\ SessionInv /\ PromiseInv
<1>1. at \in {"loop", "tick"}
  BY DEF NoWindow, UsbOn, BootInv, BootTypeInv, BootAt
<1> QED
  BY <1>1 DEF BootInv, SessionAtRest, TornAt

\* The backend's invariant survives every step.
LEMMA BootKeepsStoreInv ==
  ASSUME NoWindow, BootInv, [BootNext]_bootVars
  PROVE  StoreInv'
<1>0. MediaInv /\ CoherentInv /\ JobInv /\ CopyDone /\ "cancel" \notin Races
  BY DEF NoWindow, BootInv, StoreInv
<1>1. MediaInv' /\ CoherentInv'
  BY <1>0, BootKeepsMediaInv
<1>2. CASE MediaNext \/ UNCHANGED mediaVars
  BY <1>0, <1>1, <1>2, NextKeepsJobInv DEF StoreInv
<1>3. CASE UsbOn /\ Request
  <2>1. CallOK(media') /\ HandledOnly
    BY <1>0, <1>3, RequestsMeetSession, RequestCallOK
  <2> QED
    BY <1>0, <1>1, <2>1, CallKeepsJobInv DEF StoreInv, HandledOnly
<1>4. ASSUME media' = Cancel(media), HandledOnly, at \notin {"start", "loop", "tick"}
      PROVE  StoreInv'
  <2>1. Quiet
    BY <1>4, NoErrorOutside DEF Quiet
  <2>2. CallOK(media')
    BY <1>0, <1>4, <2>1, CancelOK, CancelToDo DEF CallOK
  <2> QED
    BY <1>0, <1>1, <1>4, <2>2, CallKeepsJobInv DEF StoreInv, HandledOnly
<1>5. CASE DropStep
  BY <1>4, <1>5, DropStepFacts DEF DropStep, TearCancel, ResumeBegin
<1>6. CASE Jump
  <2>1. CASE media' = Begin(media)
    BY <1>4, <1>6, <2>1, JumpFacts DEF Begin
  <2>2. CASE media' = media
    BY <1>2, <1>6, <2>2, JumpFacts DEF HandledOnly, mediaVars
  <2> QED
    BY <1>6, <2>1, <2>2, JumpFacts
<1>7. Poll \/ LoopStep \/ StateStep \/ TearAddress \/ ChipReset \/ UNCHANGED bootVars
        => MediaNext \/ UNCHANGED mediaVars
  BY LoopStepFacts, StateStepFacts, ResetFacts DEF Poll, MediaNext, bootVars, dfuVars
<1> QED
  BY <1>2, <1>3, <1>5, <1>6, <1>7, BootSteps

(***************************************************************************)
(* The poll and the requests.                                              *)
(***************************************************************************)

\* A poll that meets or makes an error returns it.
LEMMA ErrorsAreReturned ==
  ASSUME MediaInv, PollStep, media.err # "none" => mpc = "enter", media'.err # "none"
  PROVE  mpc' = "polled" /\ loc'.ret = "failed"
<1> USE DEF MediaInv, MediaTypeOK, MediaType, Goto, Return, NoLocals
<1>1. CASE PollReturn
  BY <1>1 DEF PollReturn
<1>2. CASE PollErase \/ PollWrite \/ PollFinish
  BY <1>2 DEF PollErase, PollWrite, PollFinish
<1>3. CASE EraseRefused \/ EraseFailed \/ ProgramFailed \/ VerifyFailed
  BY <1>3 DEF EraseRefused, EraseFailed, ProgramFailed, VerifyFailed, OpFailed
<1>4. CASE FlushClean \/ FlushSame \/ FlushProgram \/ VerifyPassed
  BY <1>4 DEF FlushClean, FlushSame, FlushProgram, VerifyPassed
<1>5. CASE EraseStart \/ EraseEnd \/ ProgramPage \/ ProgramWrong
  BY <1>5 DEF EraseStart, EraseEnd, ProgramPage, ProgramWrong
<1>6. CASE EraseRelease \/ ErasePublish
  BY <1>6 DEF EraseRelease, ErasePublish
<1>7. CASE WriteLookup \/ WriteLoad \/ WriteCopy \/ WriteSetDirty
  BY <1>7 DEF WriteLookup, WriteLoad, WriteCopy, WriteSetDirty
<1>8. CASE WriteAdvance
  BY <1>8 DEF WriteAdvance
<1>9. CASE FinishClear \/ FinishDone
  BY <1>9 DEF FinishClear, FinishDone
<1> QED
  BY <1>1, <1>2, <1>3, <1>4, <1>5, <1>6, <1>7, <1>8, <1>9 DEF PollStep

LEMMA PollKeepsBootInv ==
  ASSUME NoWindow, BootInv, StoreInv', BootTypeInv', Poll
  PROVE  BootInv'
<1>0. /\ at = "loop" /\ at' = "loop" /\ PollStep
      /\ UNCHANGED <<dfu, bind, fresh, want, boot>>
      /\ SessionInv /\ PromiseInv /\ MediaInv
  BY DEF Poll, classVars, BootInv, SessionAtRest, TornAt, StoreInv
<1>1. SessionInv' /\ PromiseInv'
  <2>1. [DfuNext]_dfuVars
    BY DEF Poll, MainPoll, DfuNext
  <2> QED
    BY <1>0, <2>1, NextKeepsSessionInv, NextKeepsPromise DEF NoWindow
<1>2. TargetKnown'
  <2>1. media.err # "none" => media'.err # "none"
    BY <1>0, PollErrors DEF SessionInv, ErrorsEndPolls
  <2> QED
    BY <2>1 DEF BootInv, TargetKnown
<1>3. ErrorsAreNews'
  <2>1. CASE fresh
    BY <1>0, <2>1 DEF ErrorsAreNews
  <2>2. CASE ~fresh
    <3>1. media.err # "none" => mpc = "enter"
      BY <1>0, <2>2 DEF BootInv, ErrorsAreNews, PollStep, PollReturn, PollErase, PollWrite,
           PollFinish, FlushClean, FlushSame, FlushProgram, EraseStart, EraseRefused, EraseEnd,
           EraseFailed, ProgramPage, ProgramWrong, ProgramFailed, VerifyPassed, VerifyFailed,
           EraseRelease, ErasePublish, WriteLookup, WriteLoad, WriteCopy, WriteSetDirty,
           WriteAdvance, FinishClear, FinishDone
    <3> QED
      BY <1>0, <3>1, ErrorsAreReturned DEF ErrorsAreNews
  <2> QED
    BY <2>1, <2>2
<1>4. OutsideLoop' /\ SessionAtRest' /\ TornDown' /\ LeavesSettled'
  BY <1>0, <1>1 DEF OutsideLoop, SessionAtRest, TornDown, TornAt, LeavesSettled, LeavingAt
<1> QED
  BY <1>0, <1>2, <1>3, <1>4 DEF BootInv

\* A request leaves an error the host has not heard of.
LEMMA RequestKeepsTarget ==
  ASSUME SessionInv, TargetKnown, Request
  PROVE  TargetKnown'
<1> USE DEF Handled
<1> SUFFICES ASSUME ~DualBank PROVE media'.err # "none"
  BY DEF TargetKnown
<1>0. /\ media.err # "none" /\ TargetError = "target" /\ media \in MediaType
      /\ Cancel(media).err = "target"
  BY DEF TargetKnown, TargetError, Cancel, SessionInv, StoreInv, MediaInv, MediaTypeOK, MediaType
<1>m. Loading.err # "none" /\ RequestOK(Loading) /\ RequestOK(media)
  BY <1>0, LoadingOK DEF Loading, Begin, SessionInv, StoreInv
<1>1. CASE GetStateOrStall \/ GetStatusError \/ GetStatus
  BY <1>0, <1>1 DEF GetStateOrStall, GetStatusError, GetStatus
<1>2. CASE ClrStatus \/ Abort \/ BusReset
  BY <1>0, <1>2 DEF ClrStatus, Abort, BusReset
<1>3. CASE DnloadEnd
  BY <1>0, <1>3 DEF DnloadEnd, Finish, MediaType
<1>4. ASSUME NEW a \in HostAddrs, SetAddress(a) \/ SetExecAddress(a)
      PROVE  media'.err # "none"
  BY <1>0, <1>4 DEF SetAddress, SetExecAddress, Commanded
<1>5. ASSUME NEW a \in HostAddrs, EraseCommand(a) PROVE media'.err # "none"
  <2>1. media' = [media EXCEPT !.err = "target"]
    BY <1>5 DEF EraseCommand, Commanded, QueueErase, EraseAccepted, EraseRefusal
  <2> QED
    BY <1>0, <2>1 DEF MediaType
<1>6. ASSUME NEW b \in HostBlocks, NEW p \in Payloads, DnloadData(b, p)
      PROVE  media'.err # "none"
  <2>1. media' = Loading \/ media' = [Loading EXCEPT !.err = "target"]
    BY <1>6 DEF DnloadData, QueueWrite, WriteAccepted, WriteRefusal
  <2> QED
    BY <1>m, <2>1 DEF RequestOK, MediaType
<1>7. ASSUME NEW b \in HostBlocks, UploadRefused(b) PROVE media'.err # "none"
  <2>1. media' = [media EXCEPT !.err = ReadError(b)] /\ ReadError(b) # "none"
    BY <1>0, <1>7 DEF UploadRefused, ReadError
  <2> QED
    BY <1>0, <2>1 DEF MediaType
<1>8. ASSUME NEW b \in HostBlocks, NEW n \in 0 .. UploadMax, Upload(b, n)
      PROVE  media'.err # "none"
  BY <1>0, <1>8 DEF Upload
<1> QED
  BY <1>1, <1>2, <1>3, <1>4, <1>5, <1>6, <1>7, <1>8 DEF Request, StatusRequest, Command

LEMMA UsbKeepsBootInv ==
  ASSUME NoWindow, BootInv, StoreInv', BootTypeInv',
         UsbOn, Request, UNCHANGED <<at, boot, magic>>
  PROVE  BootInv'
<1>0. /\ at \in {"loop", "tick"} /\ SessionInv /\ PromiseInv /\ at' = at
      /\ "cancel" \notin Races /\ "publish" \notin Races
  BY RequestsMeetSession DEF NoWindow
<1>1. SessionInv' /\ PromiseInv'
  <2>1. [DfuNext]_dfuVars
    BY DEF Request, DfuNext
  <2> QED
    BY <1>0, <2>1, NextKeepsSessionInv, NextKeepsPromise
<1>2. fresh' = TRUE /\ HandledOnly
  <2>1. HandledOnly
    BY <1>0, RequestStepOK DEF SessionInv, StoreInv
  <2>2. fresh' = TRUE
    BY DEF Handled, Request, StatusRequest, Command, GetStateOrStall, GetStatusError, GetStatus,
         ClrStatus, Abort, BusReset, DnloadEnd, SetAddress, SetExecAddress, EraseCommand,
         Commanded, DnloadData, UploadRefused, Upload
  <2> QED
    BY <2>1, <2>2
<1>3. TargetKnown'
  BY <1>0, RequestKeepsTarget DEF BootInv
<1>4. ErrorsAreNews' /\ SessionAtRest' /\ TornDown' /\ LeavesSettled'
  BY <1>0, <1>1, <1>2 DEF ErrorsAreNews, SessionAtRest, TornDown, TornAt, LeavesSettled, LeavingAt
<1>5. OutsideLoop'
  BY <1>0, <1>2 DEF BootInv, OutsideLoop, HandledOnly
<1>6. dfu' \in DfuType
  BY <1>1 DEF SessionInv, ClassInv, ClassTypeOK
<1> QED
  BY <1>3, <1>4, <1>5, <1>6 DEF BootInv

(***************************************************************************)
(* The main loop around the poll.                                          *)
(***************************************************************************)

\* Returning from the poll, and a step that touches no backend, leave the
\* session as it was.
LEMMA OutsideKeepsSession ==
  ASSUME SessionInv, PromiseInv, StoreInv', BindingTyped',
         PollAgain \/ UNCHANGED mediaVars, UNCHANGED <<dfu, want>>
  PROVE  SessionInv' /\ PromiseInv'
<1>1. /\ UNCHANGED <<flash, sector, sectorAddr, media, dfu, want>>
      /\ \/ mpc = "polled" /\ mpc' = "enter" /\ loc' = NoLocals
         \/ mpc' = mpc /\ loc' = loc
  BY DEF PollAgain, mediaVars
<1>2. MediaFailed' = MediaFailed /\ Busy(media)' = Busy(media) /\ (Quiet => Quiet')
  BY <1>1 DEF MediaFailed, Busy, Quiet
<1>3. \A c : ImageCell(c)' = ImageCell(c)
  BY <1>1 DEF ImageCell, KeptCell, Cached, SectorAt
<1>4. loc.ret # "busy" => loc'.ret # "busy"
  BY <1>1 DEF NoLocals
<1>5. ClassInv'
  BY <1>1 DEF SessionInv, ClassInv, ClassTypeOK, StatusMatchesState, BindingTyped
<1>6. JobsInv'
  BY <1>1, <1>2, <1>4 DEF SessionInv, JobsInv, JobsAreSerialised, AbortState
<1>7. ErrorsEndPolls' /\ NoDataOutsideSession'
  BY <1>1, <1>2 DEF SessionInv, ErrorsEndPolls, NoDataOutsideSession
<1>8. PromiseInv'
  BY <1>1, <1>2, <1>3 DEF PromiseInv, StatesRest, Resting, AbortState, PromiseKept
<1> QED
  BY <1>5, <1>6, <1>7, <1>8 DEF SessionInv

\* After the manifestation everything the host was told is in the flash.
LEMMA ManifestedIsStored ==
  ASSUME SessionInv, PromiseInv, dfu.state = "dfuMANIFEST-WAIT-RESET"
  PROVE  /\ media.err = "none" /\ ~Busy(media) /\ ~media.dirty
         /\ \A a \in AppCell : want[a] # Free => flash[a] = want[a]
<1>1. /\ ~Busy(media) /\ ~MediaFailed /\ media.type = "none"
      /\ media.finishing \/ ~media.dirty
  BY DEF PromiseInv, StatesRest, Resting
<1>2. media.err = "none" /\ ~media.dirty
  BY <1>1 DEF MediaFailed, Busy
<1>3. \A a \in AppCell : want[a] # Free => ImageCell(a) = want[a]
  BY <1>1 DEF PromiseInv, PromiseKept
<1> QED
  BY <1>1, <1>2, <1>3, NoJobImage, CleanKept

LEMMA LoopKeepsBootInv ==
  ASSUME BootInv, StoreInv', BootTypeInv', LoopStep
  PROVE  BootInv'
<1>0. /\ PollAgain \/ UNCHANGED mediaVars
      /\ UNCHANGED <<media, flash, dfu, want>> /\ boot \in BootType
  BY LoopStepFacts DEF PollAgain, mediaVars, BootInv, BootTypeInv
<1>1. at \notin TornAt /\ at' \notin TornAt /\ SessionInv /\ PromiseInv
  <2>1. /\ at \in {"start", "loop", "tick", "decide", "leave", "delay", "rsAddress"}
        /\ at' \in {"loop", "tick", "leave", "tdCancel", "jump", "delay", "booted"}
    BY DEF LoopStep, Start, ReportError, CountWait, EndManifest, LateTrigger, TickActive,
         TickQuiet, Decide, Leave, Deinit, ResumeAddress, Main, Polled
  <2> QED
    BY <2>1 DEF BootInv, SessionAtRest, TornAt
<1>2. SessionAtRest' /\ TornDown'
  <2>1. BindingTyped'
    BY DEF BootTypeInv
  <2> QED
    BY <1>0, <1>1, <2>1, OutsideKeepsSession DEF SessionAtRest, TornDown, TornAt
<1>3. OutsideLoop'
  <2>1. at = "loop" => PollAgain
    BY DEF LoopStep, Start, ReportError, CountWait, EndManifest, LateTrigger, TickActive,
         TickQuiet, Decide, Leave, Deinit, ResumeAddress, Main, Polled
  <2> QED
    BY <1>0, <2>1 DEF PollAgain, mediaVars, BootInv, OutsideLoop
<1>4. ErrorsAreNews'
  <2> SUFFICES ASSUME media.err # "none" PROVE ErrorsAreNews'
    BY <1>0 DEF ErrorsAreNews
  <2>1. /\ at \in {"start", "loop", "tick"}
        /\ at = "loop" => fresh \/ mpc = "enter" \/ loc.ret = "failed"
        /\ at = "tick" => fresh
        /\ at \in {"start", "tick"} => mpc = "enter"
    BY DEF BootInv, ErrorsAreNews, OutsideLoop
  <2>2. CASE Start \/ ReportError
    <3>1. at' = "loop" /\ mpc' = "enter"
      BY <2>1, <2>2 DEF Start, ReportError, Main, Polled, PollAgain, mainVars
    <3> QED
      BY <3>1 DEF ErrorsAreNews
  <2>3. CASE CountWait
    <3>1. at' = "tick" /\ fresh' = fresh /\ at = "loop" /\ mpc = "polled" /\ loc.ret # "failed"
      BY <2>3 DEF CountWait, Polled, PollAgain
    <3> QED
      BY <2>1, <3>1 DEF ErrorsAreNews
  <2>4. CASE EndManifest
    <3>1. dfu.state = "dfuMANIFEST-WAIT-RESET"
      BY <2>4 DEF EndManifest, Manifested
    <3> QED
      BY <1>1, <3>1, ManifestedIsStored
  <2>5. CASE LateTrigger
    <3>1. at = "tick" /\ at' = "tick" /\ fresh' = fresh
      BY <2>5 DEF LateTrigger, Main, classVars
    <3> QED
      BY <2>1, <3>1 DEF ErrorsAreNews
  <2>6. CASE TickActive
    <3>1. at = "tick" /\ at' = "loop" /\ mpc' = mpc
      BY <2>6 DEF TickActive, Main, mainVars
    <3> QED
      BY <2>1, <3>1 DEF ErrorsAreNews
  <2>7. CASE TickQuiet
    BY <2>1, <2>7 DEF TickQuiet
  <2>8. CASE Decide \/ Leave \/ Deinit \/ ResumeAddress
    BY <2>1, <2>8 DEF Decide, Leave, Deinit, ResumeAddress
  <2> QED
    BY <2>2, <2>3, <2>4, <2>5, <2>6, <2>7, <2>8 DEF LoopStep
<1>5. LeavesSettled'
  <2>1. Busy(media)' = Busy(media)
    BY <1>0 DEF Busy
  <2>2. CASE EndManifest
    <3>1. dfu.state = "dfuMANIFEST-WAIT-RESET"
      BY <2>2 DEF EndManifest, Manifested
    <3> QED
      BY <1>0, <1>1, <2>1, <3>1, ManifestedIsStored DEF LeavesSettled
  <2>3. CASE Decide
    <3>1. at = "decide" /\ (at' = "leave" => boot'.why = "timeout") /\ at' \in {"leave", "loop"}
      BY <1>0, <2>3 DEF Decide, Main, BootType
    <3> QED
      BY <1>0, <2>1, <3>1 DEF BootInv, LeavesSettled, LeavingAt
  <2>4. CASE Leave
    <3>1. at = "leave" /\ boot'.why = boot.why /\ at' \in {"jump", "delay"}
      BY <1>0, <2>4 DEF Leave, Main, BootType
    <3> QED
      BY <1>0, <2>1, <3>1 DEF BootInv, LeavesSettled, LeavingAt
  <2>5. CASE Deinit
    <3>1. at = "delay" /\ boot' = boot /\ at' = "booted"
      BY <2>5 DEF Deinit, Main
    <3> QED
      BY <1>0, <2>1, <3>1 DEF BootInv, LeavesSettled, LeavingAt
  <2>6. CASE ~(EndManifest \/ Decide \/ Leave \/ Deinit)
    <3>1. at' \in {"loop", "tick", "tdCancel"}
      BY <2>6 DEF LoopStep, Start, ReportError, CountWait, LateTrigger, TickActive, TickQuiet,
           ResumeAddress, Main, Polled
    <3> QED
      BY <3>1 DEF LeavesSettled, LeavingAt
  <2> QED
    BY <2>2, <2>3, <2>4, <2>5, <2>6
<1>6. TargetKnown' /\ dfu' \in DfuType
  BY <1>0 DEF BootInv, TargetKnown
<1> QED
  BY <1>2, <1>3, <1>4, <1>5, <1>6 DEF BootInv

(***************************************************************************)
(* The teardown of a session, and starting anew.                           *)
(***************************************************************************)

\* Dropping what is at hand leaves a session with nothing in it.
LEMMA DropKeepsSession ==
  ASSUME SessionInv, DualBank, mpc = "enter", loc = NoLocals, HandledOnly,
         media' = Cancel(media), want' = NoWant, dfu' = dfu, StoreInv', BindingTyped'
  PROVE  SessionInv' /\ PromiseInv'
<1>1. /\ media'.type = "none" /\ ~media'.finishing /\ ~media'.dirty /\ media'.err = "none"
      /\ mpc' = "enter" /\ loc' = NoLocals
  BY DEF SessionInv, StoreInv, MediaInv, MediaTypeOK, MediaType, Cancel, TargetError, HandledOnly
<1>2. ~Busy(media') /\ ~MediaFailed' /\ Quiet'
  BY <1>1 DEF Busy, MediaFailed, Quiet
<1>3. ClassInv'
  BY DEF SessionInv, ClassInv, ClassTypeOK, StatusMatchesState, BindingTyped
<1>4. JobsInv'
  BY <1>1, <1>2 DEF JobsInv, JobsAreSerialised, NoLocals, Busy
<1>5. ErrorsEndPolls' /\ NoDataOutsideSession'
  BY <1>1, <1>2 DEF ErrorsEndPolls, NoDataOutsideSession
<1>6. PromiseInv'
  BY <1>1, <1>2 DEF PromiseInv, StatesRest, Resting, PromiseKept, NoWant, Busy
<1> QED
  BY <1>3, <1>4, <1>5, <1>6 DEF SessionInv

LEMMA TeardownKeepsBootInv ==
  ASSUME BootInv, StoreInv', BootTypeInv', DropStep \/ StateStep \/ TearAddress
  PROVE  BootInv'
<1>0. /\ media.err = "none" /\ DualBank /\ mpc = "enter" /\ loc = NoLocals
      /\ dfu \in DfuType /\ media \in MediaType /\ BindingTyped'
  <2>1. at \notin {"start", "loop", "tick"}
    BY DEF DropStep, StateStep, TearCancel, ResumeBegin, TearFlags, TearStatus, TearState,
         TearAddress
  <2> QED
    BY <2>1, NoErrorOutside DEF BootInv, StoreInv, MediaInv, MediaTypeOK, BootTypeInv
<1>1. HandledOnly /\ OutsideLoop'
  <2>1. HandledOnly
    BY DropStepFacts, StateStepFacts DEF mediaVars, HandledOnly
  <2> QED
    BY <1>0, <2>1 DEF HandledOnly, OutsideLoop
<1>2. CASE DropStep
  <2>1. /\ media' = Cancel(media) /\ want' = NoWant /\ dfu' = dfu
        /\ \/ at = "tdCancel" /\ at' = "tdAddress"
           \/ at = "rsBegin" /\ at' = "rsAddress"
    BY <1>2, DropStepFacts DEF DropStep, TearCancel, ResumeBegin, Main
  <2>2. media'.err = "none" /\ ~Busy(media') /\ ~media'.dirty
    BY <1>0, <2>1 DEF Cancel, TargetError, MediaType, Busy
  <2>3. SessionAtRest'
    <3>1. CASE at = "tdCancel"
      BY <2>1, <3>1 DEF SessionAtRest, TornAt
    <3>2. CASE at = "rsBegin"
      <4>1. SessionInv
        BY <3>2 DEF BootInv, SessionAtRest, TornAt
      <4> QED
        BY <1>0, <1>1, <2>1, <4>1, DropKeepsSession DEF SessionAtRest
    <3> QED
      BY <2>1, <3>1, <3>2
  <2>4. TornDown' /\ TargetKnown' /\ ErrorsAreNews' /\ LeavesSettled'
    BY <1>0, <2>1, <2>2
       DEF TornDown, TargetKnown, ErrorsAreNews, LeavesSettled, LeavingAt, Busy
  <2> QED
    BY <1>0, <1>1, <2>1, <2>3, <2>4 DEF BootInv
<1>3. CASE StateStep \/ TearAddress
  <2>1. /\ media' = media /\ want' = want /\ boot' = boot
        /\ at \in TornAt /\ want = NoWant /\ ~Busy(media) /\ ~media.dirty
    BY <1>3, StateStepFacts DEF StateStep, TearFlags, TearStatus, TearState, TearAddress,
       mediaVars, BootInv, TornDown, TornAt
  <2>2. Busy(media)' = Busy(media)
    BY <2>1 DEF Busy
  <2>3. TargetKnown' /\ ErrorsAreNews'
    BY <1>0, <2>1 DEF TargetKnown, ErrorsAreNews
  <2>4. CASE TearFlags \/ TearStatus \/ TearAddress
    <3>1. at' \in {"tdFlags", "tdStatus", "tdState"}
      BY <2>4 DEF TearFlags, TearStatus, TearAddress, Main
    <3>2. dfu' \in DfuType /\ (at' = "tdState" => dfu'.status = "OK")
      BY <1>0, <2>4, StatusFacts
         DEF TearFlags, TearStatus, TearAddress, Main, CancelClass, DfuType
    <3>3. SessionAtRest' /\ TornDown' /\ LeavesSettled'
      BY <2>1, <2>2, <3>1, <3>2 DEF SessionAtRest, TornDown, TornAt, LeavesSettled, LeavingAt
    <3> QED
      BY <1>1, <2>3, <3>2, <3>3 DEF BootInv
  <2>5. CASE TearState
    <3>1. /\ dfu' = [dfu EXCEPT !.state = "dfuIDLE"] /\ dfu.status = "OK"
          /\ at' \in {"rsBegin", "decide"}
      BY <2>5 DEF TearState, Main, BootInv, TornDown
    <3>2. dfu' \in DfuType /\ dfu'.state = "dfuIDLE" /\ dfu'.status = "OK"
      BY <1>0, <3>1 DEF DfuType, State
    <3>3. ClassInv'
      BY <1>0, <3>2 DEF ClassInv, ClassTypeOK, StatusMatchesState, BindingTyped
    <3>4. mpc' = "enter" /\ loc' = NoLocals /\ ~MediaFailed' /\ media.type = "none"
      BY <1>0, <1>1, <2>1 DEF HandledOnly, MediaFailed, Busy
    <3>5. JobsInv' /\ ErrorsEndPolls' /\ NoDataOutsideSession'
      BY <1>0, <2>1, <2>2, <3>2, <3>4
         DEF JobsInv, JobsAreSerialised, NoLocals, ErrorsEndPolls, Quiet, NoDataOutsideSession,
             Busy
    <3>6. PromiseInv'
      BY <2>1, <3>2, <3>4 DEF PromiseInv, StatesRest, PromiseKept, NoWant
    <3>7. SessionAtRest'
      BY <3>3, <3>5, <3>6 DEF SessionAtRest, SessionInv
    <3>8. TornDown' /\ LeavesSettled'
      BY <2>1, <2>2, <3>1 DEF TornDown, TornAt, LeavesSettled, LeavingAt
    <3> QED
      BY <1>1, <2>3, <3>2, <3>7, <3>8 DEF BootInv
  <2> QED
    BY <1>3, <2>4, <2>5 DEF StateStep
<1> QED
  BY <1>2, <1>3

LEMMA JumpKeepsBootInv ==
  ASSUME BootInv, StoreInv', BootTypeInv', Jump
  PROVE  BootInv'
<1>0. /\ at = "jump" /\ HandledOnly /\ dfu' = dfu /\ dfu' \in DfuType
      /\ SessionInv /\ PromiseInv /\ BindingTyped' /\ media \in MediaType
  BY JumpFacts DEF BootInv, SessionAtRest, TornAt, BootTypeInv, StoreInv, MediaInv, MediaTypeOK
<1>1. media.err = "none" /\ DualBank /\ mpc = "enter" /\ loc = NoLocals
  BY <1>0, NoErrorOutside
<1>2. OutsideLoop' /\ mpc' = "enter"
  BY <1>0, <1>1 DEF HandledOnly, OutsideLoop
<1>3. CASE at' = "delay" /\ UNCHANGED <<media, bind, fresh, want, boot>>
  <2>1. SessionInv' /\ PromiseInv'
    <3>1. UNCHANGED mediaVars
      BY <1>0, <1>3 DEF HandledOnly, mediaVars
    <3> QED
      BY <1>0, <1>3, <3>1, OutsideKeepsSession
  <2>2. Busy(media)' = Busy(media) /\ flash' = flash
    BY <1>0, <1>3 DEF Busy, HandledOnly
  <2>3. SessionAtRest' /\ TornDown' /\ TargetKnown' /\ ErrorsAreNews' /\ LeavesSettled'
    BY <1>0, <1>1, <1>3, <2>1, <2>2
       DEF BootInv, SessionAtRest, TornDown, TornAt, TargetKnown, ErrorsAreNews, LeavesSettled,
           LeavingAt
  <2> QED
    BY <1>0, <1>2, <2>3 DEF BootInv
<1>4. CASE at' = "loop" /\ media' = Begin(media) /\ want' = NoWant
  <2>1. SessionInv' /\ PromiseInv'
    BY <1>0, <1>1, <1>4, DropKeepsSession DEF Begin
  <2>2. SessionAtRest' /\ TornDown' /\ TargetKnown' /\ ErrorsAreNews' /\ LeavesSettled'
    BY <1>1, <1>2, <1>4, <2>1
       DEF SessionAtRest, TornDown, TornAt, TargetKnown, ErrorsAreNews, LeavesSettled, LeavingAt
  <2> QED
    BY <1>0, <1>2, <2>2 DEF BootInv
<1> QED
  BY <1>3, <1>4, JumpFacts

\* The variables' initial values make the invariant, after a reset of the
\* chip and before the first step.
LEMMA ResetKeepsBootInv ==
  ASSUME StoreInv', BootTypeInv', ChipReset
  PROVE  BootInv'
<1>1. /\ media' = InitMedia /\ mpc' = "enter" /\ loc' = NoLocals
      /\ dfu' = InitDfu /\ want' = NoWant /\ at' = "start" /\ InitDfu \in DfuType
  BY ResetFacts, InitialClass DEF PowerLoss, ResetStatics
<1>2. /\ ErrorsEndPolls' /\ NoDataOutsideSession'
  BY PowerLossKeepsSession DEF ChipReset
<1>3. ClassInv'
  BY <1>1, InitialClass
     DEF ClassInv, ClassTypeOK, StatusMatchesState, InitDfu, BootTypeInv, BindingTyped
<1>4. JobsInv'
  BY <1>1 DEF InitMedia, TargetError, NoLocals, JobsInv, JobsAreSerialised, Busy
<1>5. PromiseInv'
  BY <1>1 DEF InitDfu, PromiseInv, StatesRest, PromiseKept, NoWant
<1>6. OutsideLoop' /\ SessionAtRest' /\ TornDown' /\ ErrorsAreNews' /\ LeavesSettled'
  BY <1>1, <1>2, <1>3, <1>4, <1>5
     DEF OutsideLoop, SessionAtRest, SessionInv, TornDown, TornAt, ErrorsAreNews, LeavesSettled,
         LeavingAt
<1>7. TargetKnown'
  BY <1>1 DEF InitMedia, TargetError, TargetKnown
<1> QED
  BY <1>1, <1>6, <1>7 DEF BootInv

LEMMA NextKeepsBootInv == NoWindow /\ BootInv /\ [BootNext]_bootVars => BootInv'
<1> SUFFICES ASSUME NoWindow, BootInv, [BootNext]_bootVars PROVE BootInv'
  OBVIOUS
<1>1. StoreInv' /\ BootTypeInv'
  BY BootKeepsStoreInv, BootKeepsTypes DEF BootInv
<1>2. CASE UNCHANGED bootVars
  <2> USE DEF bootVars, dfuVars, mediaVars, classVars
  <2>1. SessionInv /\ PromiseInv => SessionInv' /\ PromiseInv'
    BY <1>1, <1>2, OutsideKeepsSession DEF BootTypeInv
  <2>2. Busy(media)' = Busy(media)
    BY <1>2 DEF Busy
  <2> QED
    BY <1>1, <1>2, <2>1, <2>2 DEF BootInv, OutsideLoop, SessionAtRest, TornDown, TargetKnown,
       ErrorsAreNews, LeavesSettled
<1> QED
  BY <1>1, <1>2, BootSteps, PollKeepsBootInv, UsbKeepsBootInv, LoopKeepsBootInv,
     TeardownKeepsBootInv, JumpKeepsBootInv, ResetKeepsBootInv

LEMMA InitBootInv == BootInit => BootInv
<1> SUFFICES ASSUME BootInit PROVE BootInv
  OBVIOUS
<1>1. /\ DfuInit /\ at = "start" /\ BootTypeInv /\ SessionInv /\ PromiseInv
  BY InitBootTypes, InitSessionInv, InitPromiseInv DEF BootInit
<1>2. media = InitMedia /\ mpc = "enter" /\ loc = NoLocals
  BY <1>1 DEF DfuInit, MediaInit
<1>3. StoreInv /\ dfu \in DfuType
  BY <1>1 DEF SessionInv, ClassInv, ClassTypeOK
<1>4. TargetKnown
  BY <1>2 DEF InitMedia, TargetError, TargetKnown
<1> QED
  BY <1>1, <1>2, <1>3, <1>4 DEF BootInv, OutsideLoop, SessionAtRest, TornDown, TornAt,
     ErrorsAreNews, LeavesSettled, LeavingAt

(***************************************************************************)
(* What the bootloader as a whole promises.                                *)
(***************************************************************************)

\* The main thread knows at every point how much of a session there is.
THEOREM BootInvariant == NoWindow => (BootSpec => []BootInv)
<1> SUFFICES ASSUME NoWindow PROVE BootSpec => []BootInv
  OBVIOUS
<1>1. BootInv /\ [BootNext]_bootVars => BootInv'
  BY NextKeepsBootInv
<1> QED
  BY <1>1, InitBootInv, PTL DEF BootSpec

\* The inactivity timer tears no session down, and starts no application,
\* over an error the host has not read (main.c:136-141).
THEOREM ErrorsAreSpared == NoWindow => (BootSpec => []TimeoutSparesErrors)
<1>1. BootInv => TimeoutSparesErrors
  BY NoErrorOutside DEF TimeoutSparesErrors
<1> QED
  BY <1>1, BootInvariant, PTL

\* An application is started over a flash that holds all a manifested
\* session was told is stored, and with nothing left on its way there.
THEOREM BootSettled == NoWindow => (BootSpec => []BootsSettledFlash)
<1>1. BootInv => BootsSettledFlash
  BY DEF BootInv, LeavesSettled, BootsSettledFlash
<1> QED
  BY <1>1, BootInvariant, PTL

\* The timer's and the manifestation's teardowns leave no data where UPLOAD
\* is served either.
THEOREM BootIdleHoldsNothing == NoWindow => (BootSpec => []IdleHoldsNoData)
<1>1. ASSUME BootInv PROVE IdleHoldsNoData
  <2>1. CASE at \notin TornAt
    BY <1>1, <2>1 DEF BootInv, SessionAtRest, SessionInv, JobsInv, NoDataOutsideSession,
       IdleHoldsNoData, UploadState, AbortState
  <2>2. CASE at \in TornAt
    BY <1>1, <2>2 DEF BootInv, TornDown, IdleHoldsNoData
  <2> QED
    BY <2>1, <2>2
<1> QED
  BY <1>1, BootInvariant, PTL

\* Whatever the main loop does around the poll, what the device acknowledged
\* is kept, and what it reported as manifested is in the flash.
THEOREM BootKeepsAcknowledged ==
  NoWindow => (BootSpec => [](AcknowledgedIsKept /\ ManifestIsDurable))
<1>1. ASSUME BootInv PROVE AcknowledgedIsKept /\ ManifestIsDurable
  <2>1. CASE at \notin TornAt
    <3>1. SessionInv /\ PromiseInv
      BY <1>1, <2>1 DEF BootInv, SessionAtRest
    <3>2. dfu.state \in {"dfuDNLOAD-IDLE", "dfuMANIFEST-WAIT-RESET"} =>
            ~MediaFailed /\ media.type = "none"
      BY <3>1 DEF PromiseInv, StatesRest, Resting, Busy
    <3> QED
      BY <3>1, <3>2, ManifestedIsStored, NoJobImage
         DEF PromiseInv, PromiseKept, AcknowledgedIsKept, ManifestIsDurable
  <2>2. CASE at \in TornAt
    <3>1. \A a \in AppCell : want[a] = Free
      BY <1>1, <2>2 DEF BootInv, TornDown, NoWant
    <3> QED
      BY <3>1 DEF AcknowledgedIsKept, ManifestIsDurable
  <2> QED
    BY <2>1, <2>2
<1> QED
  BY <1>1, BootInvariant, PTL

=============================================================================
