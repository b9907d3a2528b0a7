------------------------------ MODULE DfuHost ------------------------------
(***************************************************************************)
(* The host tool scripts/dfu_download.py, downloading and uploading, over  *)
(* the device of UsbdDfu.                                                  *)
(*                                                                         *)
(* Each control transfer of the tool is one action together with the       *)
(* class request it makes; the device's main thread, bus resets and power  *)
(* cuts come between any two.  A tool that ended or was killed leaves the  *)
(* device as it is, and the next one starts from there.                    *)
(***************************************************************************)
EXTENDS UsbdDfu, Sequences

CONSTANTS
  Sessions,    \* command lines: [upload, standard, erase, addr, exec, image, length]
  NoExec,      \* no --exec on the command line
  Lookalike    \* the payloads of five bytes that start with the code of a
               \* command, each with the command they are taken for

ASSUME HostAssumption ==
  /\ NoExec \notin AppCell
  /\ \A s \in Sessions :
       /\ {s.upload, s.standard, s.erase} \subseteq BOOLEAN
       /\ s.standard => s.addr = AppBase
       /\ s.addr \in HostAddrs /\ s.exec \in HostAddrs \cup {NoExec}
       /\ \E n \in 1 .. Top : s.image \in [0 .. n - 1 -> Cell]
       /\ s.length \in Nat \ {0}

\* Five bytes are less than one transfer.
ASSUME LookalikeAssumption ==
  \A p \in DOMAIN Lookalike :
    /\ \E n \in 1 .. XferCells - 1 : p \in [0 .. n - 1 -> Cell]
    /\ Lookalike[p] \in [request : {"address", "erase", "exec"}, addr : HostAddrs]

VARIABLE tool   \* the tool's progress, and what it met

hostVars == <<dfuVars, tool>>

ImageLen(s)  == Length(s.image)
Blocks(s)    == (ImageLen(s) + XferCells - 1) \div XferCells
Block(s, k)  == LET left == ImageLen(s) - k * XferCells
                IN  [i \in 0 .. (IF left < XferCells THEN left ELSE XferCells) - 1 |->
                       s.image[k * XferCells + i]]
\* Mutant: DfuSe data starts at block 0 too.
FirstBlockZero(s) == 0
FirstBlock(s) == IF s.standard THEN 0 ELSE 2

\* The image of a standard download that the device takes for a command: the
\* ambiguity DFU_PROTOCOL.md:136-137 admits.
Ambiguous(s) == ~s.upload /\ s.standard /\ Block(s, 0) \in DOMAIN Lookalike

\* erase_range: every sector from the one of the first byte to that of the last.
FirstSector(s) == s.addr \div SectorCells
LastSector(s)  == (s.addr + ImageLen(s) - 1) \div SectorCells

\* The tool is one of the hosts UsbdDfu admits: its erases, its blocks and the
\* blocks it reads are among theirs.
ASSUME ToolAssumption ==
  \A s \in Sessions :
    IF s.upload
    THEN \A k \in 0 .. s.length - 1 :
           k * XferCells < s.length => FirstBlock(s) + k \in HostBlocks
    ELSE /\ \A k \in 0 .. Blocks(s) - 1 :
              FirstBlock(s) + k \in HostBlocks /\ Block(s, k) \in Payloads
         /\ s.erase => \A a \in FirstSector(s) .. LastSector(s) : a * SectorCells \in HostAddrs

DataStage(s)  == IF s.upload THEN "read" ELSE "block"
FirstStage(s) ==
  IF s.standard THEN DataStage(s)
  ELSE IF s.erase /\ ~s.upload THEN "erase" ELSE "address"

\* What is left of the stage after its k-th request.
MoreErases(t) == FirstSector(t.session) + t.k < LastSector(t.session)
\* Mutants: the count of blocks is rounded down, or one too large.
MoreBlocksFloor(t) == t.k + 1 < ImageLen(t.session) \div XferCells
MoreBlocksPast(t)  == t.k < Blocks(t.session)
MoreBlocks(t)      == t.k + 1 < Blocks(t.session)

\* The stage and index that follow the request that just ended.
Following(t) ==
  CASE t.stage = "erase" /\ MoreErases(t) -> <<"erase", t.k + 1>>
    [] t.stage = "erase" /\ ~MoreErases(t) -> <<"address", 0>>
    [] t.stage = "address" -> <<DataStage(t.session), 0>>
    [] t.stage = "block" /\ MoreBlocks(t) -> <<"block", t.k + 1>>
    [] t.stage = "block" /\ ~MoreBlocks(t) /\ t.session.exec # NoExec -> <<"exec", 0>>
    [] OTHER -> <<"finish", 0>>

\* Results: "stored" when the device reported dfuMANIFEST-WAIT-RESET,
\* "assumed" when it vanished during manifestation, "uploaded" when the file
\* was written (all three exit 0), "error".
Over(t, result) == [t EXCEPT !.stage = "over", !.polling = FALSE, !.result = result]

\* A tool started on a device that is not idle.
Started(s) == [session |-> s, stage |-> FirstStage(s), k |-> 0, polling |-> FALSE,
               file |-> <<>>, result |-> "none", stale |-> dfu # InitDfu, blamed |-> FALSE]

Running == tool.stage # "over"

(***************************************************************************)
(* The tool's control transfers.                                           *)
(***************************************************************************)

\* dfu_handle_command looks at block 0 only, and there at every payload.
TakenFor(c) ==
  CASE c.request = "address" -> SetAddress(c.addr)
    [] c.request = "erase"   -> EraseCommand(c.addr)
    [] OTHER                 -> SetExecAddress(c.addr)

DnloadBlock(b, p) ==
  IF b = 0 /\ p \in DOMAIN Lookalike THEN TakenFor(Lookalike[p]) ELSE DnloadData(b, p)

Transfer(t) ==
  LET s == t.session
  IN  CASE t.stage = "erase"   -> EraseCommand((FirstSector(s) + t.k) * SectorCells)
        [] t.stage = "address" -> SetAddress(s.addr)
        [] t.stage = "block"   -> DnloadBlock(FirstBlock(s) + t.k, Block(s, t.k))
        [] t.stage = "exec"    -> SetExecAddress(s.exec)
        [] OTHER               -> DnloadEnd

\* The device has an error to report.
Blamed == tool.blamed \/ media'.err # "none"

Commanding == Running /\ ~tool.polling /\ tool.stage \notin {"read", "abort"}

\* send_command, a data block or the final zero-length DNLOAD ...
Send ==
  /\ Commanding
  /\ Transfer(tool)
  /\ tool' = [tool EXCEPT !.polling = TRUE, !.blamed = Blamed]

\* ... which a stall turns into a USBError.
SendStalled ==
  /\ \/ Commanding /\ ~DnloadState
     \/ Running /\ tool.stage = "read" /\ ~UploadState
  /\ GetStateOrStall
  /\ tool' = Over(tool, "error")

\* wait_download_idle, and the loop after the zero-length DNLOAD.
\* Mutant: neither looks for the error state.
AfterStatusNoError(t, d) ==
  CASE t.stage = "finish" /\ d.state = "dfuMANIFEST-WAIT-RESET" -> Over(t, "stored")
    [] t.stage # "finish" /\ d.state = "dfuDNLOAD-IDLE" ->
         [t EXCEPT !.stage = Following(t)[1], !.k = Following(t)[2], !.polling = FALSE]
    [] OTHER -> t

AfterStatus(t, d) ==
  CASE d.status # "OK" \/ d.state = "dfuERROR" -> Over(t, "error")
    [] d.status = "OK" /\ t.stage = "finish" /\ d.state = "dfuMANIFEST-WAIT-RESET" ->
         Over(t, "stored")
    [] d.status = "OK" /\ t.stage # "finish" /\ d.state = "dfuDNLOAD-IDLE" ->
         [t EXCEPT !.stage = Following(t)[1], !.k = Following(t)[2], !.polling = FALSE]
    [] OTHER -> t

Poll ==
  /\ Running /\ tool.polling
  /\ GetStatus \/ GetStatusError
  /\ tool' = [AfterStatus(tool, dfu') EXCEPT !.blamed = Blamed]

\* upload: one block is asked for, and a short answer or a full file is the
\* end of the loop.
\* Mutant: the next block has the number of the last.
ExtendSameBlock(t, asked, got) ==
  LET file == t.file \o got
  IN  [t EXCEPT !.file = file,
                !.stage = IF Len(got) < asked \/ Len(file) = t.session.length
                          THEN "abort" ELSE @]
Extend(t, asked, got) ==
  LET file == t.file \o got
  IN  [t EXCEPT !.file = file, !.k = @ + 1,
                !.stage = IF Len(got) < asked \/ Len(file) = t.session.length
                          THEN "abort" ELSE @]

\* A read the backend refuses leaves *len at the length asked for and is no
\* stall: the device answers with whatever its request buffer holds.
Read ==
  LET b     == FirstBlock(tool.session) + tool.k
      a     == BlockAddress(b)
      left  == tool.session.length - Len(tool.file)
      asked == IF left < XferCells THEN left ELSE XferCells
      n     == IF AppEnd - a < asked THEN AppEnd - a ELSE asked
  IN  /\ Running /\ tool.stage = "read"
      /\ \/ /\ Upload(b, asked)
            /\ tool' = Extend(tool, asked, [i \in 1 .. n |-> flash[a + i - 1]])
         \/ /\ UploadRefused(b)
            /\ tool' = [Extend(tool, asked, [i \in 1 .. asked |-> Junk])
                          EXCEPT !.blamed = TRUE]

\* The upload ends with ABORT, whose stall is ignored, and the file.
EndUpload ==
  /\ Running /\ tool.stage = "abort"
  /\ Abort \/ (~AbortState /\ GetStateOrStall)
  /\ tool' = Over(tool, "uploaded")

\* After 200 polls the tool gives up; how long the device takes is not known.
GiveUp ==
  /\ Running /\ tool.polling
  /\ tool' = [Over(tool, "error") EXCEPT !.blamed = TRUE]
  /\ UNCHANGED dfuVars

\* A bus reset or a power cut fails the transfer at hand; in the final loop
\* the tool takes that for the jump to the application.
Vanished(t) ==
  IF t.stage = "over" THEN t
  ELSE [Over(t, CASE t.stage = "finish" /\ t.polling -> "assumed"
                  [] t.stage = "abort" -> "uploaded"
                  [] OTHER -> "error")
          EXCEPT !.blamed = TRUE]

Disturb == (BusReset \/ DfuPowerLoss) /\ tool' = Vanished(tool)

\* A new run of the tool, after the last one ended or was killed.
StartTool ==
  /\ \E s \in Sessions : tool' = Started(s)
  /\ UNCHANGED dfuVars

Device == MainPoll /\ UNCHANGED tool

ToolStep == Send \/ SendStalled \/ Poll \/ Read \/ EndUpload

HostInit == DfuInit /\ \E s \in Sessions : tool = Started(s)
HostNext == Device \/ ToolStep \/ GiveUp \/ Disturb \/ StartTool
HostSpec == HostInit /\ [][HostNext]_hostVars /\ WF_hostVars(Device) /\ WF_hostVars(ToolStep)

(***************************************************************************)
(* Properties.                                                             *)
(***************************************************************************)

\* The tool's variable has its type, and no request leaves the image.
ToolTypeOK ==
  /\ tool.session \in Sessions
  /\ tool.stage \in {"erase", "address", "block", "exec", "finish", "read", "abort", "over"}
  /\ tool.stage = "block" => tool.k \in 0 .. Blocks(tool.session) - 1
  /\ tool.stage = "erase" => FirstSector(tool.session) + tool.k <= LastSector(tool.session)
  /\ Len(tool.file) <= tool.session.length
  /\ tool.result \in {"none", "stored", "assumed", "uploaded", "error"}

\* When the tool has read dfuMANIFEST-WAIT-RESET, the flash holds the whole
\* image at the address it was given, and the device is about to start the
\* entry the command line names - whatever an earlier, killed run left in it.
\* Only of an image the device takes for a command nothing is stored.
StoredIsInFlash ==
  tool.result = "stored" =>
    /\ ~Ambiguous(tool.session) =>
         \A i \in DOMAIN tool.session.image :
           flash[tool.session.addr + i] = tool.session.image[i]
    /\ dfu.state = "dfuMANIFEST-WAIT-RESET" /\ tool.session.exec # NoExec =>
         bind.exec = tool.session.exec

\* The file of an upload is what the flash holds from the address given up to
\* the end of the application: DFU_PROTOCOL.md:177 and 93-97.
UploadIsFlash ==
  tool.result = "uploaded" =>
    LET s == tool.session
    IN  tool.file = [i \in 1 .. (IF AppEnd - s.addr < s.length
                                 THEN AppEnd - s.addr ELSE s.length) |-> flash[s.addr + i - 1]]

\* It is, and stays so until the next run, unless a standard upload found the
\* device in the middle of another session.
FreshUploadIsFlash == (tool.stale /\ tool.session.standard) \/ UploadIsFlash

\* On an idle device the tool and the state machine fit: no request of the
\* tool is ever refused, and it only fails for an error of the flash or of
\* its arguments, a reset, or a device slower than its 200 polls, or when it
\* sends an image the device takes for a command.
ErrorsHaveCause ==
  tool.result = "error" => tool.stale \/ tool.blamed \/ Ambiguous(tool.session)

\* Every run of the tool ends, however slow the device, unless it is killed.
SessionsEnd == Running ~> ~Running
=============================================================================
