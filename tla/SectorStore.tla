---------------------------- MODULE SectorStore ----------------------------
(***************************************************************************)
(* What the flash media backend promises to the DFU class above it.        *)
(*                                                                         *)
(* image is the content the host's accepted requests add up to, kept the   *)
(* same without the request being worked on, and disk what the flash       *)
(* holds.  Work moves one sector at a time, disk towards kept and kept     *)
(* towards image, through erased and torn cells; a request ends when kept  *)
(* has it all and a commit when disk does.  What is discarded is gone.     *)
(***************************************************************************)
EXTENDS Integers

CONSTANTS
  Cells,      \* addresses of the application area
  Sectors,    \* a partition of Cells into the units of erasing
  Contents,   \* contents a cell can have
  Blank,      \* content of an erased cell
  Torn,       \* content of a cell whose operation did not end well
  Targets,    \* addresses a write may start at
  Blocks      \* payloads: functions from 0 .. n - 1 to Contents

VARIABLES
  disk,       \* content of the flash
  kept,       \* content the completed requests add up to
  image,      \* content all accepted requests add up to
  mode,       \* "idle", "job": a request is being worked on, or "commit"
  failed      \* an operation failed or was refused and this was not cleared

storeVars == <<disk, kept, image, mode, failed>>

Init ==
  /\ disk \in [Cells -> Contents]
  /\ kept = disk /\ image = disk
  /\ mode = "idle"
  /\ failed \in BOOLEAN

Overlay(base, a, b) ==
  [c \in Cells |-> IF c - a \in DOMAIN b THEN b[c - a] ELSE base[c]]

Fill(base, s, new) == [c \in Cells |-> IF c \in s THEN new[c] ELSE base[c]]

Write(a, b) ==
  /\ mode = "idle" /\ mode' = "job"
  /\ image' = Overlay(image, a, b)
  /\ UNCHANGED <<disk, kept, failed>>

Erase(s) ==
  /\ mode = "idle" /\ mode' = "job"
  /\ image' = Fill(image, s, [c \in Cells |-> Blank])
  /\ UNCHANGED <<disk, kept, failed>>

BeginCommit ==
  /\ mode = "idle" /\ mode' = "commit"
  /\ UNCHANGED <<disk, kept, image, failed>>

\* A step of the cache or of the flash controller, on one sector.  A refused
\* request does not stop the operation that is under way.
Work(s) ==
  /\ mode # "idle"
  /\ \A c \in Cells \ s : disk'[c] = disk[c] /\ kept'[c] = kept[c]
  /\ \A c \in s : /\ disk'[c] \in {disk[c], kept[c], Blank, Torn}
                  /\ kept'[c] \in {kept[c], image[c], disk'[c]}
  /\ failed' \in {failed, TRUE}
  /\ UNCHANGED <<image, mode>>

Complete ==
  /\ mode = "job" /\ mode' = "idle"
  /\ kept = image
  /\ UNCHANGED <<disk, kept, image, failed>>

EndCommit ==
  /\ mode = "commit" /\ mode' = "idle"
  /\ kept = image /\ disk = image
  /\ UNCHANGED <<disk, kept, image, failed>>

\* The request at hand is refused.
Refuse == failed' = TRUE /\ UNCHANGED <<disk, kept, image, mode>>

\* An erase that failed leaves its sector as the controller left it.
FailErase(s) ==
  /\ mode = "job" /\ mode' = "idle" /\ failed' = TRUE
  /\ image' = Fill(image, s, disk) /\ kept' = image'
  /\ UNCHANGED disk

\* Cancel and begin drop what was accepted and did not reach the disk.
Discard ==
  /\ image' = disk /\ kept' = disk /\ mode' = "idle" /\ failed' \in BOOLEAN
  /\ UNCHANGED disk

DiscardAndWrite(a, b) ==
  /\ image' = Overlay(disk, a, b) /\ kept' = disk /\ mode' = "job" /\ failed' = FALSE
  /\ UNCHANGED disk

\* Power loss tears at most the sector being worked on.
PowerCut(s) ==
  /\ \A c \in Cells \ s : disk'[c] = disk[c]
  /\ \A c \in s : disk'[c] \in {disk[c], Torn}
  /\ image' = disk' /\ kept' = disk' /\ mode' = "idle" /\ failed' \in BOOLEAN

Next ==
  \/ \E a \in Targets, b \in Blocks : Write(a, b) \/ DiscardAndWrite(a, b)
  \/ \E s \in Sectors : Erase(s) \/ Work(s) \/ FailErase(s) \/ PowerCut(s)
  \/ BeginCommit \/ Complete \/ EndCommit \/ Refuse \/ Discard

Spec == Init /\ [][Next]_storeVars
=============================================================================
