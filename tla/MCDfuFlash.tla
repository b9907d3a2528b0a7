----------------------------- MODULE MCDfuFlash -----------------------------
(***************************************************************************)
(* Instances of DfuFlash small enough for TLC: one bootloader sector, two  *)
(* application sectors and room for a position that runs past its job.     *)
(* Payload cells differ by position, so that a byte copied to the wrong    *)
(* place shows.                                                            *)
(***************************************************************************)
EXTENDS DfuFlash, TLC

MCCell == {"x0", "x1", "old", "erased", "junk"}
Long  == [i \in 0 .. 1 |-> <<"x0", "x1">>[i + 1]]
Short == [i \in {0} |-> "x0"]
BothPayloads == {Long, Short}
LongPayload  == {Long}

\* Two lengths of the same byte: what matters is how far a position gets.
PlainPayloads == {[i \in 0 .. n - 1 |-> "x0"] : n \in 1 .. 2}

\* Initially the chip holds an old application everywhere.
MCInit == flash = [a \in Addr |-> "old"] /\ MediaInit

MCSpec == MCInit /\ [][MediaNext]_mediaVars
=============================================================================
