----------------------------- MODULE MCUsbdDfu -----------------------------
(***************************************************************************)
(* Small instances of UsbdDfu.  credit bounds the commands, bus resets and *)
(* power cuts of a behavior; status requests are unlimited.                *)
(***************************************************************************)
EXTENDS UsbdDfu, TLC

CONSTANT Credit   \* commands, resets and power cuts a run allows

VARIABLE credit

MCCell == {"x0", "x1", "old", "erased", "junk"}
Long  == [i \in 0 .. 1 |-> <<"x0", "x1">>[i + 1]]
Short == [i \in {0} |-> "x0"]
BothPayloads == {Long, Short}
LongPayload  == {Long}

mcVars == <<dfuVars, credit>>

Spend == credit > 0 /\ credit' = credit - 1

MCInit == flash = [a \in Addr |-> "old"] /\ DfuInit /\ credit = Credit
MCNext ==
  \/ (MainPoll \/ StatusRequest) /\ UNCHANGED credit
  \/ Spend /\ (Command \/ BusReset \/ DfuPowerLoss)

MCSpec == MCInit /\ [][MCNext]_mcVars /\ WF_mcVars(MainPoll /\ UNCHANGED credit)
=============================================================================
