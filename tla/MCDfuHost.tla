----------------------------- MODULE MCDfuHost -----------------------------
(***************************************************************************)
(* Small instances of DfuHost.  credit bounds the bus resets, power cuts,  *)
(* killed and repeated runs of the tool; the polls of a run are unlimited. *)
(***************************************************************************)
EXTENDS DfuHost, TLC

CONSTANT Credit   \* resets, power cuts, give-ups and further runs allowed

VARIABLE credit

MCCell == {"x0", "x1", "x2", "y0", "old", "erased", "junk"}

\* A two-block image at the default address with erase; a one-block image
\* across two sectors with an execute address; a standard download; one that
\* passes the end of the application; an upload that meets that end in its
\* second block; and a standard upload.  One-cell images, downloaded in
\* standard mode, that the device takes for a pointer in the application, for
\* an unaligned execute address and for the erase of the second sector; the
\* first of them is also the second block of the first image.
Long  == [i \in 0 .. 2 |-> <<"x0", "x1", "x2">>[i + 1]]
Short == [i \in 0 .. 1 |-> <<"y0", "x1">>[i + 1]]
One(c) == [i \in {0} |-> c]

Download(standard, erase, addr, exec, image) ==
  [upload |-> FALSE, standard |-> standard, erase |-> erase, addr |-> addr,
   exec |-> exec, image |-> image, length |-> 1]
UploadOf(standard, addr, length) ==
  [upload |-> TRUE, standard |-> standard, erase |-> FALSE, addr |-> addr,
   exec |-> NoExec, image |-> Short, length |-> length]

MCSessions == {
  Download(FALSE, TRUE, 2, NoExec, Long), Download(FALSE, FALSE, 3, 4, Short),
  Download(TRUE, FALSE, 2, NoExec, Short), Download(FALSE, FALSE, 5, NoExec, Short),
  UploadOf(FALSE, 3, 4), UploadOf(TRUE, 2, 2)}
  \cup {Download(TRUE, FALSE, 2, NoExec, One(c)) : c \in {"x2", "x1", "y0"}}

MCLookalike ==
  [p \in {One("x2"), One("x1"), One("y0")} |->
     CASE p[0] = "x2" -> [request |-> "address", addr |-> 3]
       [] p[0] = "x1" -> [request |-> "exec", addr |-> 3]
       [] p[0] = "y0" -> [request |-> "erase", addr |-> 4]]

MCPayloads == UNION {{Block(s, k) : k \in 0 .. Blocks(s) - 1} : s \in {t \in MCSessions : ~t.upload}}

mcVars == <<hostVars, credit>>

Spend == credit > 0 /\ credit' = credit - 1

MCInit == flash = [a \in Addr |-> "old"] /\ HostInit /\ credit = Credit
MCNext ==
  \/ (Device \/ ToolStep) /\ UNCHANGED credit
  \/ Spend /\ (GiveUp \/ Disturb \/ StartTool)

MCSpec ==
  /\ MCInit /\ [][MCNext]_mcVars
  /\ WF_mcVars(Device /\ UNCHANGED credit) /\ WF_mcVars(ToolStep /\ UNCHANGED credit)
=============================================================================
