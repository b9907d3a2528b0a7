---------------------------- MODULE ControlPipe ----------------------------
(***************************************************************************)
(* What a USB control pipe promises its two users: a request the host puts *)
(* on the pipe reaches the request handler at most once, whole and         *)
(* unmixed, and the host is told "done" only for a request the handler     *)
(* accepted, with the handler's answer cut to the length it asked for.     *)
(***************************************************************************)
EXTENDS Integers, Sequences

CONSTANTS
  Request,      \* what the host may ask: records with at least len and in (an IN data stage)
  Payload(_),   \* the data stage the host sends with a request
  Answers(_)    \* the answers the handler may give to a request

VARIABLES
  asked,      \* the request on the pipe, or none
  outcome,    \* "open", then the handler's "accepted" or "refused"
  seen,       \* the data the handler was given
  answer,     \* what it answered
  told,       \* what the host knows: "waiting", "done" or "failed"
  received    \* the data stage the host got, once done

pipeVars == <<asked, outcome, seen, answer, told, received>>

NoRequest == [id |-> 0]

Init ==
  /\ asked = NoRequest /\ outcome = "refused" /\ told = "failed"
  /\ seen = <<>> /\ answer = <<>> /\ received = <<>>

\* A new SETUP replaces whatever was on the pipe; its handler may be called
\* before the host can send anything else.
Ask(r) ==
  /\ asked' = r /\ told' = "waiting" /\ received' = <<>>
  /\ \/ /\ outcome' = "open" /\ seen' = <<>> /\ answer' = <<>>
     \/ /\ Payload(r) = <<>>
        /\ outcome' \in {"accepted", "refused"}
        /\ seen' = <<>> /\ answer' \in Answers(r)

Call ==
  /\ outcome = "open"
  /\ outcome' \in {"accepted", "refused"}
  /\ seen' = Payload(asked) /\ answer' \in Answers(asked)
  /\ UNCHANGED <<asked, told, received>>

Finish ==
  /\ told = "waiting" /\ outcome = "accepted"
  /\ told' = "done"
  /\ received' = IF asked.in
                 THEN SubSeq(answer, 1, IF asked.len < Len(answer) THEN asked.len ELSE Len(answer))
                 ELSE <<>>
  /\ UNCHANGED <<asked, outcome, seen, answer>>

\* A request may fail on the wire whatever the handler said.
Fail ==
  /\ told = "waiting" /\ told' = "failed"
  /\ UNCHANGED <<asked, outcome, seen, answer, received>>

Drop ==
  /\ asked' = NoRequest /\ outcome' = "refused" /\ told' = "failed"
  /\ seen' = <<>> /\ answer' = <<>> /\ received' = <<>>

Next == (\E r \in Request : Ask(r)) \/ Call \/ Finish \/ Fail \/ Drop

Spec == Init /\ [][Next]_pipeVars
=============================================================================
