------------------------------- MODULE UsbEp0 -------------------------------
(***************************************************************************)
(* Control transfers on endpoint 0: the EP0 part of the device port        *)
(* (CherryUSB/port/usb_dc_ch32h417_usbhs.c) and of the device core         *)
(* (CherryUSB/core/usbd_core.c), and the host that drives them.            *)
(*                                                                         *)
(* One action is one bus transaction with the interrupt it raises: the     *)
(* controller answers NAK while a transfer interrupt is pending.  Tokens   *)
(* that meet NAK are retried and change nothing, so they are no action.    *)
(* The host may abandon a transfer with a new SETUP or a bus reset between *)
(* any two transactions, and any handshake may be lost.                    *)
(*                                                                         *)
(* A byte of a data stage is <<id, i>>, its transfer and position, so that *)
(* no two transfers carry the same bytes.                                  *)
(***************************************************************************)
EXTENDS Integers, Sequences

CONSTANTS
  Mps,          \* EP0 packet size, also the length of the DMA buffer
  BufLen,       \* CONFIG_USBDEV_REQUEST_BUFFER_LEN
  OutLens,      \* wLength of requests with an OUT data stage
  InLens,       \* wLength of requests with an IN data stage
  AnswerLens,   \* lengths of the answers a request handler gives
  Addresses,    \* addresses the host assigns
  Abandons,     \* kinds of requests the host may abandon with a new SETUP
  DropsRepeats, \* the controller drops an OUT packet that has the old toggle
  MaxTransfers, \* bound: SETUP transactions of a behavior
  MaxLost,      \* bound: lost handshakes of a behavior
  MaxResets     \* bound: bus resets of a behavior

ASSUME Ep0Assumption ==
  /\ {Mps, BufLen} \subseteq Nat \ {0} /\ Mps <= BufLen
  /\ OutLens \cup InLens \cup Addresses \subseteq Nat \ {0}
  /\ AnswerLens \subseteq Nat
  /\ Abandons \subseteq {"out", "in", "none", "address"}
  /\ DropsRepeats \in BOOLEAN
  /\ {MaxTransfers, MaxLost, MaxResets} \subseteq Nat

VARIABLES
  dev,      \* registers, the port's and the core's EP0 variables
  reqData,  \* req_data, the core's request buffer
  dma,      \* usbhs_ep0_buf, which carries SETUP, OUT and IN packets alike
  host,     \* the host's side of the transfer
  call,     \* the last call of the request handler: a history variable
  used      \* transfers, losses and resets so far, for the bounds

ep0Vars == <<dev, reqData, dma, host, call, used>>

(***************************************************************************)
(* Requests, data and handler answers.                                     *)
(***************************************************************************)

Bytes(id, n) == [i \in 1 .. n |-> <<id, i>>]

Requests(id) ==
       [id : {id}, kind : {"out"}, len : OutLens, addr : {0}]
  \cup [id : {id}, kind : {"in"}, len : InLens, addr : {0}]
  \cup [id : {id}, kind : {"none"}, len : {0}, addr : {0}]
  \cup [id : {id}, kind : {"address"}, len : {0}, addr : Addresses]

NoRequest == [id |-> 0, kind |-> "none", len |-> 0, addr |-> 0]

\* The data stage the host sends.
Payload(r) == IF r.kind = "out" THEN Bytes(r.id, r.len) ELSE <<>>

\* usbd_setup_request_handler: SET_ADDRESS succeeds, any other request may
\* be refused; only a request with an IN data stage has an answer.
Answers(r) == IF r.kind = "in" THEN {Bytes(r.id, n) : n \in AnswerLens} ELSE {<<>>}
Replies(r) == [ok : IF r.kind = "address" THEN {TRUE} ELSE BOOLEAN, answer : Answers(r)]

Called(r, data, reply) == [id |-> r.id, data |-> data, ok |-> reply.ok, answer |-> reply.answer]

NoCall == [id |-> 0, data |-> <<>>, ok |-> FALSE, answer |-> <<>>]

Least(m, n) == IF m < n THEN m ELSE n
Put(buf, at, data) ==
  [i \in 1 .. Len(buf) |-> IF i - at \in 1 .. Len(data) THEN data[i - at] ELSE buf[i]]
Rest(buf, off, n) == SubSeq(buf, off + 1, off + n)
SetupPacket(r) == Put(dma, 0, <<<<r.id, 0>>>>)   \* it overwrites part of the buffer
Flip(toggle) == 1 - toggle
Null == -1   \* a transfer without a buffer

(***************************************************************************)
(* The port's transfer calls.                                              *)
(***************************************************************************)

\* usbd_ep_start_write: the first packet of n bytes at offset off goes to
\* the DMA buffer and IN is armed with the software toggle.
\* Mutant: the whole transfer is armed as one packet.
StartWriteWhole(d, n) ==
  [d EXCEPT !.left = n, !.txLen = n, !.tx = "ACK", !.txTog = d.nextTx]
StartWrite(d, n) ==
  [d EXCEPT !.left = n, !.txLen = Least(n, Mps), !.tx = "ACK", !.txTog = d.nextTx]
FirstPacket(off, n) == Put(dma, 0, Rest(reqData, off, Least(n, Mps)))

\* usbd_ep_start_read: the status stage expects DATA1.
StartRead(d, off, n) ==
  [d EXCEPT !.copyTo = off, !.rx = "ACK", !.rxTog = IF n = 0 THEN 1 ELSE d.nextRx]

StallIn(d) == [d EXCEPT !.tx = "STALL"]

\* After a status stage the port takes the next SETUP and sends DATA1 first.
Rearm(d) == [d EXCEPT !.rx = "ACK", !.rxTog = 0, !.nextTx = 1]

\* usb_dc_init, then the bus reset: registers, toggles, udc and the core's
\* state; the rest of the core keeps its values.  The port's own copy of the
\* SETUP packet is cleared, but read again only after an IN packet, and no IN
\* is armed before the next SETUP: setup stands for both copies.
InitDev ==
  [devAd |-> 0, pend |-> 0,
   rx |-> "ACK", rxTog |-> 1, nextRx |-> 1, copyTo |-> 0,
   tx |-> "NAK", txTog |-> 0, nextTx |-> 1, txLen |-> 0, left |-> 0,
   setup |-> NoRequest, state |-> "SETUP", off |-> 0, residue |-> 0, zlp |-> FALSE]

\* Mutant: the address set before the reset stays pending.
AfterResetKeepsPending(d) ==
  [InitDev EXCEPT !.pend = d.pend, !.copyTo = d.copyTo, !.setup = d.setup, !.off = d.off,
                  !.residue = d.residue, !.zlp = d.zlp]
AfterReset(d) ==
  [InitDev EXCEPT !.copyTo = d.copyTo, !.setup = d.setup, !.off = d.off,
                  !.residue = d.residue, !.zlp = d.zlp]

(***************************************************************************)
(* SETUP.                                                                  *)
(***************************************************************************)

\* The port's part: a SETUP aborts both directions and resets the toggles.
\* Mutant: an armed IN packet outlives the SETUP.
ReceivedKeepsPacket(d, r) ==
  [d EXCEPT !.setup = r, !.nextRx = 1, !.nextTx = 1, !.rx = "NAK", !.rxTog = 1]

Received(d, r) ==
  [d EXCEPT !.setup = r, !.nextRx = 1, !.nextTx = 1,
            !.rx = "NAK", !.rxTog = 1, !.tx = "NAK", !.txTog = 0]

\* Mutant: the residue of an abandoned transfer is kept.
BeginKeepsResidue(d, r) ==
  [d EXCEPT !.off = 0, !.residue = IF @ = 0 THEN r.len ELSE @, !.zlp = FALSE]
Begin(d, r) == [d EXCEPT !.off = 0, !.residue = r.len, !.zlp = FALSE]

\* SET_ADDRESS only records the address.
\* Mutant: it takes effect at once.
SetAddressAtOnce(d, r) == IF r.kind = "address" THEN [d EXCEPT !.devAd = r.addr] ELSE d
SetAddress(d, r) == IF r.kind = "address" THEN [d EXCEPT !.pend = r.addr] ELSE d

\* An OUT data stage longer than the buffer is stalled, on IN only.
SetupOversize(r) ==
  /\ r.kind = "out" /\ r.len > BufLen
  /\ dev' = StallIn(Received(dev, r))
  /\ dma' = SetupPacket(r)
  /\ UNCHANGED <<reqData, call>>

SetupOut(r) ==
  /\ r.kind = "out" /\ r.len <= BufLen
  /\ dev' = StartRead([Begin(Received(dev, r), r) EXCEPT !.state = "OUT_DATA"], 0, r.len)
  /\ dma' = SetupPacket(r)
  /\ UNCHANGED <<reqData, call>>

\* Any other request is handled at once, before any length is checked; the
\* smaller of the requested and the offered length is sent, from the request
\* buffer.  A handler writes its answer there itself, even when the request is
\* refused or the answer is too long (what lies past the buffer is the core's
\* own state and outside the model), or names a source the core copies from.
\* Mutant: the zero-length packet is left out.
AnswerNoZlp(d, r, reply) ==
  LET n == Least(Len(reply.answer), r.len)
  IN  [StartWrite([d EXCEPT !.residue = n,
                            !.state = IF n > 0 THEN "IN_DATA" ELSE "IN_STATUS"], n)
         EXCEPT !.zlp = FALSE]

Answer(d, r, reply) ==
  LET offered == Len(reply.answer)
      n       == Least(offered, r.len)
  IN  [StartWrite([d EXCEPT !.residue = n,
                            !.state = IF n > 0 THEN "IN_DATA" ELSE "IN_STATUS"], n)
         EXCEPT !.zlp = offered > 0 /\ r.len > offered /\ offered % Mps = 0]

SetupHandled(r, reply) ==
  LET d      == SetAddress(Begin(Received(dev, r), r), r)
      n      == Least(Len(reply.answer), r.len)
      fits   == reply.ok /\ n <= BufLen
      copied == IF fits THEN Put(reqData, 0, SubSeq(reply.answer, 1, n)) ELSE reqData
  IN  /\ r.kind # "out"
      /\ call' = Called(r, <<>>, reply)
      /\ reqData' \in {Put(reqData, 0, reply.answer), copied}
      /\ IF fits
         THEN /\ dma' = Put(SetupPacket(r), 0, SubSeq(reqData', 1, Least(n, Mps)))
              /\ dev' = Answer(d, r, reply)
         ELSE /\ dev' = StallIn([d EXCEPT !.state = "SETUP",
                                          !.residue = IF reply.ok THEN n ELSE @])
              /\ dma' = SetupPacket(r)

SetupComplete(r) ==
  \/ SetupOversize(r) \/ SetupOut(r)
  \/ \E reply \in Replies(r) : SetupHandled(r, reply)

(***************************************************************************)
(* OUT and IN completed.                                                   *)
(***************************************************************************)

\* A data packet lands at the core's position; the last one lets the request
\* handler run, whose verdict is the status stage.
OutDone(p) ==
  LET rest == dev.residue - Len(p)
      d    == [dev EXCEPT !.rx = "NAK", !.nextRx = Flip(@),
                          !.off = @ + Len(p), !.residue = rest]
      b    == Put(reqData, dev.copyTo, p)
  IN  /\ dma' = Put(dma, 0, p) /\ reqData' = b
      /\ \/ /\ rest # 0
            /\ dev' = StartRead(d, d.off, rest)
            /\ UNCHANGED call
         \/ /\ rest = 0
            /\ \E reply \in Replies(dev.setup) :
                 /\ call' = Called(dev.setup, SubSeq(b, 1, dev.setup.len), reply)
                 /\ dev' = IF reply.ok
                           THEN StartWrite([d EXCEPT !.off = 0, !.state = "IN_STATUS"], 0)
                           ELSE StallIn([d EXCEPT !.off = 0, !.state = "SETUP"])

\* The empty OUT packet of a status stage.
OutStatusDone ==
  /\ dev' = [Rearm(dev) EXCEPT !.nextRx = 1, !.state = "SETUP"]
  /\ UNCHANGED <<reqData, dma, call>>

\* What follows an IN packet: the next one, the zero-length packet, the OUT
\* status stage, or the end of a transfer without IN data.
AfterIn(d) ==
  CASE d.residue # 0 -> StartWrite(d, d.residue)
    [] d.residue = 0 /\ d.zlp -> StartWrite([d EXCEPT !.zlp = FALSE], 0)
    [] d.residue = 0 /\ ~d.zlp /\ d.setup.kind = "in" ->
         StartRead([d EXCEPT !.state = "OUT_STATUS"], Null, 0)
    [] OTHER -> [d EXCEPT !.state = IF @ = "IN_STATUS" THEN "SETUP" ELSE @]

\* The recorded address is taken by the first IN packet that completes.
TakeAddress(d) == IF d.pend > 0 THEN [d EXCEPT !.devAd = d.pend, !.pend = 0] ELSE d

InDone ==
  LET n == Least(dev.left, Mps)
      d == AfterIn([dev EXCEPT !.tx = "NAK", !.txTog = 0, !.left = @ - n,
                               !.nextTx = IF dev.left >= Mps THEN Flip(@) ELSE 1,
                               !.off = @ + n, !.residue = @ - n])
      e == TakeAddress(d)
  IN  /\ dev' = IF dev.setup.kind = "in" THEN e ELSE Rearm(e)
      /\ dma' = IF dev.residue > n THEN FirstPacket(dev.off + n, dev.residue - n) ELSE dma
      /\ UNCHANGED <<reqData, call>>

(***************************************************************************)
(* The host: one transaction, its packet not lost.                         *)
(***************************************************************************)

Transferring == host.stage \in {"data", "status"}
Answered     == dev.devAd = host.addr   \* the device listens to the host

InitHost == [stage |-> "idle", req |-> NoRequest, sent |-> 0, got |-> <<>>, tog |-> 1,
             addr |-> 0, cut |-> FALSE]

Lose == used.lost < MaxLost /\ used' = [used EXCEPT !.lost = @ + 1]

\* Which OUT packets reach the interrupt handler: it never looks at the
\* toggle itself (USBHS_UEP_R_TOG_MATCH), so a repeated packet is dropped by
\* the controller or not at all.
Reaches(tog) == dev.rxTog = tog \/ ~DropsRepeats

Heard(heard) == IF heard THEN UNCHANGED used ELSE Lose

\* A SETUP is always accepted; in the middle of a transfer it abandons it.
HostSetup ==
  /\ used.transfers < MaxTransfers /\ Answered
  /\ Transferring => host.req.kind \in Abandons
  /\ used' = [used EXCEPT !.transfers = @ + 1]
  /\ \E r \in Requests(used.transfers + 1) :
       /\ SetupComplete(r)
       /\ host' = [InitHost EXCEPT !.stage = IF r.len > 0 THEN "data" ELSE "status",
                                   !.req = r, !.addr = host.addr]

\* An OUT packet of the data stage; it is repeated, with the same toggle, as
\* long as the host hears no handshake.
HostOut(heard) ==
  LET p    == SubSeq(Payload(host.req), host.sent + 1,
                     Least(host.sent + Mps, host.req.len))
      last == host.sent + Len(p) = host.req.len
  IN  /\ host.stage = "data" /\ host.req.kind = "out"
      /\ Answered /\ dev.rx = "ACK"
      /\ IF Reaches(host.tog) THEN OutDone(p) ELSE UNCHANGED <<dev, reqData, dma, call>>
      /\ host' = IF heard
                 THEN [host EXCEPT !.sent = @ + Len(p), !.tog = Flip(@),
                                   !.stage = IF last THEN "status" ELSE @]
                 ELSE [host EXCEPT !.cut = last]
      /\ Heard(heard)

\* What the host makes of a new IN packet.
TakeIn(p) ==
  IF host.stage = "status"
  THEN [host EXCEPT !.stage = "done",
                    !.addr = IF host.req.kind = "address" THEN host.req.addr ELSE @]
  ELSE LET whole == Len(p) < Mps \/ Len(host.got) + Len(p) = host.req.len
       IN  [host EXCEPT !.got = @ \o p, !.tog = Flip(@),
                        !.stage = IF whole THEN "status" ELSE @]

\* An IN packet; the device learns of it when it hears the host's handshake.
HostIn(heard) ==
  LET p    == SubSeq(dma, 1, dev.txLen)
      h    == TakeIn(p)
      want == IF host.stage = "status" THEN 1 ELSE host.tog
  IN  /\ Transferring /\ (host.stage = "data") = (host.req.kind = "in")
      /\ Answered /\ dev.tx = "ACK"
      /\ host' = IF dev.txTog # want THEN host
                 ELSE [h EXCEPT !.cut = ~heard /\ h.stage = "status"]
      /\ IF heard THEN InDone ELSE UNCHANGED <<dev, reqData, dma, call>>
      /\ Heard(heard)

\* The empty OUT packet that ends a transfer with IN data.
HostOutStatus(heard) ==
  /\ host.stage = "status" /\ host.req.kind = "in"
  /\ Answered /\ dev.rx = "ACK"
  /\ IF Reaches(1) THEN OutStatusDone ELSE UNCHANGED <<dev, reqData, dma, call>>
  /\ host' = IF heard THEN [host EXCEPT !.stage = "done"] ELSE host
  /\ Heard(heard)

HostSeesStall ==
  /\ Transferring /\ (host.stage = "data") = (host.req.kind = "in")
  /\ Answered /\ dev.tx = "STALL"
  /\ host' = [host EXCEPT !.stage = "failed"]
  /\ UNCHANGED <<dev, reqData, dma, call, used>>

BusReset ==
  /\ used.resets < MaxResets /\ used' = [used EXCEPT !.resets = @ + 1]
  /\ dev' = AfterReset(dev)
  /\ host' = InitHost
  /\ UNCHANGED <<reqData, dma, call>>

Transact(heard) ==
  HostOut(heard) \/ HostIn(heard) \/ HostOutStatus(heard)

Ep0Init ==
  /\ dev = InitDev
  /\ reqData = [i \in 1 .. BufLen |-> <<0, 0>>] /\ dma = [i \in 1 .. Mps |-> <<0, 0>>]
  /\ host = InitHost
  /\ call = NoCall
  /\ used = [transfers |-> 0, lost |-> 0, resets |-> 0]

Ep0Next ==
  \/ HostSetup \/ Transact(TRUE) \/ Transact(FALSE) \/ HostSeesStall \/ BusReset

\* A host that does not abandon a transfer goes on with it.
Ep0Spec ==
  Ep0Init /\ [][Ep0Next]_ep0Vars /\ WF_ep0Vars(Transact(TRUE) \/ HostSeesStall)

(***************************************************************************)
(* Properties.                                                             *)
(***************************************************************************)

\* The variables have their types; an armed packet fits endpoint 0.
Ep0TypeOK ==
  /\ dev.state \in {"SETUP", "OUT_DATA", "IN_DATA", "IN_STATUS", "OUT_STATUS"}
  /\ {dev.rx, dev.tx} \subseteq {"ACK", "NAK", "STALL"}
  /\ {dev.rxTog, dev.txTog, dev.nextRx, dev.nextTx, host.tog} \subseteq {0, 1}
  /\ {dev.devAd, dev.pend, host.addr} \subseteq Addresses \cup {0}
  /\ dev.txLen \in 0 .. Mps /\ dev.left \in 0 .. BufLen
  /\ Len(reqData) = BufLen /\ Len(dma) = Mps

\* Port and core agree where an OUT data stage continues, however the one
\* before it ended, and it ends inside the request buffer: the port copies
\* to ep0_cherry_buf, the core counts in ep0_data_buf
\* (usb_dc_ch32h417_usbhs.c:388-399, usbd_core.c:1174-1197).
CopiesWhereCoreCounts ==
  dev.state = "OUT_DATA" /\ dev.rx = "ACK" =>
    /\ dev.copyTo = dev.off /\ dev.residue > 0
    /\ dev.off + dev.residue = dev.setup.len /\ dev.setup.len <= BufLen

\* One DMA buffer serves SETUP, OUT and IN: what an armed IN sends is still
\* the packet it was armed with (CHERRYUSB_PORT_VALIDATION.md:40-41).
ArmedPacketIntact ==
  dev.tx = "ACK" =>
    /\ dev.txLen = Least(dev.residue, Mps)
    /\ SubSeq(dma, 1, dev.txLen) = Rest(reqData, dev.off, dev.txLen)

\* DEV_AD changes only when the status stage of a SET_ADDRESS has completed,
\* or at a bus reset: CHERRYUSB_PORT_VALIDATION.md:42.
AddressAfterStatus ==
  [][dev'.devAd \notin {dev.devAd, 0} =>
       /\ dev.setup.kind = "address" /\ dev'.devAd = dev.setup.addr
       /\ host.stage = "status" /\ host'.stage = "done"]_ep0Vars

\* Device and host come to different addresses in one way only: the last
\* handshake of a SET_ADDRESS was lost.  The host already uses the address,
\* the device still has it pending with its status packet armed, and answers
\* no more until a bus reset brings both to 0 (usb_dc_ch32h417_usbhs.c:449-452).
AddressesDifferOnlyByLoss ==
  \/ dev.devAd = host.addr
  \/ /\ used.lost > 0
     /\ host.req.kind = "address" /\ host.stage = "done"
     /\ dev.pend = host.addr /\ dev.tx = "ACK" /\ dev.state = "IN_STATUS"

\* The control pipe the DFU class relies on: the request handler sees each
\* transfer at most once, with exactly the bytes the host sent for it, and
\* the host sees success only for what the handler accepted, with its answer.
Outcome ==
  IF host.req.id = 0 THEN "refused"
  ELSE IF call.id # host.req.id THEN "open"
  ELSE IF call.ok THEN "accepted" ELSE "refused"
Told == IF Transferring THEN "waiting" ELSE IF host.stage = "done" THEN "done" ELSE "failed"
Mine(value) == IF host.req.id # 0 /\ call.id = host.req.id THEN value ELSE <<>>

PipeRequests ==
  {[id |-> r.id, kind |-> r.kind, len |-> r.len, addr |-> r.addr, in |-> r.kind = "in"] :
     r \in UNION {Requests(i) : i \in 1 .. MaxTransfers}}

Pipe == INSTANCE ControlPipe WITH
  Request <- PipeRequests, Payload <- Payload, Answers <- Answers,
  asked <- IF host.req.id = 0 THEN [id |-> 0]
           ELSE [id |-> host.req.id, kind |-> host.req.kind, len |-> host.req.len,
                 addr |-> host.req.addr, in |-> host.req.kind = "in"],
  outcome <- Outcome, seen <- Mine(call.data), answer <- Mine(call.answer),
  told <- Told, received <- IF host.stage = "done" THEN host.got ELSE <<>>

KeepsPipePromise == Pipe!Spec

\* While the host goes on, a transfer ends - unless the handshake lost is the
\* one of the last data packet, or an OUT request is longer than the buffer:
\* both leave the host with NAK until it gives up.
TransfersFinish ==
  Transferring ~>
    \/ ~Transferring \/ host.cut
    \/ host.req.kind = "out" /\ host.req.len > BufLen
=============================================================================
