----------------------------- MODULE UsbEp0Proofs -----------------------------
(***************************************************************************)
(* What TLAPS proves of endpoint 0: port and core agree on every data      *)
(* stage, the shared DMA buffer is not overwritten while it is armed, and  *)
(* together they keep the promise of ControlPipe, for every packet size,   *)
(* buffer length, set of requests and number of lost handshakes, with a    *)
(* controller that drops repeated OUT packets (DropsRepeats).              *)
(***************************************************************************)
EXTENDS UsbEp0, TLAPS

Byte  == Nat \X Nat
Kinds == {"out", "in", "none", "address"}

RequestType == [id : Nat, kind : Kinds, len : Nat, addr : Addresses \cup {0}]

DevType ==
  [devAd : Addresses \cup {0}, pend : Addresses \cup {0},
   rx : {"ACK", "NAK", "STALL"}, rxTog : {0, 1}, nextRx : {0, 1}, copyTo : Int,
   tx : {"ACK", "NAK", "STALL"}, txTog : {0, 1}, nextTx : {0, 1},
   txLen : 0 .. Mps, left : 0 .. BufLen,
   setup : RequestType,
   state : {"SETUP", "OUT_DATA", "IN_DATA", "IN_STATUS", "OUT_STATUS"},
   off : 0 .. BufLen, residue : Nat, zlp : BOOLEAN]

HostType ==
  [stage : {"idle", "data", "status", "done", "failed"}, req : RequestType,
   sent : Nat, got : Seq(Byte), tog : {0, 1}, addr : Addresses \cup {0}, cut : BOOLEAN]

CallType == [id : Nat, data : Seq(Byte), ok : BOOLEAN, answer : Seq(Byte)]

(***************************************************************************)
(* The inductive invariant.                                                *)
(***************************************************************************)

TypeInv ==
  /\ dev \in DevType /\ host \in HostType /\ call \in CallType
  /\ reqData \in Seq(Byte) /\ Len(reqData) = BufLen
  /\ dma \in Seq(Byte) /\ Len(dma) = Mps
  /\ used \in [transfers : Nat, lost : Nat, resets : Nat]

\* The device's copy of the request is the host's, and calls are never ahead
\* of the host.
Linked ==
  /\ host.stage = "idle" => host.req = NoRequest
  /\ host.stage # "idle" => dev.setup = host.req /\ host.req.id \in 1 .. used.transfers
  /\ host.req.id <= used.transfers /\ call.id <= used.transfers
  /\ host.req.kind # "in" => host.got = <<>>
  /\ (host.req.kind = "out" => host.req.len > 0)
  /\ (host.req.kind \in {"none", "address"} => host.req.len = 0)

\* An armed IN packet is what the core has left to send from where it is.
InArmed ==
  dev.tx = "ACK" =>
    /\ dev.state \in {"IN_DATA", "IN_STATUS"} /\ dev.rx = "NAK"
    /\ dev.left = dev.residue /\ dev.txLen = Least(dev.residue, Mps) /\ dev.txTog = dev.nextTx
    /\ dev.off + dev.residue <= BufLen
    /\ \A i \in 1 .. dev.txLen : dma[i] = reqData[dev.off + i]
    /\ dev.state = "IN_STATUS" => dev.residue = 0 /\ ~dev.zlp
    /\ dev.state = "IN_DATA" => dev.setup.kind = "in"
    /\ dev.zlp => dev.residue > 0 /\ dev.residue % Mps = 0

\* An armed OUT data stage continues where the core counts, after exactly
\* the bytes of this transfer.
OutArmed ==
  dev.state = "OUT_DATA" /\ dev.rx = "ACK" =>
    /\ dev.copyTo = dev.off /\ dev.residue > 0
    /\ dev.off + dev.residue = dev.setup.len /\ dev.setup.len <= BufLen
    /\ dev.setup.kind = "out" /\ dev.rxTog = dev.nextRx /\ dev.tx = "NAK"
    /\ dev.nextTx = 1 /\ ~dev.zlp
    /\ \A i \in 1 .. dev.off : reqData[i] = <<dev.setup.id, i>>

CallDone == call.id = host.req.id

\* The length of the host's next OUT packet, and of the answer it may get.
NextOut == Least(Mps, host.req.len - host.sent)
Size    == Least(Len(call.answer), host.req.len)

\* In an OUT data stage the device refuses, or is where the host is or one
\* packet ahead, as the toggles tell, or has all and the host does not know.
OutData ==
  host.stage = "data" /\ host.req.kind = "out" =>
    /\ host.sent < host.req.len
    /\ \/ ~CallDone /\ dev.rx # "ACK"
       \/ /\ ~CallDone /\ dev.rx = "ACK" /\ dev.state = "OUT_DATA"
          /\ dev.off = IF dev.rxTog = host.tog THEN host.sent ELSE host.sent + NextOut
       \/ CallDone /\ dev.rx # "ACK"

\* A status stage on IN is armed only when the handler accepted.
StatusIn ==
  host.stage = "status" /\ host.req.kind # "in" =>
    /\ CallDone
    /\ dev.tx = "ACK" => call.ok /\ dev.state = "IN_STATUS" /\ dev.txTog = 1

\* In an IN data stage the host has the answer up to where the device is, or
\* one packet more, as the toggles tell; both see the same last packet.
InData ==
  host.stage = "data" /\ host.req.kind = "in" =>
    /\ CallDone
    /\ dev.tx = "ACK" =>
         /\ call.ok
         /\ dev.off + dev.residue = Size
         /\ \A i \in 1 .. Size : reqData[i] = call.answer[i]
         /\ dev.residue > 0 => (dev.zlp <=> Size # host.req.len /\ dev.residue % Mps = 0)
         /\ host.got = SubSeq(call.answer, 1, IF dev.txTog = host.tog THEN dev.off
                                              ELSE dev.off + dev.txLen)
         /\ dev.txTog # host.tog => dev.txLen = Mps /\ dev.off + Mps # host.req.len

\* A host that has its data, or is done, has them from an accepted call.
Taken ==
  (host.stage = "status" /\ host.req.kind = "in") \/ host.stage = "done" =>
    /\ CallDone /\ call.ok
    /\ host.req.kind = "in" => host.got = SubSeq(call.answer, 1, Size)

DeviceInv == InArmed /\ OutArmed
PipeInv   == OutData /\ StatusIn /\ InData /\ Taken

\* All of it needs a controller that drops repeated OUT packets.
Ep0Inv == DropsRepeats /\ TypeInv /\ Linked /\ DeviceInv /\ PipeInv

(***************************************************************************)
(* Lengths, sequences and buffers.                                         *)
(***************************************************************************)

LEMMA Sizes == Mps \in Nat \ {0} /\ BufLen \in Nat \ {0} /\ Mps <= BufLen
  BY Ep0Assumption

LEMMA LeastFacts ==
  ASSUME NEW m \in Nat, NEW n \in Nat
  PROVE  /\ Least(m, n) \in Nat /\ Least(m, n) <= m /\ Least(m, n) <= n
         /\ Least(m, n) = m \/ Least(m, n) = n
  BY DEF Least

\* A full packet taken off a length leaves the remainder of its last packet.
LEMMA Remainder ==
  ASSUME NEW m \in Nat, m > 0, NEW q \in Nat, NEW r \in 0 .. m - 1
  PROVE  (q * m + r) % m = r
  OBVIOUS

LEMMA PacketsLeft ==
  ASSUME NEW n \in Nat
  PROVE  /\ n >= Mps => (n - Mps) % Mps = n % Mps
         /\ n > 0 /\ n % Mps = 0 => n >= Mps
<1>1. Mps \in Nat /\ Mps > 0
  BY Sizes
<1>2. ASSUME n < Mps PROVE n % Mps = n
  BY <1>1, <1>2
<1>3. ASSUME n >= Mps PROVE (n - Mps) % Mps = n % Mps
  <2> DEFINE q == n \div Mps
             r == n % Mps
  <2>1. n = q * Mps + r /\ q \in Nat /\ r \in 0 .. Mps - 1
    BY <1>1
  <2> HIDE DEF q, r
  <2>2. q # 0
    BY <1>1, <1>3, <2>1
  <2>3. q - 1 \in Nat /\ n - Mps = (q - 1) * Mps + r
    BY <1>1, <2>1, <2>2
  <2>4. (n - Mps) % Mps = r
    BY <1>1, <2>1, <2>3, Remainder
  <2> QED
    BY <2>4 DEF r
<1> QED
  BY <1>1, <1>2, <1>3

\* Two sequences of the same elements are one.
LEMMA SameSequence ==
  ASSUME NEW S, NEW s \in Seq(S), NEW t \in Seq(S), Len(s) = Len(t),
         \A i \in 1 .. Len(s) : s[i] = t[i]
  PROVE  s = t
  OBVIOUS

LEMMA RestFacts ==
  ASSUME NEW S, NEW s \in Seq(S), NEW m \in Nat, NEW n \in Nat, m + n <= Len(s)
  PROVE  /\ Rest(s, m, n) \in Seq(S) /\ Len(Rest(s, m, n)) = n
         /\ \A i \in 1 .. n : Rest(s, m, n)[i] = s[m + i]
  BY DEF Rest

LEMMA PrefixFacts ==
  ASSUME NEW S, NEW s \in Seq(S), NEW n \in Nat, n <= Len(s)
  PROVE  /\ SubSeq(s, 1, n) \in Seq(S) /\ Len(SubSeq(s, 1, n)) = n
         /\ \A i \in 1 .. n : SubSeq(s, 1, n)[i] = s[i]
  OBVIOUS

\* A prefix and what follows it make a longer prefix.
LEMMA PrefixGrows ==
  ASSUME NEW S, NEW s \in Seq(S), NEW m \in Nat, NEW n \in Nat, m + n <= Len(s),
         NEW p \in Seq(S), Len(p) = n, \A i \in 1 .. n : p[i] = s[m + i]
  PROVE  SubSeq(s, 1, m) \o p = SubSeq(s, 1, m + n)
<1>1. /\ SubSeq(s, 1, m) \o p \in Seq(S) /\ SubSeq(s, 1, m + n) \in Seq(S)
      /\ Len(SubSeq(s, 1, m) \o p) = m + n /\ Len(SubSeq(s, 1, m + n)) = m + n
  OBVIOUS
<1>2. ASSUME NEW i \in 1 .. m + n
      PROVE  (SubSeq(s, 1, m) \o p)[i] = SubSeq(s, 1, m + n)[i]
  <2>1. CASE i <= m
    BY <2>1
  <2>2. CASE i > m
    <3>1. i - m \in 1 .. n /\ m + (i - m) = i
      BY <2>2
    <3> QED
      BY <2>2, <3>1
  <2> QED
    BY <2>1, <2>2
<1> QED
  BY <1>1, <1>2, SameSequence

LEMMA PutFacts ==
  ASSUME NEW buf \in Seq(Byte), NEW data \in Seq(Byte), NEW at \in Int
  PROVE  /\ Put(buf, at, data) \in Seq(Byte) /\ Len(Put(buf, at, data)) = Len(buf)
         /\ \A i \in 1 .. Len(buf) :
              Put(buf, at, data)[i] = IF i - at \in 1 .. Len(data) THEN data[i - at] ELSE buf[i]
<1>1. Put(buf, at, data) =
        [i \in 1 .. Len(buf) |-> IF i - at \in 1 .. Len(data) THEN data[i - at] ELSE buf[i]]
  BY DEF Put
<1>2. Len(buf) \in Nat
  OBVIOUS
<1>3. \A i \in 1 .. Len(buf) :
        (IF i - at \in 1 .. Len(data) THEN data[i - at] ELSE buf[i]) \in Byte
  OBVIOUS
<1> QED
  BY <1>1, <1>2, <1>3

LEMMA BytesFacts ==
  ASSUME NEW id \in Nat, NEW n \in Nat
  PROVE  /\ Bytes(id, n) \in Seq(Byte) /\ Len(Bytes(id, n)) = n
         /\ \A i \in 1 .. n : Bytes(id, n)[i] = <<id, i>>
<1>1. Bytes(id, n) = [i \in 1 .. n |-> <<id, i>>]
  BY DEF Bytes
<1>2. \A i \in 1 .. n : <<id, i>> \in Byte
  BY DEF Byte
<1> QED
  BY <1>1, <1>2

LEMMA SetupPacketFacts ==
  ASSUME TypeInv, NEW r \in RequestType
  PROVE  SetupPacket(r) \in Seq(Byte) /\ Len(SetupPacket(r)) = Mps
<1> DEFINE p == <<<<r.id, 0>>>>
<1>1. p \in Seq(Byte)
  <2>1. <<r.id, 0>> \in Byte
    BY DEF RequestType, Byte
  <2> QED
    BY <2>1
<1>2. SetupPacket(r) = Put(dma, 0, p)
  BY DEF SetupPacket
<1> HIDE DEF p
<1>3. dma \in Seq(Byte) /\ Len(dma) = Mps
  BY DEF TypeInv
<1> QED
  BY <1>1, <1>2, <1>3, PutFacts

\* A packet put at the front of a buffer it fits in.
LEMMA FrontFacts ==
  ASSUME NEW buf \in Seq(Byte), NEW data \in Seq(Byte), Len(data) <= Len(buf)
  PROVE  /\ Put(buf, 0, data) \in Seq(Byte) /\ Len(Put(buf, 0, data)) = Len(buf)
         /\ \A i \in 1 .. Len(data) : Put(buf, 0, data)[i] = data[i]
<1>1. Len(buf) \in Nat /\ Len(data) \in Nat /\ 0 \in Int
  OBVIOUS
<1>2. Put(buf, 0, data) \in Seq(Byte) /\ Len(Put(buf, 0, data)) = Len(buf)
  BY <1>1, PutFacts
<1>3. ASSUME NEW i \in 1 .. Len(data)
      PROVE  Put(buf, 0, data)[i] = data[i]
  <2>1. i \in 1 .. Len(buf) /\ i - 0 = i
    BY <1>1
  <2> QED
    BY <2>1 DEF Put
<1> QED
  BY <1>2, <1>3

(***************************************************************************)
(* Requests, replies and what a SETUP makes of the device.                 *)
(***************************************************************************)

LEMMA RequestFacts ==
  ASSUME NEW n \in Nat, NEW r \in Requests(n)
  PROVE  /\ r \in RequestType /\ r.id = n
         /\ r.kind \in {"out", "in"} => r.len > 0
         /\ r.kind \in {"none", "address"} => r.len = 0
         /\ r.kind = "address" => r.addr > 0
  BY Ep0Assumption DEF Requests, RequestType, Kinds

LEMMA ReplyFacts ==
  ASSUME NEW r \in RequestType, NEW reply \in Replies(r)
  PROVE  /\ reply.ok \in BOOLEAN /\ reply.answer \in Seq(Byte)
         /\ reply.answer \in Answers(r)
         /\ r.kind # "in" => reply.answer = <<>>
         /\ r.kind = "address" => reply.ok
<1>1. /\ reply.ok \in BOOLEAN /\ reply.answer \in Answers(r)
      /\ r.kind = "address" => reply.ok
  BY DEF Replies
<1>2. CASE r.kind = "in"
  <2>1. PICK n \in AnswerLens : reply.answer = Bytes(r.id, n)
    BY <1>1, <1>2 DEF Answers
  <2>2. n \in Nat /\ r.id \in Nat
    BY Ep0Assumption DEF RequestType
  <2>3. reply.answer \in Seq(Byte)
    BY <2>1, <2>2, BytesFacts
  <2> QED
    BY <1>1, <1>2, <2>3
<1>3. CASE r.kind # "in"
  <2>1. reply.answer = <<>>
    BY <1>1, <1>3 DEF Answers
  <2>2. <<>> \in Seq(Byte)
    OBVIOUS
  <2> QED
    BY <1>1, <1>3, <2>1, <2>2
<1> QED
  BY <1>2, <1>3

\* The handler's call is typed when its data are.
LEMMA CalledFacts ==
  ASSUME NEW r \in RequestType, NEW data \in Seq(Byte), NEW reply \in Replies(r)
  PROVE  Called(r, data, reply) \in CallType
  BY ReplyFacts DEF Called, CallType, RequestType

\* The device after the port took a SETUP: both directions aborted.
LEMMA ReceivedFacts ==
  ASSUME NEW d \in DevType, NEW r \in RequestType
  PROVE  /\ Received(d, r) \in DevType
         /\ Received(d, r).setup = r /\ Received(d, r).rx = "NAK" /\ Received(d, r).tx = "NAK"
         /\ Received(d, r).nextRx = 1 /\ Received(d, r).nextTx = 1
         /\ Received(d, r).devAd = d.devAd /\ Received(d, r).pend = d.pend
  BY DEF Received, DevType

LEMMA BegunFacts ==
  ASSUME NEW d \in DevType, NEW r \in RequestType
  PROVE  LET e == Begin(Received(d, r), r)
         IN  /\ e \in DevType /\ e.setup = r /\ e.rx = "NAK" /\ e.tx = "NAK"
             /\ e.nextRx = 1 /\ e.nextTx = 1 /\ e.off = 0 /\ e.residue = r.len /\ e.zlp = FALSE
             /\ e.devAd = d.devAd /\ e.pend = d.pend
<1> DEFINE c == Received(d, r)
<1>1. /\ c \in DevType /\ c.setup = r /\ c.rx = "NAK" /\ c.tx = "NAK"
      /\ c.nextRx = 1 /\ c.nextTx = 1 /\ c.devAd = d.devAd /\ c.pend = d.pend
  BY ReceivedFacts
<1> HIDE DEF c
<1>2. /\ Begin(c, r) \in DevType /\ Begin(c, r).setup = r /\ Begin(c, r).rx = "NAK"
      /\ Begin(c, r).tx = "NAK" /\ Begin(c, r).nextRx = 1 /\ Begin(c, r).nextTx = 1
      /\ Begin(c, r).off = 0 /\ Begin(c, r).residue = r.len /\ Begin(c, r).zlp = FALSE
      /\ Begin(c, r).devAd = d.devAd /\ Begin(c, r).pend = d.pend
  <2>1. 0 \in 0 .. BufLen /\ r.len \in Nat
    BY Sizes DEF RequestType
  <2> QED
    BY <1>1, <2>1 DEF Begin, DevType
<1> QED
  BY <1>2 DEF c

LEMMA OversizeFacts ==
  ASSUME TypeInv, NEW r \in RequestType, SetupOversize(r)
  PROVE  /\ dev' \in DevType /\ dev'.setup = r /\ dev'.rx = "NAK" /\ dev'.tx = "STALL"
         /\ dev'.devAd = dev.devAd /\ dev'.pend = dev.pend
         /\ dma' = SetupPacket(r) /\ UNCHANGED <<reqData, call>> /\ r.kind = "out"
<1> DEFINE c == Received(dev, r)
<1>1. /\ c \in DevType /\ c.setup = r /\ c.rx = "NAK" /\ c.devAd = dev.devAd
      /\ c.pend = dev.pend
  BY ReceivedFacts DEF TypeInv
<1>2. /\ dev' = StallIn(c) /\ dma' = SetupPacket(r) /\ UNCHANGED <<reqData, call>>
      /\ r.kind = "out"
  BY DEF SetupOversize
<1> HIDE DEF c
<1> QED
  BY <1>1, <1>2 DEF StallIn, DevType

\* StartRead arms the OUT direction; a status stage expects DATA1.
LEMMA StartReadFacts ==
  ASSUME NEW d \in DevType, NEW off \in Int, NEW n \in Nat
  PROVE  LET e == StartRead(d, off, n)
         IN  /\ e \in DevType /\ e.copyTo = off /\ e.rx = "ACK"
             /\ e.rxTog = IF n = 0 THEN 1 ELSE d.nextRx
             /\ e.nextRx = d.nextRx /\ e.tx = d.tx /\ e.state = d.state
             /\ e.setup = d.setup /\ e.off = d.off /\ e.residue = d.residue /\ e.zlp = d.zlp
             /\ e.nextTx = d.nextTx /\ e.devAd = d.devAd /\ e.pend = d.pend
<1> DEFINE t == IF n = 0 THEN 1 ELSE d.nextRx
           c == [d EXCEPT !.copyTo = off]
<1>1. t \in {0, 1}
  BY DEF DevType
<1>2. /\ c \in DevType /\ c.copyTo = off /\ c.nextRx = d.nextRx /\ c.tx = d.tx
      /\ c.state = d.state /\ c.nextTx = d.nextTx
      /\ c.setup = d.setup /\ c.off = d.off /\ c.residue = d.residue /\ c.zlp = d.zlp
      /\ c.devAd = d.devAd /\ c.pend = d.pend
  BY DEF DevType
<1>3. StartRead(d, off, n) = [c EXCEPT !.rx = "ACK", !.rxTog = t]
  BY DEF StartRead, DevType
<1> HIDE DEF c, t
<1>4. /\ [c EXCEPT !.rx = "ACK", !.rxTog = t] \in DevType
      /\ LET e == [c EXCEPT !.rx = "ACK", !.rxTog = t]
         IN  /\ e.rx = "ACK" /\ e.rxTog = t /\ e.copyTo = off
             /\ e.nextRx = c.nextRx /\ e.tx = c.tx /\ e.state = c.state /\ e.nextTx = c.nextTx
             /\ e.setup = c.setup /\ e.off = c.off /\ e.residue = c.residue /\ e.zlp = c.zlp
             /\ e.devAd = c.devAd /\ e.pend = c.pend
  BY <1>1, <1>2 DEF DevType
<1> QED
  BY <1>2, <1>3, <1>4 DEF t

LEMMA SetupOutFacts ==
  ASSUME TypeInv, NEW r \in RequestType, r.len > 0, SetupOut(r)
  PROVE  /\ dev' \in DevType /\ dev'.setup = r /\ dev'.rx = "ACK" /\ dev'.tx = "NAK"
         /\ dev'.state = "OUT_DATA" /\ dev'.off = 0 /\ dev'.copyTo = 0 /\ dev'.residue = r.len
         /\ dev'.rxTog = 1 /\ dev'.nextRx = 1 /\ dev'.nextTx = 1 /\ dev'.zlp = FALSE
         /\ dev'.devAd = dev.devAd /\ dev'.pend = dev.pend
         /\ dma' = SetupPacket(r) /\ UNCHANGED <<reqData, call>>
         /\ r.kind = "out" /\ r.len <= BufLen
<1> DEFINE c == Begin(Received(dev, r), r)
<1>1. /\ c \in DevType /\ c.setup = r /\ c.rx = "NAK" /\ c.tx = "NAK"
      /\ c.nextRx = 1 /\ c.nextTx = 1 /\ c.zlp = FALSE /\ c.off = 0 /\ c.residue = r.len
      /\ c.devAd = dev.devAd /\ c.pend = dev.pend
  BY BegunFacts DEF TypeInv
<1>2. /\ dev' = StartRead([c EXCEPT !.state = "OUT_DATA"], 0, r.len)
      /\ dma' = SetupPacket(r) /\ UNCHANGED <<reqData, call>>
      /\ r.kind = "out" /\ r.len <= BufLen
  BY DEF SetupOut
<1> HIDE DEF c
<1> DEFINE e == [c EXCEPT !.state = "OUT_DATA"]
<1>3. /\ e \in DevType /\ e.setup = r /\ e.tx = "NAK" /\ e.state = "OUT_DATA"
      /\ e.nextRx = 1 /\ e.nextTx = 1 /\ e.zlp = FALSE /\ e.off = 0 /\ e.residue = r.len
      /\ e.devAd = dev.devAd /\ e.pend = dev.pend
  BY <1>1 DEF DevType
<1>4. dev' = StartRead(e, 0, r.len) /\ r.len # 0
  BY <1>2 DEF RequestType
<1> HIDE DEF e
<1>5. r.len \in Nat /\ 0 \in Int
  BY DEF RequestType
<1>6. /\ dev' \in DevType /\ dev'.copyTo = 0 /\ dev'.rx = "ACK" /\ dev'.rxTog = e.nextRx
      /\ dev'.nextRx = e.nextRx /\ dev'.tx = e.tx /\ dev'.state = e.state
      /\ dev'.setup = e.setup /\ dev'.off = e.off /\ dev'.residue = e.residue
      /\ dev'.devAd = e.devAd /\ dev'.pend = e.pend
      /\ dev'.nextTx = e.nextTx /\ dev'.zlp = e.zlp
  BY <1>3, <1>4, <1>5, StartReadFacts
<1> QED
  BY <1>2, <1>3, <1>6

\* StartWrite arms the first packet of n bytes.
LEMMA StartWriteFacts ==
  ASSUME NEW d \in DevType, NEW n \in 0 .. BufLen
  PROVE  LET e == StartWrite(d, n)
         IN  /\ e \in DevType /\ e.tx = "ACK" /\ e.left = n /\ e.txLen = Least(n, Mps)
             /\ e.txTog = d.nextTx /\ e.nextTx = d.nextTx
             /\ e.rx = d.rx /\ e.state = d.state /\ e.setup = d.setup /\ e.off = d.off
             /\ e.residue = d.residue /\ e.zlp = d.zlp /\ e.devAd = d.devAd /\ e.pend = d.pend
<1>1. Least(n, Mps) \in 0 .. Mps
  BY Sizes, LeastFacts
<1> QED
  BY <1>1 DEF StartWrite, DevType

LEMMA SetAddressFacts ==
  ASSUME NEW d \in DevType, NEW r \in RequestType
  PROVE  LET e == SetAddress(d, r)
         IN  /\ e \in DevType /\ e.setup = d.setup /\ e.rx = d.rx /\ e.tx = d.tx
             /\ e.nextRx = d.nextRx /\ e.nextTx = d.nextTx /\ e.off = d.off
             /\ e.residue = d.residue /\ e.zlp = d.zlp /\ e.devAd = d.devAd
             /\ e.pend = IF r.kind = "address" THEN r.addr ELSE d.pend
  BY DEF SetAddress, DevType, RequestType

\* The answer is armed from the start of the request buffer.
LEMMA AnswerFacts ==
  ASSUME NEW d \in DevType, NEW r \in RequestType, NEW reply, reply.answer \in Seq(Byte),
         Least(Len(reply.answer), r.len) <= BufLen
  PROVE  LET e == Answer(d, r, reply)
             n == Least(Len(reply.answer), r.len)
         IN  /\ e \in DevType /\ e.tx = "ACK" /\ e.left = n /\ e.txLen = Least(n, Mps)
             /\ e.txTog = d.nextTx /\ e.nextTx = d.nextTx /\ e.residue = n
             /\ e.state = IF n > 0 THEN "IN_DATA" ELSE "IN_STATUS"
             /\ e.zlp <=> Len(reply.answer) > 0 /\ r.len > Len(reply.answer)
                           /\ Len(reply.answer) % Mps = 0
             /\ e.rx = d.rx /\ e.setup = d.setup /\ e.off = d.off
             /\ e.devAd = d.devAd /\ e.pend = d.pend
<1> DEFINE n == Least(Len(reply.answer), r.len)
           c == [d EXCEPT !.residue = n, !.state = IF n > 0 THEN "IN_DATA" ELSE "IN_STATUS"]
           s == StartWrite(c, n)
           z == (Len(reply.answer) > 0 /\ r.len > Len(reply.answer)
                           /\ Len(reply.answer) % Mps = 0)
<1>1. n \in 0 .. BufLen /\ n \in Nat
  <2>1. Len(reply.answer) \in Nat /\ r.len \in Nat
    BY DEF RequestType
  <2>2. Least(Len(reply.answer), r.len) \in Nat
    BY <2>1, LeastFacts
  <2> QED
    BY <2>2, Sizes
<1> HIDE DEF n
<1>2. /\ c \in DevType /\ c.residue = n /\ c.state = IF n > 0 THEN "IN_DATA" ELSE "IN_STATUS"
      /\ c.nextTx = d.nextTx /\ c.rx = d.rx /\ c.setup = d.setup /\ c.off = d.off
      /\ c.devAd = d.devAd /\ c.pend = d.pend
  BY <1>1 DEF DevType
<1> HIDE DEF c
<1>3. /\ s \in DevType /\ s.tx = "ACK" /\ s.left = n /\ s.txLen = Least(n, Mps)
      /\ s.txTog = d.nextTx /\ s.nextTx = d.nextTx /\ s.residue = n
      /\ s.state = IF n > 0 THEN "IN_DATA" ELSE "IN_STATUS"
      /\ s.rx = d.rx /\ s.setup = d.setup /\ s.off = d.off
      /\ s.devAd = d.devAd /\ s.pend = d.pend
  BY <1>1, <1>2, StartWriteFacts
<1>4. Answer(d, r, reply) = [s EXCEPT !.zlp = z]
  BY DEF Answer, s, c, n
<1> HIDE DEF s
<1>5. z \in BOOLEAN
  BY DEF RequestType
<1> HIDE DEF z
<1>6. LET e == [s EXCEPT !.zlp = z]
      IN /\ e \in DevType /\ e.tx = "ACK" /\ e.left = n /\ e.txLen = Least(n, Mps)
         /\ e.txTog = d.nextTx /\ e.nextTx = d.nextTx /\ e.residue = n
         /\ e.state = IF n > 0 THEN "IN_DATA" ELSE "IN_STATUS"
         /\ e.zlp <=> z
         /\ e.rx = d.rx /\ e.setup = d.setup /\ e.off = d.off
         /\ e.devAd = d.devAd /\ e.pend = d.pend
  BY <1>3, <1>5 DEF DevType
<1> QED
  BY <1>4, <1>6 DEF n, z

\* What the request handler makes of the device when there is no OUT data
\* stage: its answer is armed, or the request is refused.
LEMMA HandledFacts ==
  ASSUME TypeInv, NEW r \in RequestType, NEW reply \in Replies(r), SetupHandled(r, reply)
  PROVE  LET n == Least(Len(reply.answer), r.len)
         IN  /\ r.kind # "out" /\ call' = Called(r, <<>>, reply) /\ n \in Nat
             /\ dev' \in DevType /\ dev'.setup = r /\ dev'.rx = "NAK"
             /\ dev'.devAd = dev.devAd
             /\ dev'.pend = IF r.kind = "address" THEN r.addr ELSE dev.pend
             /\ reqData' \in Seq(Byte) /\ Len(reqData') = BufLen
             /\ dma' \in Seq(Byte) /\ Len(dma') = Mps
             /\ \/ /\ ~(reply.ok /\ n <= BufLen) /\ dev'.tx = "STALL"
                \/ /\ reply.ok /\ n <= BufLen /\ dev'.tx = "ACK"
                   /\ dev'.state = IF n > 0 THEN "IN_DATA" ELSE "IN_STATUS"
                   /\ dev'.left = n /\ dev'.residue = n /\ dev'.off = 0
                   /\ dev'.txLen = Least(n, Mps) /\ dev'.txTog = 1 /\ dev'.nextTx = 1
                   /\ dev'.zlp <=> Len(reply.answer) > 0 /\ r.len > Len(reply.answer)
                                    /\ Len(reply.answer) % Mps = 0
                   /\ \A i \in 1 .. n : reqData'[i] = reply.answer[i]
                   /\ \A i \in 1 .. dev'.txLen : dma'[i] = reqData'[i]
<1> DEFINE n == Least(Len(reply.answer), r.len)
           c == Begin(Received(dev, r), r)
           d == SetAddress(c, r)
           b == reqData'
           copied == IF reply.ok /\ n <= BufLen
                     THEN Put(reqData, 0, SubSeq(reply.answer, 1, n)) ELSE reqData
           k == Least(n, Mps)
<1>0. /\ dev \in DevType /\ reqData \in Seq(Byte) /\ Len(reqData) = BufLen
      /\ dma \in Seq(Byte) /\ Len(dma) = Mps /\ Mps \in Nat /\ BufLen \in Nat /\ Mps <= BufLen
  BY Sizes DEF TypeInv
<1>1. reply.ok \in BOOLEAN /\ reply.answer \in Seq(Byte)
  BY ReplyFacts
<1>2. n \in Nat /\ n <= Len(reply.answer)
  <2>1. Len(reply.answer) \in Nat /\ r.len \in Nat
    BY <1>1 DEF RequestType
  <2> QED
    BY <2>1, LeastFacts
<1>3. /\ c \in DevType /\ c.setup = r /\ c.rx = "NAK" /\ c.tx = "NAK"
      /\ c.nextTx = 1 /\ c.off = 0 /\ c.zlp = FALSE
      /\ c.devAd = dev.devAd /\ c.pend = dev.pend
  BY <1>0, BegunFacts
<1> HIDE DEF c
<1>4. /\ d \in DevType /\ d.setup = r /\ d.rx = "NAK" /\ d.nextTx = 1 /\ d.off = 0
      /\ d.zlp = FALSE /\ d.devAd = dev.devAd
      /\ d.pend = IF r.kind = "address" THEN r.addr ELSE dev.pend
  BY <1>3, SetAddressFacts
<1>5. /\ r.kind # "out" /\ call' = Called(r, <<>>, reply)
      /\ b = Put(reqData, 0, reply.answer) \/ b = copied
      /\ \/ /\ reply.ok /\ n <= BufLen
            /\ dma' = Put(SetupPacket(r), 0, SubSeq(b, 1, k))
            /\ dev' = Answer(d, r, reply)
         \/ /\ ~(reply.ok /\ n <= BufLen)
            /\ dev' = StallIn([d EXCEPT !.state = "SETUP", !.residue = IF reply.ok THEN n ELSE @])
            /\ dma' = SetupPacket(r)
  BY DEF SetupHandled, n, d, c, b, copied, k
<1> HIDE DEF d
<1>6. CASE ~(reply.ok /\ n <= BufLen)
  <2> DEFINE v == IF reply.ok THEN n ELSE d.residue
             e == [d EXCEPT !.state = "SETUP", !.residue = v]
  <2>0. v \in Nat
    BY <1>2, <1>4 DEF DevType
  <2>1. /\ e \in DevType /\ e.setup = r /\ e.rx = "NAK" /\ e.devAd = d.devAd /\ e.pend = d.pend
    <3> HIDE DEF v
    <3> QED
      BY <1>4, <2>0 DEF DevType
  <2>2. dev' = StallIn(e)
    BY <1>4, <1>5, <1>6 DEF DevType
  <2> HIDE DEF e
  <2>3. /\ dev' \in DevType /\ dev'.setup = r /\ dev'.rx = "NAK" /\ dev'.tx = "STALL"
        /\ dev'.devAd = d.devAd /\ dev'.pend = d.pend
    BY <2>1, <2>2 DEF StallIn, DevType
  <2>4. SetupPacket(r) \in Seq(Byte) /\ Len(SetupPacket(r)) = Mps
    BY SetupPacketFacts
  <2>5. reqData' \in Seq(Byte) /\ Len(reqData') = BufLen
    <3>1. Put(reqData, 0, reply.answer) \in Seq(Byte)
          /\ Len(Put(reqData, 0, reply.answer)) = BufLen
      BY <1>0, <1>1, PutFacts
    <3> QED
      BY <1>0, <1>5, <1>6, <3>1 DEF b, copied
  <2> QED
    BY <1>2, <1>4, <1>5, <1>6, <2>3, <2>4, <2>5
<1>7. CASE reply.ok /\ n <= BufLen
  <2>1. dev' = Answer(d, r, reply) /\ dma' = Put(SetupPacket(r), 0, SubSeq(b, 1, k))
    BY <1>5, <1>7
  <2>2. /\ dev' \in DevType /\ dev'.tx = "ACK" /\ dev'.left = n /\ dev'.txLen = k
        /\ dev'.txTog = 1 /\ dev'.nextTx = 1 /\ dev'.residue = n
        /\ dev'.state = IF n > 0 THEN "IN_DATA" ELSE "IN_STATUS"
        /\ dev'.zlp <=> Len(reply.answer) > 0 /\ r.len > Len(reply.answer)
                         /\ Len(reply.answer) % Mps = 0
        /\ dev'.rx = "NAK" /\ dev'.setup = r /\ dev'.off = 0
        /\ dev'.devAd = d.devAd /\ dev'.pend = d.pend
    <3> DEFINE e == Answer(d, r, reply)
    <3>1. Least(Len(reply.answer), r.len) <= BufLen
      BY <1>7
    <3>2. /\ e \in DevType /\ e.tx = "ACK" /\ e.left = n /\ e.txLen = k
          /\ e.txTog = d.nextTx /\ e.nextTx = d.nextTx /\ e.residue = n
          /\ e.state = IF n > 0 THEN "IN_DATA" ELSE "IN_STATUS"
          /\ e.rx = d.rx /\ e.setup = d.setup /\ e.off = d.off
          /\ e.devAd = d.devAd /\ e.pend = d.pend
      BY <1>1, <1>4, <3>1, AnswerFacts
    <3>3. e.zlp <=> Len(reply.answer) > 0 /\ r.len > Len(reply.answer)
                      /\ Len(reply.answer) % Mps = 0
      BY <1>1, <1>4, <3>1, AnswerFacts
    <3>4. dev' = e
      BY <2>1
    <3> HIDE DEF e
    <3> QED
      BY <1>4, <3>2, <3>3, <3>4
  <2>3. k \in Nat /\ k <= n /\ k <= Mps
    BY <1>0, <1>2, LeastFacts
  <2> HIDE DEF k, n
  <2>4. SubSeq(reply.answer, 1, n) \in Seq(Byte) /\ Len(SubSeq(reply.answer, 1, n)) = n
        /\ \A i \in 1 .. n : SubSeq(reply.answer, 1, n)[i] = reply.answer[i]
    BY <1>1, <1>2, PrefixFacts
  <2>5. /\ b \in Seq(Byte) /\ Len(b) = BufLen
        /\ \A i \in 1 .. n : b[i] = reply.answer[i]
    <3>1. CASE b = Put(reqData, 0, reply.answer)
      <4>1. b \in Seq(Byte) /\ Len(b) = BufLen
        BY <1>0, <1>1, <3>1, PutFacts
      <4>2. ASSUME NEW i \in 1 .. n PROVE b[i] = reply.answer[i]
        <5>1. i \in 1 .. Len(reqData) /\ i - 0 = i /\ i \in 1 .. Len(reply.answer)
          BY <1>0, <1>1, <1>2, <1>7
        <5> QED
          BY <3>1, <5>1 DEF Put
      <4> QED
        BY <4>1, <4>2
    <3>2. CASE b = copied
      <4> DEFINE p == SubSeq(reply.answer, 1, n)
      <4>1. p \in Seq(Byte) /\ Len(p) <= Len(reqData) /\ b = Put(reqData, 0, p)
        BY <1>0, <1>7, <2>4, <3>2
      <4> HIDE DEF p, b, copied
      <4>2. /\ b \in Seq(Byte) /\ Len(b) = BufLen
            /\ \A i \in 1 .. Len(p) : b[i] = p[i]
        BY <1>0, <4>1, FrontFacts
      <4> QED
        BY <2>4, <4>2 DEF p
    <3> HIDE DEF b, copied
    <3> QED
      BY <1>5, <3>1, <3>2
  <2>9. reqData' = b
    OBVIOUS
  <2> HIDE DEF b
  <2>6. SubSeq(b, 1, k) \in Seq(Byte) /\ Len(SubSeq(b, 1, k)) = k
        /\ \A i \in 1 .. k : SubSeq(b, 1, k)[i] = b[i]
    BY <1>0, <1>2, <1>7, <2>3, <2>5, PrefixFacts
  <2>7. /\ dma' \in Seq(Byte) /\ Len(dma') = Mps
        /\ \A i \in 1 .. k : dma'[i] = b[i]
    <3>1. SetupPacket(r) \in Seq(Byte) /\ Len(SetupPacket(r)) = Mps
      BY SetupPacketFacts
    <3> DEFINE p == SubSeq(b, 1, k)
               q == SetupPacket(r)
    <3>2. p \in Seq(Byte) /\ Len(p) = k /\ dma' = Put(q, 0, p) /\ q \in Seq(Byte) /\ Len(q) = Mps
      BY <2>1, <2>6, <3>1
    <3> HIDE DEF p, q
    <3>3. /\ dma' \in Seq(Byte) /\ Len(dma') = Mps
          /\ \A i \in 1 .. Len(p) : dma'[i] = p[i]
      BY <2>3, <3>2, FrontFacts
    <3> QED
      BY <2>6, <3>2, <3>3 DEF p
  <2>8. /\ \A i \in 1 .. n : reqData'[i] = reply.answer[i]
        /\ \A i \in 1 .. dev'.txLen : dma'[i] = reqData'[i]
    BY <2>1, <2>2, <2>5, <2>7, <2>9
  <2> QED
    BY <1>0, <1>2, <1>4, <1>5, <1>7, <2>1, <2>2, <2>5, <2>7, <2>8, <2>9 DEF n, k
<1> QED
  BY <1>6, <1>7

(***************************************************************************)
(* A SETUP keeps the invariant.                                            *)
(***************************************************************************)

\* What the host's side of a SETUP is.
HostAsks(r) ==
  /\ used' = [used EXCEPT !.transfers = @ + 1]
  /\ host' = [InitHost EXCEPT !.stage = IF r.len > 0 THEN "data" ELSE "status",
                              !.req = r, !.addr = host.addr]

LEMMA AskFacts ==
  ASSUME TypeInv, Linked, NEW r \in Requests(used.transfers + 1), HostAsks(r)
  PROVE  /\ r \in RequestType /\ r.id = used.transfers + 1
         /\ call.id < r.id /\ used.transfers \in Nat
         /\ used' \in [transfers : Nat, lost : Nat, resets : Nat]
         /\ used'.transfers = r.id
         /\ host' \in HostType /\ host'.req = r /\ host'.sent = 0 /\ host'.got = <<>>
         /\ host'.tog = 1 /\ host'.stage = IF r.kind \in {"out", "in"} THEN "data" ELSE "status"
         /\ r.kind \in {"out", "in"} => r.len > 0
         /\ r.kind \in {"none", "address"} => r.len = 0
         /\ r.kind = "address" => r.addr > 0
         /\ host'.addr = host.addr
<1>1. /\ used \in [transfers : Nat, lost : Nat, resets : Nat] /\ host \in HostType
      /\ call.id <= used.transfers /\ call.id \in Nat
  BY DEF TypeInv, Linked, CallType
<1>2. used.transfers + 1 \in Nat
  BY <1>1
<1>3. /\ r \in RequestType /\ r.id = used.transfers + 1
      /\ r.kind \in {"out", "in"} => r.len > 0
      /\ r.kind \in {"none", "address"} => r.len = 0
      /\ r.kind = "address" => r.addr > 0
  BY <1>2, RequestFacts
<1>4. r.kind \in Kinds /\ r.len \in Nat
  BY <1>3 DEF RequestType
<1>5. (r.len > 0) = (r.kind \in {"out", "in"})
  BY <1>3, <1>4 DEF Kinds
<1>6. /\ used' \in [transfers : Nat, lost : Nat, resets : Nat]
      /\ used'.transfers = used.transfers + 1
  BY <1>1 DEF HostAsks
<1>7. /\ host' = [InitHost EXCEPT !.stage = IF r.kind \in {"out", "in"} THEN "data" ELSE "status",
                                  !.req = r, !.addr = host.addr]
  BY <1>5 DEF HostAsks
<1>8. /\ host' = [stage |-> IF r.kind \in {"out", "in"} THEN "data" ELSE "status",
                  req |-> r, sent |-> 0, got |-> <<>>, tog |-> 1,
                  addr |-> host.addr, cut |-> FALSE]
  BY <1>7 DEF InitHost
<1>9. host.addr \in Addresses \cup {0} /\ <<>> \in Seq(Byte)
  BY <1>1 DEF HostType
<1>10. host' \in HostType
  BY <1>3, <1>8, <1>9 DEF HostType
<1>11. /\ host'.req = r /\ host'.sent = 0 /\ host'.got = <<>>
       /\ host'.tog = 1 /\ host'.stage = IF r.kind \in {"out", "in"} THEN "data" ELSE "status"
       /\ host'.addr = host.addr
  BY <1>8
<1> QED
  BY <1>1, <1>3, <1>6, <1>10, <1>11

LEMMA SetupOversizeKeeps ==
  ASSUME Ep0Inv, NEW r \in Requests(used.transfers + 1), HostAsks(r), SetupOversize(r)
  PROVE  Ep0Inv'
<1>1. /\ r \in RequestType /\ r.id = used.transfers + 1
      /\ call.id < r.id /\ used.transfers \in Nat
      /\ used' \in [transfers : Nat, lost : Nat, resets : Nat]
      /\ used'.transfers = r.id
      /\ host' \in HostType /\ host'.req = r /\ host'.sent = 0 /\ host'.got = <<>>
      /\ host'.stage = IF r.kind \in {"out", "in"} THEN "data" ELSE "status"
      /\ r.kind \in {"out", "in"} => r.len > 0
  BY AskFacts DEF Ep0Inv
<1>2. /\ dev' \in DevType /\ dev'.setup = r /\ dev'.rx = "NAK" /\ dev'.tx = "STALL"
      /\ dma' = SetupPacket(r) /\ UNCHANGED <<reqData, call>> /\ r.kind = "out"
  BY <1>1, OversizeFacts DEF Ep0Inv
<1>3. SetupPacket(r) \in Seq(Byte) /\ Len(SetupPacket(r)) = Mps
  BY <1>1, SetupPacketFacts DEF Ep0Inv
<1>4. TypeInv'
  BY <1>1, <1>2, <1>3 DEF Ep0Inv, TypeInv
<1>5. Linked'
  BY <1>1, <1>2 DEF Linked, Ep0Inv, TypeInv, CallType
<1>6. DeviceInv'
  BY <1>2 DEF DeviceInv, InArmed, OutArmed
<1>7. PipeInv'
  BY <1>1, <1>2 DEF PipeInv, OutData, StatusIn, InData, Taken, CallDone
<1> QED
  BY <1>4, <1>5, <1>6, <1>7 DEF Ep0Inv

LEMMA SetupOutKeeps ==
  ASSUME Ep0Inv, NEW r \in Requests(used.transfers + 1), HostAsks(r), SetupOut(r)
  PROVE  Ep0Inv'
<1>1. /\ r \in RequestType /\ r.id = used.transfers + 1
      /\ call.id < r.id /\ used.transfers \in Nat
      /\ used' \in [transfers : Nat, lost : Nat, resets : Nat]
      /\ used'.transfers = r.id
      /\ host' \in HostType /\ host'.req = r /\ host'.sent = 0 /\ host'.got = <<>>
      /\ host'.tog = 1
      /\ host'.stage = IF r.kind \in {"out", "in"} THEN "data" ELSE "status"
      /\ r.kind \in {"out", "in"} => r.len > 0
  BY AskFacts DEF Ep0Inv
<1>0. r.len > 0
  BY <1>1 DEF SetupOut
<1>2. /\ dev' \in DevType /\ dev'.setup = r /\ dev'.rx = "ACK" /\ dev'.tx = "NAK"
      /\ dev'.state = "OUT_DATA" /\ dev'.off = 0 /\ dev'.copyTo = 0 /\ dev'.residue = r.len
      /\ dev'.rxTog = 1 /\ dev'.nextRx = 1 /\ dev'.nextTx = 1 /\ dev'.zlp = FALSE
      /\ dma' = SetupPacket(r) /\ UNCHANGED <<reqData, call>>
      /\ r.kind = "out" /\ r.len <= BufLen
  BY <1>0, <1>1, SetupOutFacts DEF Ep0Inv
<1>3. SetupPacket(r) \in Seq(Byte) /\ Len(SetupPacket(r)) = Mps
  BY <1>1, SetupPacketFacts DEF Ep0Inv
<1>4. TypeInv'
  BY <1>1, <1>2, <1>3 DEF Ep0Inv, TypeInv
<1>5. Linked'
  BY <1>1, <1>2 DEF Linked, Ep0Inv, TypeInv, CallType
<1>6. DeviceInv'
  BY <1>0, <1>1, <1>2 DEF DeviceInv, InArmed, OutArmed, RequestType
<1>7. PipeInv'
  BY <1>0, <1>1, <1>2 DEF PipeInv, OutData, StatusIn, InData, Taken, CallDone
<1> QED
  BY <1>4, <1>5, <1>6, <1>7 DEF Ep0Inv

LEMMA SetupHandledKeeps ==
  ASSUME Ep0Inv, NEW r \in Requests(used.transfers + 1), HostAsks(r),
         NEW reply \in Replies(r), SetupHandled(r, reply)
  PROVE  Ep0Inv'
<1> DEFINE n == Least(Len(reply.answer), r.len)
<1>1. /\ r \in RequestType /\ r.id = used.transfers + 1 /\ used.transfers \in Nat
      /\ used' \in [transfers : Nat, lost : Nat, resets : Nat]
      /\ used'.transfers = r.id
      /\ host' \in HostType /\ host'.req = r /\ host'.sent = 0 /\ host'.got = <<>>
      /\ host'.tog = 1
      /\ host'.stage = IF r.kind \in {"out", "in"} THEN "data" ELSE "status"
      /\ r.kind \in {"out", "in"} => r.len > 0
      /\ r.kind \in {"none", "address"} => r.len = 0
  BY AskFacts DEF Ep0Inv
<1>2. /\ r.kind # "out" /\ call' = Called(r, <<>>, reply) /\ n \in Nat
      /\ dev' \in DevType /\ dev'.setup = r /\ dev'.rx = "NAK"
      /\ reqData' \in Seq(Byte) /\ Len(reqData') = BufLen
      /\ dma' \in Seq(Byte) /\ Len(dma') = Mps
      /\ \/ /\ ~(reply.ok /\ n <= BufLen) /\ dev'.tx = "STALL"
         \/ /\ reply.ok /\ n <= BufLen /\ dev'.tx = "ACK"
            /\ dev'.state = IF n > 0 THEN "IN_DATA" ELSE "IN_STATUS"
            /\ dev'.left = n /\ dev'.residue = n /\ dev'.off = 0
            /\ dev'.txLen = Least(n, Mps) /\ dev'.txTog = 1 /\ dev'.nextTx = 1
            /\ dev'.zlp <=> Len(reply.answer) > 0 /\ r.len > Len(reply.answer)
                             /\ Len(reply.answer) % Mps = 0
            /\ \A i \in 1 .. n : reqData'[i] = reply.answer[i]
            /\ \A i \in 1 .. dev'.txLen : dma'[i] = reqData'[i]
  BY <1>1, HandledFacts DEF Ep0Inv
<1>3. /\ reply.ok \in BOOLEAN /\ reply.answer \in Seq(Byte)
      /\ r.kind # "in" => reply.answer = <<>>
  BY <1>1, ReplyFacts
<1>4. /\ call' \in CallType /\ call'.id = r.id /\ call'.answer = reply.answer
      /\ call'.ok = reply.ok
  <2>1. <<>> \in Seq(Byte)
    OBVIOUS
  <2> QED
    BY <1>1, <1>2, <2>1, CalledFacts DEF Called
<1>5. r.len \in Nat /\ Len(reply.answer) \in Nat /\ r.id \in Nat /\ r.kind \in Kinds
  BY <1>1, <1>3 DEF RequestType
<1>6. n <= Len(reply.answer) /\ n <= r.len /\ n \in Nat /\ (n = Len(reply.answer) \/ n = r.len)
  BY <1>5, LeastFacts
<1>7. r.kind # "in" => n = 0
  BY <1>1, <1>2, <1>5, <1>6 DEF Kinds
<1>8. Size' = n
  BY <1>1, <1>4 DEF Size
<1> HIDE DEF n
<1>9. TypeInv'
  BY <1>1, <1>2, <1>4 DEF TypeInv
<1>10. Linked'
  BY <1>1, <1>2, <1>4, <1>5 DEF Linked
<1>11. dev'.tx = "ACK" =>
         /\ n <= BufLen /\ reply.ok
         /\ dev'.state = IF n > 0 THEN "IN_DATA" ELSE "IN_STATUS"
         /\ dev'.left = n /\ dev'.residue = n /\ dev'.off = 0
         /\ dev'.txLen = Least(n, Mps) /\ dev'.txTog = 1 /\ dev'.nextTx = 1
         /\ \A i \in 1 .. n : reqData'[i] = reply.answer[i]
         /\ \A i \in 1 .. dev'.txLen : dma'[i] = reqData'[i]
  BY <1>2
<1>12. dev'.tx = "ACK" /\ dev'.zlp =>
         n = Len(reply.answer) /\ n > 0 /\ n # r.len /\ n % Mps = 0
  BY <1>2, <1>5, <1>6
<1>13. dev'.tx = "ACK" /\ n > 0 => (dev'.zlp <=> n # r.len /\ n % Mps = 0)
  <2>1. ASSUME dev'.tx = "ACK", n > 0, n # r.len, n % Mps = 0
        PROVE  dev'.zlp
    <3>1. n = Len(reply.answer) /\ r.len > n
      BY <1>5, <1>6, <2>1
    <3> QED
      BY <1>2, <2>1, <3>1
  <2> QED
    BY <1>12, <2>1
<1>14. DeviceInv'
  <2>1. InArmed'
    <3> SUFFICES ASSUME dev'.tx = "ACK" PROVE InArmed'
      BY DEF InArmed
    <3>1. dev'.txLen \in Nat /\ dev'.txLen <= n
      BY <1>6, <1>11, Sizes, LeastFacts
    <3>2. \A i \in 1 .. dev'.txLen : dma'[i] = reqData'[dev'.off + i]
      BY <1>11, <3>1
    <3>3. dev'.state = "IN_DATA" => r.kind = "in"
      BY <1>7, <1>11
    <3>4. dev'.state = "IN_STATUS" => n = 0 /\ ~dev'.zlp
      BY <1>6, <1>11, <1>12
    <3>5. dev'.off + dev'.residue <= BufLen
      BY <1>6, <1>11, Sizes
    <3> QED
      BY <1>2, <1>6, <1>11, <1>12, <3>2, <3>3, <3>4, <3>5 DEF InArmed
  <2>2. OutArmed'
    BY <1>2 DEF OutArmed
  <2> QED
    BY <2>1, <2>2 DEF DeviceInv
<1>15. OutData' /\ StatusIn' /\ Taken'
  BY <1>1, <1>2, <1>4, <1>5, <1>7, <1>11 DEF OutData, StatusIn, Taken, CallDone, Kinds
<1>16. InData'
  <2>1. host'.got = SubSeq(reply.answer, 1, 0)
    BY <1>1, <1>3
  <2> SUFFICES ASSUME host'.req.kind = "in"
               PROVE  InData'
    BY DEF InData
  <2>2. CallDone'
    BY <1>1, <1>4 DEF CallDone
  <2> SUFFICES ASSUME dev'.tx = "ACK"
               PROVE  InData'
    BY <2>2 DEF InData
  <2>3. /\ call'.ok /\ dev'.off + dev'.residue = n
        /\ \A i \in 1 .. n : reqData'[i] = call'.answer[i]
        /\ dev'.residue > 0 => (dev'.zlp <=> n # host'.req.len /\ dev'.residue % Mps = 0)
        /\ dev'.txTog = host'.tog /\ host'.got = SubSeq(call'.answer, 1, dev'.off)
    BY <1>1, <1>4, <1>6, <1>11, <1>13, <2>1
  <2> QED
    BY <1>8, <2>2, <2>3 DEF InData
<1> QED
  BY <1>9, <1>10, <1>14, <1>15, <1>16 DEF Ep0Inv, PipeInv

LEMMA SetupKeeps ==
  ASSUME Ep0Inv, HostSetup
  PROVE  Ep0Inv'
<1>1. PICK r \in Requests(used.transfers + 1) : SetupComplete(r) /\ HostAsks(r)
  BY DEF HostSetup, HostAsks
<1> QED
  BY <1>1, SetupOversizeKeeps, SetupOutKeeps, SetupHandledKeeps DEF SetupComplete

(***************************************************************************)
(* The OUT data stage.                                                     *)
(***************************************************************************)

OutPacket == SubSeq(Payload(host.req), host.sent + 1, Least(host.sent + Mps, host.req.len))

LEMMA OutPacketFacts ==
  ASSUME Ep0Inv, host.stage = "data", host.req.kind = "out"
  PROVE  /\ OutPacket \in Seq(Byte) /\ Len(OutPacket) = NextOut
         /\ NextOut \in 1 .. Mps /\ NextOut <= host.req.len - host.sent
         /\ NextOut = Mps \/ NextOut = host.req.len - host.sent
         /\ \A i \in 1 .. NextOut : OutPacket[i] = <<host.req.id, host.sent + i>>
<1>1. /\ host.req.id \in Nat /\ host.req.len \in Nat /\ host.sent \in Nat
      /\ host.sent < host.req.len
  BY DEF Ep0Inv, TypeInv, HostType, RequestType, PipeInv, OutData
<1>2. Mps \in Nat /\ Mps > 0
  BY Sizes
<1>3. /\ NextOut \in 1 .. Mps /\ NextOut <= host.req.len - host.sent
      /\ NextOut = Mps \/ NextOut = host.req.len - host.sent
      /\ Least(host.sent + Mps, host.req.len) = host.sent + NextOut
  BY <1>1, <1>2 DEF NextOut, Least
<1> DEFINE s == Bytes(host.req.id, host.req.len)
<1>4. s \in Seq(Byte) /\ Len(s) = host.req.len
      /\ \A i \in 1 .. host.req.len : s[i] = <<host.req.id, i>>
  BY <1>1, BytesFacts
<1>5. OutPacket = Rest(s, host.sent, NextOut)
  BY <1>3 DEF OutPacket, Payload, Rest
<1> HIDE DEF s
<1>6. NextOut \in Nat /\ host.sent + NextOut <= Len(s)
  BY <1>1, <1>2, <1>3, <1>4
<1>7. /\ OutPacket \in Seq(Byte) /\ Len(OutPacket) = NextOut
      /\ \A i \in 1 .. NextOut : OutPacket[i] = s[host.sent + i]
  <2>1. s \in Seq(Byte) /\ host.sent \in Nat
    BY <1>1, <1>4
  <2>2. /\ Rest(s, host.sent, NextOut) \in Seq(Byte)
        /\ Len(Rest(s, host.sent, NextOut)) = NextOut
        /\ \A i \in 1 .. NextOut : Rest(s, host.sent, NextOut)[i] = s[host.sent + i]
    BY <1>6, <2>1, RestFacts
  <2> QED
    BY <1>5, <2>2
<1>8. ASSUME NEW i \in 1 .. NextOut
      PROVE  OutPacket[i] = <<host.req.id, host.sent + i>>
  <2>1. host.sent + i \in 1 .. host.req.len
    BY <1>1, <1>4, <1>6
  <2> QED
    BY <1>4, <1>7, <2>1
<1> QED
  BY <1>3, <1>7, <1>8

\* What a new packet makes of the device: the stage continues behind it, or
\* the handler has run on the host's bytes.
OutContinues ==
  /\ UNCHANGED call
  /\ dev'.state = "OUT_DATA" /\ dev'.rx = "ACK" /\ dev'.tx = "NAK"
  /\ dev'.off = dev.off + NextOut /\ dev'.copyTo = dev'.off
  /\ dev'.residue = dev.residue - NextOut /\ dev'.residue > 0
  /\ dev'.rxTog = Flip(dev.rxTog) /\ dev'.nextRx = dev'.rxTog
  /\ dev'.nextTx = 1 /\ dev'.zlp = FALSE
  /\ \A i \in 1 .. dev'.off : reqData'[i] = <<dev.setup.id, i>>

OutHandled(reply) ==
  /\ call' = Called(host.req, Payload(host.req), reply)
  /\ dev'.rx = "NAK"
  /\ \/ ~reply.ok /\ dev'.tx = "STALL"
     \/ /\ reply.ok /\ dev'.tx = "ACK" /\ dev'.state = "IN_STATUS"
        /\ dev'.left = 0 /\ dev'.residue = 0 /\ dev'.off = 0 /\ dev'.txLen = 0
        /\ dev'.txTog = 1 /\ dev'.nextTx = 1 /\ dev'.zlp = FALSE

LEMMA OutDoneFacts ==
  ASSUME Ep0Inv, host.stage = "data", host.req.kind = "out",
         dev.rx = "ACK", dev.rxTog = host.tog, OutDone(OutPacket)
  PROVE  /\ dev' \in DevType /\ dev'.setup = host.req
         /\ dev'.devAd = dev.devAd /\ dev'.pend = dev.pend
         /\ reqData' \in Seq(Byte) /\ Len(reqData') = BufLen
         /\ dma' \in Seq(Byte) /\ Len(dma') = Mps
         /\ ~CallDone
         /\ \/ OutContinues /\ host.sent + NextOut # host.req.len
            \/ /\ host.sent + NextOut = host.req.len
               /\ \E reply \in Replies(host.req) : OutHandled(reply)
<1> DEFINE p == OutPacket
           b == Put(reqData, dev.copyTo, p)
           d == [dev EXCEPT !.rx = "NAK", !.nextRx = Flip(@),
                            !.off = @ + Len(p), !.residue = dev.residue - Len(p)]
<1>1. /\ p \in Seq(Byte) /\ Len(p) = NextOut
      /\ NextOut \in 1 .. Mps /\ NextOut <= host.req.len - host.sent
      /\ \A i \in 1 .. NextOut : p[i] = <<host.req.id, host.sent + i>>
  BY OutPacketFacts
<1>2. /\ dev.state = "OUT_DATA" /\ dev.off = host.sent /\ ~CallDone
      /\ dev.setup = host.req
  BY DEF Ep0Inv, PipeInv, OutData, Linked
<1>3. /\ dev.copyTo = dev.off /\ dev.residue > 0
      /\ dev.off + dev.residue = host.req.len /\ host.req.len <= BufLen
      /\ dev.rxTog = dev.nextRx /\ dev.tx = "NAK" /\ dev.nextTx = 1 /\ dev.zlp = FALSE
      /\ \A i \in 1 .. dev.off : reqData[i] = <<host.req.id, i>>
  BY <1>2 DEF Ep0Inv, DeviceInv, OutArmed, TypeInv, DevType
<1>4. /\ dev \in DevType /\ reqData \in Seq(Byte) /\ Len(reqData) = BufLen
      /\ dma \in Seq(Byte) /\ Len(dma) = Mps /\ host.req \in RequestType
  BY DEF Ep0Inv, TypeInv, HostType
<1>5. /\ dev.off \in Nat /\ dev.residue \in Nat /\ host.req.len \in Nat /\ host.req.id \in Nat
      /\ dev.nextRx \in {0, 1} /\ BufLen \in Nat /\ Mps \in Nat /\ NextOut \in Nat
      /\ dev.copyTo \in Int
  BY <1>1, <1>4, Sizes DEF DevType, RequestType
<1>6. /\ dma' = Put(dma, 0, p) /\ reqData' = b
      /\ \/ /\ dev.residue - Len(p) # 0
            /\ dev' = StartRead(d, d.off, dev.residue - Len(p))
            /\ UNCHANGED call
         \/ /\ dev.residue - Len(p) = 0
            /\ \E reply \in Replies(dev.setup) :
                 /\ call' = Called(dev.setup, SubSeq(b, 1, dev.setup.len), reply)
                 /\ dev' = IF reply.ok
                           THEN StartWrite([d EXCEPT !.off = 0, !.state = "IN_STATUS"], 0)
                           ELSE StallIn([d EXCEPT !.off = 0, !.state = "SETUP"])
  BY DEF OutDone
<1> HIDE DEF p
<1>7. /\ b \in Seq(Byte) /\ Len(b) = BufLen
      /\ \A i \in 1 .. dev.off + NextOut : b[i] = <<host.req.id, i>>
  <2>1. /\ b \in Seq(Byte) /\ Len(b) = BufLen
        /\ \A i \in 1 .. BufLen :
             b[i] = IF i - dev.off \in 1 .. NextOut THEN p[i - dev.off] ELSE reqData[i]
    <3> DEFINE at == dev.off
    <3>1. at \in Int /\ b = Put(reqData, at, p)
      BY <1>3, <1>5
    <3> HIDE DEF at, b
    <3>2. /\ b \in Seq(Byte) /\ Len(b) = Len(reqData)
          /\ \A i \in 1 .. Len(reqData) :
               b[i] = IF i - at \in 1 .. Len(p) THEN p[i - at] ELSE reqData[i]
      BY <1>1, <1>4, <3>1, PutFacts
    <3> QED
      BY <1>1, <1>4, <3>2 DEF at
  <2>2. dev.off + NextOut <= BufLen
    BY <1>1, <1>2, <1>3, <1>5
  <2> HIDE DEF b
  <2>3. ASSUME NEW i \in 1 .. dev.off + NextOut PROVE b[i] = <<host.req.id, i>>
    <3>1. i \in 1 .. BufLen
      BY <1>5, <2>2
    <3>2. CASE i <= dev.off
      <4>1. i \in 1 .. dev.off /\ i - dev.off \notin 1 .. NextOut
        BY <1>5, <3>2
      <4> QED
        BY <1>3, <2>1, <3>1, <4>1
    <3>3. CASE i > dev.off
      <4>1. i - dev.off \in 1 .. NextOut /\ dev.off + (i - dev.off) = i
        BY <1>5, <3>3
      <4> QED
        BY <1>1, <1>2, <2>1, <3>1, <4>1
    <3> QED
      BY <1>5, <3>2, <3>3
  <2> QED
    BY <2>1, <2>3
<1> HIDE DEF b
<1>8. /\ d \in DevType /\ d.rx = "NAK" /\ d.tx = "NAK" /\ d.state = "OUT_DATA"
      /\ d.nextRx = Flip(dev.rxTog) /\ d.nextTx = 1 /\ d.zlp = FALSE
      /\ d.off = dev.off + NextOut /\ d.residue = dev.residue - NextOut
      /\ d.setup = host.req /\ d.devAd = dev.devAd /\ d.pend = dev.pend
  <2> DEFINE v == dev.off + Len(p)
             w == dev.residue - Len(p)
             f == Flip(dev.nextRx)
  <2>1. v \in 0 .. BufLen /\ w \in Nat /\ f \in {0, 1}
        /\ v = dev.off + NextOut /\ w = dev.residue - NextOut /\ f = Flip(dev.rxTog)
    <3>1. v = dev.off + NextOut /\ w = dev.residue - NextOut
      BY <1>1
    <3>2. dev.off + NextOut <= BufLen /\ dev.residue - NextOut >= 0
      BY <1>1, <1>2, <1>3, <1>5
    <3>3. f \in {0, 1} /\ f = Flip(dev.rxTog)
      BY <1>3, <1>5 DEF Flip
    <3> QED
      BY <1>5, <3>1, <3>2, <3>3
  <2>2. d = [dev EXCEPT !.rx = "NAK", !.nextRx = f, !.off = v, !.residue = w]
    BY <1>4 DEF DevType
  <2> HIDE DEF v, w, f, d
  <2> QED
    BY <1>2, <1>3, <1>4, <2>1, <2>2 DEF DevType
<1> HIDE DEF d
<1>9. dma' \in Seq(Byte) /\ Len(dma') = Mps /\ reqData' \in Seq(Byte) /\ Len(reqData') = BufLen
  <2>1. Len(p) <= Len(dma)
    BY <1>1, <1>4
  <2>2. Put(dma, 0, p) \in Seq(Byte) /\ Len(Put(dma, 0, p)) = Len(dma)
    BY <1>1, <1>4, <2>1, FrontFacts
  <2> QED
    BY <1>4, <1>6, <1>7, <2>2
<1>10. CASE dev.residue - Len(p) # 0
  <2>1. dev' = StartRead(d, d.off, d.residue) /\ UNCHANGED call
        /\ d.residue \in Nat /\ d.residue > 0 /\ d.off \in Int
    BY <1>1, <1>5, <1>6, <1>8, <1>10 DEF DevType
  <2>2. /\ dev' \in DevType /\ dev'.copyTo = d.off /\ dev'.rx = "ACK"
        /\ dev'.rxTog = d.nextRx
        /\ dev'.nextRx = d.nextRx /\ dev'.tx = d.tx /\ dev'.state = d.state
        /\ dev'.setup = d.setup /\ dev'.off = d.off /\ dev'.residue = d.residue
        /\ dev'.zlp = d.zlp /\ dev'.nextTx = d.nextTx
        /\ dev'.devAd = d.devAd /\ dev'.pend = d.pend
    BY <1>8, <2>1, StartReadFacts
  <2>3. OutContinues
    BY <1>2, <1>6, <1>7, <1>8, <2>1, <2>2 DEF OutContinues
  <2>4. host.sent + NextOut # host.req.len
    BY <1>1, <1>2, <1>3, <1>5, <1>10
  <2> QED
    BY <1>2, <1>8, <1>9, <2>2, <2>3, <2>4
<1>11. CASE dev.residue - Len(p) = 0
  <2>1. host.sent + NextOut = host.req.len
    BY <1>1, <1>2, <1>3, <1>5, <1>11, SMTT(30) DEF HostType
  <2>2. PICK reply \in Replies(host.req) :
          /\ call' = Called(host.req, SubSeq(b, 1, host.req.len), reply)
          /\ dev' = IF reply.ok
                    THEN StartWrite([d EXCEPT !.off = 0, !.state = "IN_STATUS"], 0)
                    ELSE StallIn([d EXCEPT !.off = 0, !.state = "SETUP"])
    BY <1>2, <1>6, <1>11
  <2>3. SubSeq(b, 1, host.req.len) = Payload(host.req)
    <3> DEFINE s == SubSeq(b, 1, host.req.len)
               t == Bytes(host.req.id, host.req.len)
    <3>1. s \in Seq(Byte) /\ Len(s) = host.req.len
          /\ \A i \in 1 .. host.req.len : s[i] = b[i]
      BY <1>3, <1>5, <1>7, PrefixFacts
    <3>2. t \in Seq(Byte) /\ Len(t) = host.req.len
          /\ \A i \in 1 .. host.req.len : t[i] = <<host.req.id, i>>
      BY <1>5, BytesFacts
    <3>3. Payload(host.req) = t
      BY DEF Payload
    <3> HIDE DEF s, t
    <3>4. \A i \in 1 .. host.req.len : s[i] = t[i]
      BY <1>2, <1>5, <1>7, <2>1, <3>1, <3>2
    <3>5. s = t
      BY <3>1, <3>2, <3>4, SameSequence
    <3> QED
      BY <3>3, <3>5 DEF s
  <2>4. reply.ok \in BOOLEAN
    BY <1>4, ReplyFacts
  <2>5. CASE reply.ok
    <3> DEFINE e == [d EXCEPT !.off = 0, !.state = "IN_STATUS"]
    <3>1. /\ e \in DevType /\ e.rx = "NAK" /\ e.state = "IN_STATUS" /\ e.off = 0
          /\ e.residue = 0 /\ e.nextTx = 1 /\ e.zlp = FALSE
          /\ e.setup = host.req /\ e.devAd = dev.devAd /\ e.pend = dev.pend
      <4>1. 0 \in 0 .. BufLen /\ d.residue = 0
        BY <1>1, <1>5, <1>8, <1>11
      <4>2. e \in DevType
        <5> DEFINE c == [d EXCEPT !.off = 0]
        <5>1. c \in DevType
          BY <1>8, <4>1 DEF DevType
        <5>2. e = [c EXCEPT !.state = "IN_STATUS"]
          BY <1>8 DEF DevType
        <5> HIDE DEF c, e
        <5> QED
          BY <5>1, <5>2 DEF DevType
      <4>3. /\ e.rx = d.rx /\ e.state = "IN_STATUS" /\ e.off = 0
            /\ e.residue = d.residue /\ e.nextTx = d.nextTx /\ e.zlp = d.zlp
            /\ e.setup = d.setup /\ e.devAd = d.devAd /\ e.pend = d.pend
        BY <1>8 DEF DevType
      <4> QED
        BY <1>8, <4>1, <4>2, <4>3
    <3>2. dev' = StartWrite(e, 0) /\ 0 \in 0 .. BufLen
      BY <1>5, <2>2, <2>5
    <3> HIDE DEF e
    <3>3. /\ dev' \in DevType /\ dev'.tx = "ACK" /\ dev'.left = 0 /\ dev'.txLen = Least(0, Mps)
          /\ dev'.txTog = e.nextTx /\ dev'.nextTx = e.nextTx
          /\ dev'.rx = e.rx /\ dev'.state = e.state /\ dev'.setup = e.setup /\ dev'.off = e.off
          /\ dev'.residue = e.residue /\ dev'.zlp = e.zlp
          /\ dev'.devAd = e.devAd /\ dev'.pend = e.pend
      BY <3>1, <3>2, StartWriteFacts
    <3>4. Least(0, Mps) = 0
      BY Sizes DEF Least
    <3>5. OutHandled(reply)
      BY <2>2, <2>3, <2>5, <3>1, <3>3, <3>4 DEF OutHandled
    <3> QED
      BY <1>2, <1>9, <2>1, <3>1, <3>3, <3>5
  <2>6. CASE ~reply.ok
    <3> DEFINE e == [d EXCEPT !.off = 0, !.state = "SETUP"]
    <3>1. /\ e \in DevType /\ e.rx = "NAK"
          /\ e.setup = host.req /\ e.devAd = dev.devAd /\ e.pend = dev.pend
      <4>1. 0 \in 0 .. BufLen
        BY <1>5
      <4> QED
        BY <1>8, <4>1 DEF DevType
    <3>2. dev' = StallIn(e)
      BY <2>2, <2>6
    <3> HIDE DEF e
    <3>3. /\ dev' \in DevType /\ dev'.tx = "STALL" /\ dev'.rx = "NAK"
          /\ dev'.setup = host.req /\ dev'.devAd = dev.devAd /\ dev'.pend = dev.pend
      BY <3>1, <3>2 DEF StallIn, DevType
    <3>4. OutHandled(reply)
      BY <2>2, <2>3, <2>6, <3>3 DEF OutHandled
    <3> QED
      BY <1>2, <1>9, <2>1, <3>3, <3>4
  <2> QED
    BY <2>4, <2>5, <2>6
<1> QED
  BY <1>10, <1>11

LEMMA HeardFacts ==
  ASSUME TypeInv, NEW heard, Heard(heard)
  PROVE  /\ used' \in [transfers : Nat, lost : Nat, resets : Nat]
         /\ used'.transfers = used.transfers
  BY DEF TypeInv, Heard, Lose

\* The host's side of an OUT packet: when it hears the handshake, the packet
\* is behind it.
LEMMA HostOutFacts ==
  ASSUME Ep0Inv, NEW heard \in BOOLEAN, HostOut(heard)
  PROVE  /\ host.stage = "data" /\ host.req.kind = "out" /\ dev.rx = "ACK"
         /\ IF dev.rxTog = host.tog THEN OutDone(OutPacket)
            ELSE UNCHANGED <<dev, reqData, dma, call>>
         /\ host' \in HostType /\ host'.req = host.req /\ host'.got = host.got
         /\ host'.addr = host.addr
         /\ \/ /\ heard /\ host'.sent = host.sent + NextOut /\ host'.tog = Flip(host.tog)
               /\ host'.stage = IF host.sent + NextOut = host.req.len THEN "status" ELSE "data"
            \/ /\ ~heard /\ host'.sent = host.sent /\ host'.tog = host.tog
               /\ host'.stage = host.stage
<1>1. /\ host.stage = "data" /\ host.req.kind = "out" /\ dev.rx = "ACK"
      /\ IF dev.rxTog = host.tog THEN OutDone(OutPacket)
         ELSE UNCHANGED <<dev, reqData, dma, call>>
      /\ host' = IF heard
                 THEN [host EXCEPT !.sent = @ + Len(OutPacket), !.tog = Flip(@),
                         !.stage = IF host.sent + Len(OutPacket) = host.req.len
                                   THEN "status" ELSE @]
                 ELSE [host EXCEPT !.cut = (host.sent + Len(OutPacket) = host.req.len)]
  BY DEF HostOut, OutPacket, Reaches, Ep0Inv
<1>2. Len(OutPacket) = NextOut /\ NextOut \in Nat
  BY <1>1, OutPacketFacts, Sizes
<1>3. host \in HostType /\ host.sent + NextOut \in Nat /\ Flip(host.tog) \in {0, 1}
  <2>1. host \in HostType
    BY DEF Ep0Inv, TypeInv
  <2>2. host.sent \in Nat /\ host.tog \in {0, 1}
    BY <2>1 DEF HostType
  <2> QED
    BY <1>2, <2>1, <2>2 DEF Flip
<1>4. CASE heard
  <2> DEFINE u == host.sent + NextOut
             g == IF host.sent + NextOut = host.req.len THEN "status" ELSE "data"
             t == Flip(host.tog)
  <2>1. host' = [host EXCEPT !.sent = u, !.tog = t, !.stage = g]
    BY <1>1, <1>2, <1>3, <1>4 DEF HostType
  <2>2. u \in Nat /\ t \in {0, 1} /\ g \in {"status", "data"}
    BY <1>3
  <2> HIDE DEF u, t, g
  <2>3. /\ host' \in HostType /\ host'.req = host.req /\ host'.got = host.got
        /\ host'.addr = host.addr /\ host'.sent = u /\ host'.tog = t /\ host'.stage = g
    BY <1>3, <2>1, <2>2 DEF HostType
  <2> QED
    BY <1>1, <1>4, <2>3 DEF u, t, g
<1>5. CASE ~heard
  <2> DEFINE c == (host.sent + Len(OutPacket) = host.req.len)
  <2>1. host' = [host EXCEPT !.cut = c] /\ c \in BOOLEAN
    BY <1>1, <1>5
  <2> HIDE DEF c
  <2>2. /\ host' \in HostType /\ host'.req = host.req /\ host'.got = host.got
        /\ host'.addr = host.addr /\ host'.sent = host.sent /\ host'.tog = host.tog
        /\ host'.stage = host.stage
    BY <1>3, <2>1 DEF HostType
  <2> QED
    BY <1>1, <1>5, <2>2
<1> QED
  BY <1>4, <1>5

LEMMA OutContinuesKeeps ==
  ASSUME Ep0Inv, OutContinues, dev' \in DevType, dev'.setup = host.req,
         host.stage = "data", host.req.kind = "out", dev.rx = "ACK"
  PROVE  DeviceInv' /\ dev'.off = dev.off + NextOut /\ dev'.off < host.req.len
<1>1. /\ dev.state = "OUT_DATA" /\ dev.setup = host.req
      /\ dev.off + dev.residue = host.req.len /\ host.req.len <= BufLen
  BY DEF Ep0Inv, PipeInv, OutData, Linked, DeviceInv, OutArmed
<1>2. /\ dev.off \in Nat /\ dev.residue \in Nat /\ NextOut \in Nat /\ host.req.len \in Nat
  BY OutPacketFacts, Sizes DEF Ep0Inv, TypeInv, DevType, HostType, RequestType
<1>3. dev'.off + dev'.residue = host.req.len /\ dev'.residue > 0
      /\ dev'.off \in Nat /\ dev'.residue \in Nat
  BY <1>1, <1>2 DEF OutContinues, DevType
<1>4. DeviceInv'
  BY <1>1, <1>3 DEF DeviceInv, InArmed, OutArmed, OutContinues
<1> QED
  BY <1>3, <1>4 DEF OutContinues

LEMMA OutHandledKeeps ==
  ASSUME TypeInv, NEW reply \in Replies(host.req), OutHandled(reply), dev' \in DevType,
         Len(dma') = Mps
  PROVE  /\ DeviceInv' /\ call' \in CallType /\ call'.id = host.req.id
         /\ dev'.tx = "ACK" => call'.ok /\ dev'.state = "IN_STATUS" /\ dev'.txTog = 1
<1>1. host.req \in RequestType
  BY DEF TypeInv, HostType
<1>2. Payload(host.req) \in Seq(Byte)
  <2>1. host.req.id \in Nat /\ host.req.len \in Nat /\ <<>> \in Seq(Byte)
    BY <1>1 DEF RequestType
  <2> QED
    BY <2>1, BytesFacts DEF Payload
<1>3. call' \in CallType /\ call'.id = host.req.id /\ call'.ok = reply.ok
  BY <1>1, <1>2, CalledFacts DEF OutHandled, Called
<1>4. Least(0, Mps) = 0 /\ 0 <= BufLen
  BY Sizes DEF Least
<1>5. InArmed'
  BY <1>4 DEF InArmed, OutHandled
<1>6. OutArmed'
  BY DEF OutArmed, OutHandled
<1> QED
  BY <1>3, <1>5, <1>6 DEF OutHandled, DeviceInv

LEMMA OutKeeps ==
  ASSUME Ep0Inv, NEW heard \in BOOLEAN, HostOut(heard)
  PROVE  Ep0Inv'
<1>1. /\ host.stage = "data" /\ host.req.kind = "out" /\ dev.rx = "ACK"
      /\ IF dev.rxTog = host.tog THEN OutDone(OutPacket)
         ELSE UNCHANGED <<dev, reqData, dma, call>>
      /\ host' \in HostType /\ host'.req = host.req /\ host'.got = host.got
      /\ \/ /\ heard /\ host'.sent = host.sent + NextOut /\ host'.tog = Flip(host.tog)
            /\ host'.stage = IF host.sent + NextOut = host.req.len THEN "status" ELSE "data"
         \/ /\ ~heard /\ host'.sent = host.sent /\ host'.tog = host.tog
            /\ host'.stage = host.stage
  BY HostOutFacts
<1>2. /\ used' \in [transfers : Nat, lost : Nat, resets : Nat]
      /\ used'.transfers = used.transfers
  BY HeardFacts DEF Ep0Inv, HostOut
<1>3. /\ ~CallDone /\ dev.state = "OUT_DATA" /\ host.sent < host.req.len
      /\ dev.off = IF dev.rxTog = host.tog THEN host.sent ELSE host.sent + NextOut
      /\ dev.setup = host.req /\ host.req.id \in 1 .. used.transfers
      /\ call.id <= used.transfers /\ host.req.len > 0 /\ host.got = <<>>
  BY <1>1 DEF Ep0Inv, PipeInv, OutData, Linked
<1>4. /\ dev.off + dev.residue = host.req.len /\ dev.residue > 0
  BY <1>1, <1>3 DEF Ep0Inv, DeviceInv, OutArmed
<1>5. /\ NextOut \in Nat /\ NextOut > 0 /\ host.sent \in Nat /\ host.req.len \in Nat
      /\ dev.off \in Nat /\ dev.residue \in Nat /\ NextOut <= host.req.len - host.sent
      /\ host.tog \in {0, 1} /\ dev.rxTog \in {0, 1}
  <2>1. NextOut \in 1 .. Mps /\ NextOut <= host.req.len - host.sent /\ Mps \in Nat
    BY <1>1, OutPacketFacts, Sizes
  <2>2. /\ host.sent \in Nat /\ host.req.len \in Nat
        /\ dev.off \in Nat /\ dev.residue \in Nat
        /\ host.tog \in {0, 1} /\ dev.rxTog \in {0, 1}
    BY Sizes DEF Ep0Inv, TypeInv, HostType, DevType, RequestType
  <2> QED
    BY <2>1, <2>2
<1>6. NextOut' = NextOut \/ host'.sent # host.sent
  BY <1>1 DEF NextOut
<1>7. CASE dev.rxTog # host.tog
  <2>1. UNCHANGED <<dev, reqData, dma, call>>
    BY <1>1, <1>7
  <2>2. TypeInv'
    BY <1>1, <1>2, <2>1 DEF Ep0Inv, TypeInv
  <2>3. Linked'
    BY <1>1, <1>2, <1>3, <2>1 DEF Ep0Inv, Linked
  <2>4. DeviceInv'
    BY <2>1 DEF Ep0Inv, DeviceInv, InArmed, OutArmed
  <2>5. host.sent + NextOut < host.req.len
    BY <1>3, <1>4, <1>5, <1>7
  <2>6. heard => host'.stage = "data" /\ host'.sent = dev'.off /\ dev'.rxTog = host'.tog
    BY <1>1, <1>3, <1>5, <1>7, <2>1, <2>5 DEF Flip
  <2>7. OutData'
    <3>1. host'.stage = "data" /\ host'.sent < host'.req.len
      BY <1>1, <1>3, <1>5, <2>5, <2>6
    <3>2. ~CallDone' /\ dev'.rx = "ACK" /\ dev'.state = "OUT_DATA"
      BY <1>1, <1>3, <2>1 DEF CallDone
    <3>3. dev'.off = IF dev'.rxTog = host'.tog THEN host'.sent ELSE host'.sent + NextOut'
      BY <1>1, <1>3, <1>6, <1>7, <2>1, <2>6
    <3> QED
      BY <3>1, <3>2, <3>3 DEF OutData
  <2>8. StatusIn' /\ InData' /\ Taken'
    BY <1>1, <2>5, <2>6 DEF StatusIn, InData, Taken
  <2> QED
    BY <2>2, <2>3, <2>4, <2>7, <2>8 DEF Ep0Inv, PipeInv
<1>8. CASE dev.rxTog = host.tog
  <2>1. OutDone(OutPacket)
    BY <1>1, <1>8
  <2>2. /\ dev' \in DevType /\ dev'.setup = host.req
        /\ reqData' \in Seq(Byte) /\ Len(reqData') = BufLen
        /\ dma' \in Seq(Byte) /\ Len(dma') = Mps
        /\ \/ OutContinues /\ host.sent + NextOut # host.req.len
           \/ /\ host.sent + NextOut = host.req.len
              /\ \E reply \in Replies(host.req) : OutHandled(reply)
    BY <1>1, <1>8, <2>1, OutDoneFacts
  <2>3. CASE OutContinues /\ host.sent + NextOut # host.req.len
    <3>1. DeviceInv' /\ dev'.off = dev.off + NextOut /\ dev'.off < host.req.len
      BY <1>1, <2>2, <2>3, OutContinuesKeeps
    <3>2. call' = call /\ dev'.rxTog = Flip(dev.rxTog) /\ dev'.rx = "ACK"
          /\ dev'.state = "OUT_DATA"
      BY <2>3 DEF OutContinues
    <3>3. TypeInv'
      BY <1>1, <1>2, <2>2, <3>2 DEF Ep0Inv, TypeInv
    <3>4. Linked'
      BY <1>1, <1>2, <1>3, <2>2, <3>2 DEF Ep0Inv, Linked
    <3>5. host'.stage = "data" /\ host'.sent < host'.req.len
      BY <1>1, <1>3, <1>5, <1>8, <2>3, <3>1
    <3>6. dev'.off = IF dev'.rxTog = host'.tog THEN host'.sent ELSE host'.sent + NextOut'
      BY <1>1, <1>3, <1>5, <1>6, <1>8, <3>1, <3>2 DEF Flip
    <3>7. ~CallDone'
      BY <1>1, <1>3, <3>2 DEF CallDone
    <3>8. OutData'
      BY <3>2, <3>5, <3>6, <3>7 DEF OutData
    <3>9. StatusIn' /\ InData' /\ Taken'
      BY <1>1, <3>5 DEF StatusIn, InData, Taken
    <3> QED
      BY <3>1, <3>3, <3>4, <3>8, <3>9 DEF Ep0Inv, PipeInv
  <2>4. CASE host.sent + NextOut = host.req.len
             /\ \E reply \in Replies(host.req) : OutHandled(reply)
    <3>1. PICK reply \in Replies(host.req) : OutHandled(reply)
      BY <2>4
    <3>2. /\ DeviceInv' /\ call' \in CallType /\ call'.id = host.req.id
          /\ dev'.tx = "ACK" => call'.ok /\ dev'.state = "IN_STATUS" /\ dev'.txTog = 1
      BY <2>2, <3>1, OutHandledKeeps DEF Ep0Inv
    <3>3. dev'.rx = "NAK"
      BY <3>1 DEF OutHandled
    <3>4. TypeInv'
      BY <1>1, <1>2, <2>2, <3>2 DEF Ep0Inv, TypeInv
    <3>5. Linked'
      BY <1>1, <1>2, <1>3, <2>2, <3>2 DEF Ep0Inv, Linked
    <3>6. CallDone'
      BY <1>1, <3>2 DEF CallDone
    <3>7. OutData'
      BY <1>1, <1>3, <2>4, <3>3, <3>6 DEF OutData
    <3>8. StatusIn' /\ InData' /\ Taken'
      BY <1>1, <2>4, <3>2, <3>6 DEF StatusIn, InData, Taken
    <3> QED
      BY <3>2, <3>4, <3>5, <3>7, <3>8 DEF Ep0Inv, PipeInv
  <2> QED
    BY <2>2, <2>3, <2>4
<1> QED
  BY <1>7, <1>8

(***************************************************************************)
(* IN packets and status stages.                                           *)
(***************************************************************************)

LEMMA TakeAddressFacts ==
  ASSUME NEW d \in DevType
  PROVE  LET e == TakeAddress(d)
         IN  /\ e \in DevType /\ e.pend = 0
             /\ e.devAd = IF d.pend > 0 THEN d.pend ELSE d.devAd
             /\ e.rx = d.rx /\ e.tx = d.tx /\ e.txTog = d.txTog /\ e.nextTx = d.nextTx
             /\ e.left = d.left /\ e.txLen = d.txLen /\ e.setup = d.setup /\ e.state = d.state
             /\ e.off = d.off /\ e.residue = d.residue /\ e.zlp = d.zlp
<1>1. d.pend \in Addresses \cup {0} /\ Addresses \subseteq Nat \ {0}
  BY Ep0Assumption DEF DevType
<1>2. CASE d.pend > 0
  BY <1>1, <1>2 DEF TakeAddress, DevType
<1>3. CASE ~(d.pend > 0)
  BY <1>1, <1>3 DEF TakeAddress
<1> QED
  BY <1>2, <1>3

LEMMA RearmFacts ==
  ASSUME NEW d \in DevType
  PROVE  LET e == Rearm(d)
         IN  /\ e \in DevType /\ e.rx = "ACK" /\ e.tx = d.tx /\ e.state = d.state
             /\ e.setup = d.setup /\ e.devAd = d.devAd /\ e.pend = d.pend
  BY DEF Rearm, DevType

\* The device after its packet was taken, before it decides what follows.
PacketTaken ==
  [dev EXCEPT !.tx = "NAK", !.txTog = 0, !.left = @ - dev.txLen,
              !.nextTx = IF dev.left >= Mps THEN Flip(@) ELSE 1,
              !.off = @ + dev.txLen, !.residue = @ - dev.txLen]

LEMMA PacketTakenFacts ==
  ASSUME TypeInv, DeviceInv, dev.tx = "ACK"
  PROVE  LET d == PacketTaken
         IN  /\ dev.txLen = Least(dev.left, Mps) /\ dev.txLen <= dev.residue
             /\ d \in DevType /\ d.tx = "NAK" /\ d.rx = "NAK" /\ d.state = dev.state
             /\ d.setup = dev.setup /\ d.devAd = dev.devAd /\ d.pend = dev.pend
             /\ d.zlp = dev.zlp
             /\ d.off = dev.off + dev.txLen /\ d.residue = dev.residue - dev.txLen
             /\ d.nextTx = IF dev.residue >= Mps THEN Flip(dev.txTog) ELSE 1
<1>1. /\ dev \in DevType /\ dev.rx = "NAK"
      /\ dev.left = dev.residue /\ dev.txLen = Least(dev.residue, Mps)
      /\ dev.txTog = dev.nextTx /\ dev.off + dev.residue <= BufLen
  BY DEF TypeInv, DeviceInv, InArmed
<1>2. /\ Mps \in Nat /\ BufLen \in Nat /\ dev.residue \in Nat /\ dev.off \in Nat
      /\ dev.nextTx \in {0, 1} /\ dev.left <= BufLen
  BY <1>1, Sizes DEF DevType
<1>3. dev.txLen \in Nat /\ dev.txLen <= dev.residue
  BY <1>1, <1>2, LeastFacts
<1> DEFINE c == [dev EXCEPT !.tx = "NAK", !.txTog = 0]
           l == dev.left - dev.txLen
           t == IF dev.left >= Mps THEN Flip(dev.nextTx) ELSE 1
           e == [c EXCEPT !.left = l, !.nextTx = t]
           o == dev.off + dev.txLen
           v == dev.residue - dev.txLen
<1>4. l \in 0 .. BufLen /\ t \in {0, 1} /\ o \in 0 .. BufLen /\ v \in Nat
  BY <1>1, <1>2, <1>3 DEF Flip
<1>5. PacketTaken = [e EXCEPT !.off = o, !.residue = v]
  BY <1>1 DEF PacketTaken, DevType
<1>6. t = IF dev.residue >= Mps THEN Flip(dev.txTog) ELSE 1
  BY <1>1
<1> HIDE DEF l, t, o, v
<1>7. /\ c \in DevType /\ c.tx = "NAK" /\ c.rx = "NAK" /\ c.state = dev.state
      /\ c.setup = dev.setup /\ c.devAd = dev.devAd /\ c.pend = dev.pend /\ c.zlp = dev.zlp
  BY <1>1 DEF DevType
<1> HIDE DEF c
<1>8. /\ e \in DevType /\ e.tx = "NAK" /\ e.rx = "NAK" /\ e.state = dev.state /\ e.nextTx = t
      /\ e.setup = dev.setup /\ e.devAd = dev.devAd /\ e.pend = dev.pend /\ e.zlp = dev.zlp
  BY <1>4, <1>7 DEF DevType
<1> HIDE DEF e
<1>9. LET d == [e EXCEPT !.off = o, !.residue = v]
      IN  /\ d \in DevType /\ d.tx = "NAK" /\ d.rx = "NAK" /\ d.state = dev.state
          /\ d.setup = dev.setup /\ d.devAd = dev.devAd /\ d.pend = dev.pend
          /\ d.zlp = dev.zlp /\ d.off = o /\ d.residue = v /\ d.nextTx = t
  BY <1>4, <1>8 DEF DevType
<1> QED
  BY <1>1, <1>3, <1>5, <1>6, <1>9 DEF o, v

\* What follows a packet that was not the last one, and the last one.
InContinues ==
  /\ dev.setup.kind = "in" /\ dev.txLen = Mps /\ dev.residue >= Mps
  /\ dev.residue > Mps \/ dev.zlp
  /\ dev'.tx = "ACK" /\ dev'.rx = "NAK" /\ dev'.state = "IN_DATA"
  /\ dev'.off = dev.off + Mps /\ dev'.residue = dev.residue - Mps
  /\ dev'.left = dev'.residue /\ dev'.txLen = Least(dev'.residue, Mps)
  /\ dev'.txTog = Flip(dev.txTog) /\ dev'.nextTx = dev'.txTog
  /\ dev'.zlp <=> dev.zlp /\ dev.residue > Mps
  /\ \A i \in 1 .. dev'.txLen : dma'[i] = reqData[dev'.off + i]

InEnds ==
  /\ dev.residue = dev.txLen /\ ~dev.zlp
  /\ dev'.tx = "NAK" /\ dev'.state # "OUT_DATA"

LEMMA InDoneFacts ==
  ASSUME TypeInv, DeviceInv, dev.tx = "ACK", InDone
  PROVE  /\ dev' \in DevType /\ dev'.setup = dev.setup
         /\ dev'.devAd = IF dev.pend > 0 THEN dev.pend ELSE dev.devAd
         /\ dev'.pend = 0
         /\ dma' \in Seq(Byte) /\ Len(dma') = Mps /\ UNCHANGED <<reqData, call>>
         /\ InContinues \/ InEnds
<1> DEFINE d == PacketTaken
           a == AfterIn(d)
           e == TakeAddress(a)
<1>1. /\ dev.txLen = Least(dev.left, Mps) /\ dev.txLen <= dev.residue
      /\ d \in DevType /\ d.tx = "NAK" /\ d.rx = "NAK" /\ d.state = dev.state
      /\ d.setup = dev.setup /\ d.devAd = dev.devAd /\ d.pend = dev.pend
      /\ d.zlp = dev.zlp
      /\ d.off = dev.off + dev.txLen /\ d.residue = dev.residue - dev.txLen
      /\ d.nextTx = IF dev.residue >= Mps THEN Flip(dev.txTog) ELSE 1
  BY PacketTakenFacts
<1>2. /\ dev \in DevType /\ reqData \in Seq(Byte) /\ Len(reqData) = BufLen
      /\ dma \in Seq(Byte) /\ Len(dma) = Mps
      /\ dev.txLen = Least(dev.residue, Mps) /\ dev.off + dev.residue <= BufLen
      /\ dev.state \in {"IN_DATA", "IN_STATUS"}
      /\ dev.state = "IN_STATUS" => dev.residue = 0 /\ ~dev.zlp
      /\ dev.state = "IN_DATA" => dev.setup.kind = "in"
      /\ dev.zlp => dev.residue > 0 /\ dev.residue % Mps = 0
  BY DEF TypeInv, DeviceInv, InArmed
<1>3. /\ Mps \in Nat /\ Mps > 0 /\ BufLen \in Nat /\ dev.residue \in Nat /\ dev.off \in Nat
      /\ dev.txLen \in Nat /\ dev.zlp \in BOOLEAN
  BY <1>2, Sizes, LeastFacts DEF DevType
<1>4. /\ dev' = IF dev.setup.kind = "in" THEN e ELSE Rearm(e)
      /\ dma' = IF dev.residue > dev.txLen
                THEN FirstPacket(dev.off + dev.txLen, dev.residue - dev.txLen) ELSE dma
      /\ UNCHANGED <<reqData, call>>
  BY <1>1 DEF InDone, PacketTaken
<1> HIDE DEF d
<1>5. ASSUME a \in DevType, a.setup = dev.setup, a.devAd = dev.devAd, a.pend = dev.pend
      PROVE  /\ dev' \in DevType /\ dev'.setup = dev.setup /\ dev'.pend = 0
             /\ dev'.devAd = IF dev.pend > 0 THEN dev.pend ELSE dev.devAd
             /\ dev'.tx = a.tx /\ dev'.state = a.state
             /\ dev.setup.kind = "in" =>
                  /\ dev'.rx = a.rx /\ dev'.txTog = a.txTog /\ dev'.nextTx = a.nextTx
                  /\ dev'.left = a.left /\ dev'.txLen = a.txLen
                  /\ dev'.off = a.off /\ dev'.residue = a.residue /\ dev'.zlp = a.zlp
  <2> HIDE DEF a
  <2>1. /\ e \in DevType /\ e.pend = 0
        /\ e.devAd = IF dev.pend > 0 THEN dev.pend ELSE dev.devAd
        /\ e.rx = a.rx /\ e.tx = a.tx /\ e.txTog = a.txTog /\ e.nextTx = a.nextTx
        /\ e.left = a.left /\ e.txLen = a.txLen /\ e.setup = dev.setup /\ e.state = a.state
        /\ e.off = a.off /\ e.residue = a.residue /\ e.zlp = a.zlp
    BY <1>5, TakeAddressFacts
  <2> HIDE DEF e
  <2>2. /\ Rearm(e) \in DevType /\ Rearm(e).tx = e.tx /\ Rearm(e).state = e.state
        /\ Rearm(e).setup = e.setup /\ Rearm(e).devAd = e.devAd /\ Rearm(e).pend = e.pend
    BY <2>1, RearmFacts
  <2> QED
    BY <1>4, <2>1, <2>2
<1> HIDE DEF e
<1>6. CASE dev.residue > dev.txLen
  <2>1. dev.txLen = Mps /\ dev.residue > Mps
    BY <1>2, <1>3, <1>6 DEF Least
  <2>2. dev.setup.kind = "in" /\ dev.state = "IN_DATA"
    BY <1>2, <1>3, <1>6
  <2>3. d.residue = dev.residue - Mps /\ d.residue > 0 /\ d.residue \in 0 .. BufLen
        /\ d.residue \in Nat
    BY <1>1, <1>2, <1>3, <2>1
  <2>4. a = StartWrite(d, d.residue)
    BY <2>3 DEF AfterIn
  <2> HIDE DEF a
  <2>5. /\ a \in DevType /\ a.tx = "ACK" /\ a.left = d.residue /\ a.txLen = Least(d.residue, Mps)
        /\ a.txTog = d.nextTx /\ a.nextTx = d.nextTx
        /\ a.rx = d.rx /\ a.state = d.state /\ a.setup = d.setup /\ a.off = d.off
        /\ a.residue = d.residue /\ a.zlp = d.zlp /\ a.devAd = d.devAd /\ a.pend = d.pend
    BY <1>1, <2>3, <2>4, StartWriteFacts
  <2>6. /\ dev' \in DevType /\ dev'.setup = dev.setup /\ dev'.pend = 0
        /\ dev'.devAd = IF dev.pend > 0 THEN dev.pend ELSE dev.devAd
        /\ dev'.tx = a.tx /\ dev'.state = a.state
        /\ dev'.rx = a.rx /\ dev'.txTog = a.txTog /\ dev'.nextTx = a.nextTx
        /\ dev'.left = a.left /\ dev'.txLen = a.txLen
        /\ dev'.off = a.off /\ dev'.residue = a.residue /\ dev'.zlp = a.zlp
    BY <1>1, <1>5, <2>2, <2>5
  <2> DEFINE k == Least(d.residue, Mps)
             p == Rest(reqData, d.off, k)
  <2>7. k \in Nat /\ k <= d.residue /\ k <= Mps
    BY <1>3, <2>3, LeastFacts
  <2>8. dma' = Put(dma, 0, p)
    BY <1>1, <1>4, <1>6, <2>1, <2>3 DEF FirstPacket
  <2>9. d.off \in Nat /\ d.off + k <= Len(reqData)
    BY <1>1, <1>2, <1>3, <2>1, <2>3, <2>7
  <2> HIDE DEF k
  <2>10. p \in Seq(Byte) /\ Len(p) = k /\ \A i \in 1 .. k : p[i] = reqData[d.off + i]
    BY <1>2, <2>7, <2>9, RestFacts
  <2> HIDE DEF p
  <2>11. /\ dma' \in Seq(Byte) /\ Len(dma') = Mps
         /\ \A i \in 1 .. k : dma'[i] = reqData[d.off + i]
    <3>1. Len(p) <= Len(dma)
      BY <1>2, <2>7, <2>10
    <3> QED
      BY <1>2, <2>8, <2>10, <3>1, FrontFacts
  <2>12. InContinues
    <3>1. dev'.off = dev.off + Mps /\ dev'.residue = dev.residue - Mps
          /\ dev'.left = dev'.residue /\ dev'.txLen = Least(dev'.residue, Mps)
          /\ dev'.txTog = Flip(dev.txTog) /\ dev'.nextTx = dev'.txTog
          /\ dev'.tx = "ACK" /\ dev'.rx = "NAK" /\ dev'.state = "IN_DATA"
      BY <1>1, <1>3, <2>1, <2>2, <2>3, <2>5, <2>6
    <3>2. dev'.zlp <=> dev.zlp /\ dev.residue > Mps
      BY <1>1, <2>1, <2>5, <2>6
    <3>3. \A i \in 1 .. dev'.txLen : dma'[i] = reqData[dev'.off + i]
      BY <2>5, <2>6, <2>11 DEF k
    <3> QED
      BY <1>3, <2>1, <2>2, <3>1, <3>2, <3>3 DEF InContinues
  <2> QED
    BY <1>4, <2>6, <2>11, <2>12
<1>7. CASE dev.residue = dev.txLen /\ dev.zlp
  <2>1. dev.residue >= Mps /\ dev.txLen = Mps /\ dev.residue = Mps
    BY <1>2, <1>3, <1>7, PacketsLeft, LeastFacts
  <2>2. dev.setup.kind = "in" /\ dev.state = "IN_DATA"
    BY <1>2, <1>3, <1>7
  <2> DEFINE c == [d EXCEPT !.zlp = FALSE]
  <2>3. d.residue = 0 /\ d.zlp
    BY <1>1, <1>3, <1>7
  <2>4. a = StartWrite(c, 0)
    BY <2>3 DEF AfterIn
  <2>5. /\ c \in DevType /\ c.nextTx = d.nextTx /\ c.rx = d.rx /\ c.state = d.state
        /\ c.setup = d.setup /\ c.off = d.off /\ c.residue = 0 /\ c.zlp = FALSE
        /\ c.devAd = d.devAd /\ c.pend = d.pend
    BY <1>1, <2>3 DEF DevType
  <2> HIDE DEF a, c
  <2>6. 0 \in 0 .. BufLen /\ Least(0, Mps) = 0
    BY <1>3 DEF Least
  <2>7. /\ a \in DevType /\ a.tx = "ACK" /\ a.left = 0 /\ a.txLen = 0
        /\ a.txTog = d.nextTx /\ a.nextTx = d.nextTx
        /\ a.rx = d.rx /\ a.state = d.state /\ a.setup = d.setup /\ a.off = d.off
        /\ a.residue = 0 /\ a.zlp = FALSE /\ a.devAd = d.devAd /\ a.pend = d.pend
    BY <2>4, <2>5, <2>6, StartWriteFacts
  <2>8. /\ dev' \in DevType /\ dev'.setup = dev.setup /\ dev'.pend = 0
        /\ dev'.devAd = IF dev.pend > 0 THEN dev.pend ELSE dev.devAd
        /\ dev'.tx = a.tx /\ dev'.state = a.state
        /\ dev'.rx = a.rx /\ dev'.txTog = a.txTog /\ dev'.nextTx = a.nextTx
        /\ dev'.left = a.left /\ dev'.txLen = a.txLen
        /\ dev'.off = a.off /\ dev'.residue = a.residue /\ dev'.zlp = a.zlp
    BY <1>1, <1>5, <2>2, <2>7
  <2>9. dma' = dma
    BY <1>3, <1>4, <1>7
  <2>10. InContinues
    <3>1. dev'.off = dev.off + Mps
      BY <1>1, <2>1, <2>7, <2>8
    <3>4. dev'.residue = 0 /\ dev.residue - Mps = 0
      BY <1>3, <2>1, <2>7, <2>8
    <3>5. dev'.left = dev'.residue /\ dev'.txLen = Least(dev'.residue, Mps)
      BY <2>6, <2>7, <2>8, <3>4
    <3>6. d.nextTx = Flip(dev.txTog)
      BY <1>1, <2>1
    <3>7. dev'.txTog = Flip(dev.txTog) /\ dev'.nextTx = dev'.txTog
      BY <2>7, <2>8, <3>6
    <3>8. dev'.tx = "ACK" /\ dev'.rx = "NAK" /\ dev'.state = "IN_DATA"
      BY <1>1, <2>2, <2>7, <2>8
    <3>2. ~dev'.zlp /\ ~(dev.residue > Mps)
      BY <1>3, <2>1, <2>7, <2>8
    <3>3. \A i \in 1 .. dev'.txLen : dma'[i] = reqData[dev'.off + i]
      BY <2>7, <2>8
    <3> QED
      BY <1>3, <1>7, <2>1, <2>2, <3>1, <3>2, <3>3, <3>4, <3>5, <3>7, <3>8 DEF InContinues
  <2> QED
    BY <1>2, <1>4, <2>8, <2>9, <2>10
<1>8. CASE dev.residue = dev.txLen /\ ~dev.zlp
  <2>1. d.residue = 0 /\ ~d.zlp /\ dma' = dma
    BY <1>1, <1>3, <1>4, <1>8
  <2>2. CASE dev.setup.kind = "in"
    <3> DEFINE c == [d EXCEPT !.state = "OUT_STATUS"]
    <3>1. a = StartRead(c, Null, 0)
      BY <1>1, <2>1, <2>2 DEF AfterIn
    <3>2. /\ c \in DevType /\ c.tx = "NAK" /\ c.state = "OUT_STATUS" /\ c.setup = dev.setup
          /\ c.devAd = dev.devAd /\ c.pend = dev.pend
      BY <1>1 DEF DevType
    <3> HIDE DEF a, c
    <3>3. /\ a \in DevType /\ a.tx = "NAK" /\ a.state = "OUT_STATUS" /\ a.setup = dev.setup
          /\ a.devAd = dev.devAd /\ a.pend = dev.pend
      <4>1. Null \in Int /\ 0 \in Nat
        BY DEF Null
      <4> QED
        BY <3>1, <3>2, <4>1, StartReadFacts
    <3>4. /\ dev' \in DevType /\ dev'.setup = dev.setup /\ dev'.pend = 0
          /\ dev'.devAd = IF dev.pend > 0 THEN dev.pend ELSE dev.devAd
          /\ dev'.tx = "NAK" /\ dev'.state = "OUT_STATUS"
      BY <1>5, <3>3
    <3> QED
      BY <1>2, <1>4, <1>8, <2>1, <3>4 DEF InEnds
  <2>3. CASE dev.setup.kind # "in"
    <3>1. a = [d EXCEPT !.state = IF d.state = "IN_STATUS" THEN "SETUP" ELSE d.state]
      BY <1>1, <2>1, <2>3 DEF AfterIn, DevType
    <3>2. a = [d EXCEPT !.state = "SETUP"]
      BY <1>1, <1>2, <2>3, <3>1
    <3> HIDE DEF a
    <3>3. /\ a \in DevType /\ a.tx = "NAK" /\ a.state = "SETUP" /\ a.setup = dev.setup
          /\ a.devAd = dev.devAd /\ a.pend = dev.pend
      BY <1>1, <3>2 DEF DevType
    <3>4. /\ dev' \in DevType /\ dev'.setup = dev.setup /\ dev'.pend = 0
          /\ dev'.devAd = IF dev.pend > 0 THEN dev.pend ELSE dev.devAd
          /\ dev'.tx = "NAK" /\ dev'.state = "SETUP"
      BY <1>5, <3>3
    <3> QED
      BY <1>2, <1>4, <1>8, <2>1, <3>4 DEF InEnds
  <2> QED
    BY <2>2, <2>3
<1> QED
  BY <1>1, <1>3, <1>6, <1>7, <1>8

(***************************************************************************)
(* The IN data stage and the status stage on IN.                           *)
(***************************************************************************)

\* The host's side of an IN packet: a repeat of the last one, told by its
\* toggle, the next one of the answer, or the empty one of a status stage.
HostRepeats ==
  host.stage = "data" /\ dev.txTog # host.tog /\ host' = host

HostTakes ==
  /\ host.stage = "data" /\ dev.txTog = host.tog /\ host'.tog = Flip(host.tog)
  /\ host'.got = SubSeq(call.answer, 1, dev.off + dev.txLen)
  /\ host'.stage = IF dev.txLen < Mps \/ dev.off + dev.txLen = host.req.len
                   THEN "status" ELSE "data"
  /\ host'.addr = host.addr

HostIsDone ==
  /\ host.stage = "status" /\ host'.stage = "done" /\ host'.got = host.got
  /\ host'.addr = IF host.req.kind = "address" THEN host.req.addr ELSE host.addr

LEMMA InArmedFacts ==
  ASSUME Ep0Inv, dev.tx = "ACK"
  PROVE  /\ Mps \in Nat /\ Mps > 0 /\ BufLen \in Nat /\ dev.off \in Nat /\ dev.residue \in Nat
         /\ dev.txLen \in Nat /\ dev.txLen <= dev.residue /\ dev.txLen <= Mps
         /\ dev.txLen = dev.residue \/ dev.txLen = Mps
         /\ host.req.len \in Nat /\ host.tog \in {0, 1} /\ dev.txTog \in {0, 1}
         /\ call.answer \in Seq(Byte) /\ Len(call.answer) \in Nat
         /\ Size \in Nat /\ Size <= Len(call.answer) /\ Size <= host.req.len
<1>1. /\ dev \in DevType /\ host \in HostType /\ host.req \in RequestType
      /\ call \in CallType /\ dev.txLen = Least(dev.residue, Mps)
  BY DEF Ep0Inv, TypeInv, HostType, DeviceInv, InArmed
<1>2. Mps \in Nat /\ Mps > 0 /\ BufLen \in Nat
  BY Sizes
<1>3. /\ dev.off \in Nat /\ dev.residue \in Nat /\ dev.txTog \in {0, 1}
  BY <1>1, <1>2 DEF DevType
<1>4. host.req.len \in Nat /\ host.tog \in {0, 1} /\ call.answer \in Seq(Byte)
  BY <1>1 DEF HostType, RequestType, CallType
<1>5. Len(call.answer) \in Nat
  BY <1>4
<1>6. Size \in Nat /\ Size <= Len(call.answer) /\ Size <= host.req.len
  BY <1>4, <1>5, LeastFacts DEF Size
<1>7. /\ dev.txLen \in Nat /\ dev.txLen <= dev.residue /\ dev.txLen <= Mps
      /\ dev.txLen = dev.residue \/ dev.txLen = Mps
  BY <1>1, <1>2, <1>3, LeastFacts
<1> QED
  BY <1>2, <1>3, <1>4, <1>5, <1>6, <1>7

LEMMA HostInFacts ==
  ASSUME Ep0Inv, NEW heard \in BOOLEAN, HostIn(heard)
  PROVE  /\ dev.tx = "ACK" /\ (host.stage = "data" <=> host.req.kind = "in")
         /\ IF heard THEN InDone ELSE UNCHANGED <<dev, reqData, dma, call>>
         /\ host' \in HostType /\ host'.req = host.req /\ host'.sent = host.sent
         /\ HostRepeats \/ HostTakes \/ HostIsDone
<1> DEFINE p == SubSeq(dma, 1, dev.txLen)
<1>1. /\ dev.tx = "ACK" /\ (host.stage = "data" <=> host.req.kind = "in")
      /\ host.stage \in {"data", "status"}
      /\ IF heard THEN InDone ELSE UNCHANGED <<dev, reqData, dma, call>>
      /\ host' = IF dev.txTog # (IF host.stage = "status" THEN 1 ELSE host.tog) THEN host
                 ELSE [TakeIn(p) EXCEPT !.cut = ~heard /\ TakeIn(p).stage = "status"]
  BY DEF HostIn, Transferring
<1>2. host \in HostType /\ host.req \in RequestType /\ dma \in Seq(Byte) /\ Len(dma) = Mps
  BY DEF Ep0Inv, TypeInv, HostType
<1>3. /\ dev.txLen \in Nat /\ dev.txLen <= dev.residue /\ dev.txLen <= Mps
      /\ dev.off \in Nat /\ dev.residue \in Nat /\ Mps \in Nat
      /\ call.answer \in Seq(Byte) /\ Len(call.answer) \in Nat
      /\ Size \in Nat /\ Size <= Len(call.answer)
  BY <1>1, InArmedFacts
<1>4. p \in Seq(Byte) /\ Len(p) = dev.txLen /\ \A i \in 1 .. dev.txLen : p[i] = dma[i]
  BY <1>2, <1>3, PrefixFacts
<1> DEFINE c == (~heard /\ TakeIn(p).stage = "status")
<1>5. c \in BOOLEAN
  OBVIOUS
<1> HIDE DEF p, c
<1>6. CASE host.stage = "status"
  <2> DEFINE n == IF host.req.kind = "address" THEN host.req.addr ELSE host.addr
  <2>1. dev.txTog = 1
    BY <1>1, <1>6 DEF Ep0Inv, PipeInv, StatusIn
  <2>2. TakeIn(p) = [host EXCEPT !.stage = "done", !.addr = n]
    BY <1>2, <1>6 DEF TakeIn, HostType
  <2>3. n \in Addresses \cup {0}
    BY <1>2 DEF HostType, RequestType
  <2>4. host' = [TakeIn(p) EXCEPT !.cut = c]
    BY <1>1, <1>6, <2>1 DEF c
  <2> DEFINE h == [host EXCEPT !.stage = "done", !.addr = n]
  <2>5. host' = [h EXCEPT !.cut = c]
    BY <2>2, <2>4
  <2> HIDE DEF n
  <2>6. /\ h \in HostType /\ h.req = host.req /\ h.sent = host.sent /\ h.got = host.got
        /\ h.stage = "done" /\ h.addr = n
    BY <1>2, <2>3 DEF HostType
  <2> HIDE DEF h
  <2>7. /\ host' \in HostType /\ host'.req = host.req /\ host'.sent = host.sent
        /\ host'.got = host.got /\ host'.stage = "done" /\ host'.addr = n
    BY <1>5, <2>5, <2>6 DEF HostType
  <2> QED
    BY <1>1, <1>6, <2>7 DEF HostIsDone, n
<1>7. CASE host.stage = "data" /\ dev.txTog # host.tog
  BY <1>1, <1>2, <1>7 DEF HostRepeats
<1>8. CASE host.stage = "data" /\ dev.txTog = host.tog
  <2>1. /\ dev.off + dev.residue = Size
        /\ \A i \in 1 .. Size : reqData[i] = call.answer[i]
        /\ host.got = SubSeq(call.answer, 1, dev.off)
        /\ \A i \in 1 .. dev.txLen : dma[i] = reqData[dev.off + i]
    BY <1>1, <1>8 DEF Ep0Inv, PipeInv, InData, DeviceInv, InArmed
  <2>2. ASSUME NEW i \in 1 .. dev.txLen PROVE p[i] = call.answer[dev.off + i]
    <3>1. dev.off + i \in 1 .. Size
      BY <1>3, <2>1
    <3> QED
      BY <1>4, <2>1, <3>1
  <2>3. dev.off + dev.txLen <= Len(call.answer) /\ dev.off <= Len(call.answer)
    BY <1>3, <2>1
  <2>4. host.got \o p = SubSeq(call.answer, 1, dev.off + dev.txLen)
    <3> DEFINE s == call.answer
               m == dev.off
               n == dev.txLen
    <3>1. /\ s \in Seq(Byte) /\ m \in Nat /\ n \in Nat /\ m + n <= Len(s)
          /\ p \in Seq(Byte) /\ Len(p) = n /\ \A i \in 1 .. n : p[i] = s[m + i]
      BY <1>3, <1>4, <2>2, <2>3
    <3>2. host.got = SubSeq(s, 1, m)
      BY <2>1
    <3> HIDE DEF s, m, n
    <3>3. SubSeq(s, 1, m) \o p = SubSeq(s, 1, m + n)
      BY <3>1, PrefixGrows
    <3> QED
      BY <3>2, <3>3 DEF s, m, n
  <2>5. Len(host.got) = dev.off
    BY <1>3, <2>1, <2>3, PrefixFacts
  <2> DEFINE s == host.got \o p
             t == Flip(host.tog)
             g == IF dev.txLen < Mps \/ dev.off + dev.txLen = host.req.len
                  THEN "status" ELSE "data"
  <2>6. TakeIn(p) = [host EXCEPT !.got = s, !.tog = t, !.stage = g]
    BY <1>2, <1>4, <1>8, <2>5 DEF TakeIn, HostType
  <2>7. host' = [TakeIn(p) EXCEPT !.cut = c]
    BY <1>1, <1>8 DEF c
  <2>8. s \in Seq(Byte) /\ t \in {0, 1} /\ g \in {"status", "data"}
    <3>1. host.got \in Seq(Byte) /\ host.tog \in {0, 1}
      BY <1>2 DEF HostType
    <3> QED
      BY <1>4, <3>1 DEF Flip
  <2> DEFINE h == [host EXCEPT !.got = s, !.tog = t, !.stage = g]
  <2>9. host' = [h EXCEPT !.cut = c]
    BY <2>6, <2>7
  <2> HIDE DEF s, t, g
  <2>10. /\ h \in HostType /\ h.req = host.req /\ h.sent = host.sent /\ h.got = s
         /\ h.stage = g /\ h.addr = host.addr /\ h.tog = t
    BY <1>2, <2>8 DEF HostType
  <2> HIDE DEF h
  <2>11. /\ host' \in HostType /\ host'.req = host.req /\ host'.sent = host.sent
         /\ host'.got = s /\ host'.stage = g /\ host'.addr = host.addr /\ host'.tog = t
    BY <1>5, <2>9, <2>10 DEF HostType
  <2> QED
    BY <1>1, <1>8, <2>4, <2>11 DEF HostTakes, s, t, g
<1> QED
  BY <1>1, <1>6, <1>7, <1>8

\* Whatever follows a packet, the device's state fits together again.
LEMMA InDoneKeeps ==
  ASSUME Ep0Inv, dev.tx = "ACK", dev' \in DevType, dev'.setup = dev.setup,
         UNCHANGED reqData, InContinues \/ InEnds
  PROVE  DeviceInv'
<1>1. CASE InEnds
  BY <1>1 DEF DeviceInv, InArmed, OutArmed, InEnds
<1>2. CASE InContinues
  <2>1. /\ dev.off + dev.residue <= BufLen
        /\ dev.zlp => dev.residue % Mps = 0
    BY DEF Ep0Inv, DeviceInv, InArmed
  <2>2. /\ Mps \in Nat /\ Mps > 0 /\ BufLen \in Nat /\ dev.off \in Nat /\ dev.residue \in Nat
    BY InArmedFacts
  <2>3. dev'.off + dev'.residue <= BufLen
    BY <1>2, <2>1, <2>2 DEF InContinues
  <2>4. dev'.zlp => dev'.residue > 0 /\ dev'.residue % Mps = 0
    <3>1. SUFFICES ASSUME dev'.zlp PROVE dev'.residue > 0 /\ dev'.residue % Mps = 0
      OBVIOUS
    <3>2. dev.zlp /\ dev.residue > Mps /\ dev'.residue = dev.residue - Mps
      BY <1>2, <3>1 DEF InContinues
    <3>3. dev.residue >= Mps
      BY <2>2, <3>2
    <3>4. (dev.residue - Mps) % Mps = dev.residue % Mps
      BY <2>2, <3>3, PacketsLeft
    <3> QED
      BY <2>1, <2>2, <3>2, <3>4
  <2>5. InArmed'
    <3>1. /\ dev'.state = "IN_DATA" /\ dev'.rx = "NAK"
          /\ dev'.left = dev'.residue /\ dev'.txLen = Least(dev'.residue, Mps)
          /\ dev'.txTog = dev'.nextTx /\ dev'.setup.kind = "in"
      BY <1>2 DEF InContinues
    <3>2. \A i \in 1 .. dev'.txLen : dma'[i] = reqData'[dev'.off + i]
      BY <1>2 DEF InContinues
    <3> QED
      BY <2>3, <2>4, <3>1, <3>2 DEF InArmed
  <2>6. OutArmed'
    BY <1>2 DEF OutArmed, InContinues
  <2> QED
    BY <2>5, <2>6 DEF DeviceInv
<1> QED
  BY <1>1, <1>2

\* The data stage goes on on both sides.
LEMMA InDataKeeps ==
  ASSUME Ep0Inv, dev.tx = "ACK", host.stage = "data", host.req.kind = "in",
         host'.req = host.req, HostRepeats \/ (HostTakes /\ host'.stage = "data"),
         UNCHANGED <<reqData, call>>,
         UNCHANGED dev \/ InContinues \/ InEnds
  PROVE  InData'
<1>1. /\ CallDone /\ call.ok
      /\ dev.off + dev.residue = Size
      /\ \A i \in 1 .. Size : reqData[i] = call.answer[i]
      /\ dev.residue > 0 => (dev.zlp <=> Size # host.req.len /\ dev.residue % Mps = 0)
      /\ host.got = SubSeq(call.answer, 1, IF dev.txTog = host.tog THEN dev.off
                                           ELSE dev.off + dev.txLen)
      /\ dev.txTog # host.tog => dev.txLen = Mps /\ dev.off + Mps # host.req.len
  BY DEF Ep0Inv, PipeInv, InData
<1>2. /\ Mps \in Nat /\ Mps > 0 /\ dev.off \in Nat /\ dev.residue \in Nat
      /\ dev.txLen \in Nat /\ dev.txLen <= Mps /\ host.req.len \in Nat
      /\ host.tog \in {0, 1} /\ dev.txTog \in {0, 1} /\ Size \in Nat
  BY InArmedFacts
<1>3. CallDone' /\ Size' = Size /\ call' = call /\ reqData' = reqData
  BY <1>1 DEF CallDone, Size
<1>4. ASSUME dev'.tx = "NAK" PROVE InData'
  BY <1>3, <1>4 DEF InData
<1>5. CASE HostRepeats
  <2>1. host' = host /\ dev.txTog # host.tog
    BY <1>5 DEF HostRepeats
  <2>2. CASE UNCHANGED dev
    BY <1>1, <1>3, <2>1, <2>2 DEF InData
  <2>3. CASE InContinues
    <3>1. dev'.txTog = host'.tog
      BY <1>2, <2>1, <2>3 DEF InContinues, Flip
    <3>2. host'.got = SubSeq(call'.answer, 1, dev'.off)
      BY <1>1, <1>3, <2>1, <2>3 DEF InContinues
    <3>3. dev'.off + dev'.residue = Size'
      BY <1>1, <1>2, <1>3, <2>3 DEF InContinues
    <3>4. dev'.residue > 0 => (dev'.zlp <=> Size' # host'.req.len /\ dev'.residue % Mps = 0)
      <4>1. SUFFICES ASSUME dev'.residue > 0
                     PROVE  dev'.zlp <=> Size' # host'.req.len /\ dev'.residue % Mps = 0
        OBVIOUS
      <4>2. dev'.residue = dev.residue - Mps /\ dev.residue > Mps /\ dev.residue > 0
            /\ dev.residue >= Mps
        BY <1>2, <2>3, <4>1 DEF InContinues
      <4>3. dev'.residue % Mps = dev.residue % Mps
        BY <1>2, <4>2, PacketsLeft
      <4>4. dev'.zlp <=> dev.zlp
        BY <2>3, <4>2 DEF InContinues
      <4> QED
        BY <1>1, <1>3, <4>2, <4>3, <4>4
    <3> QED
      BY <1>1, <1>3, <3>1, <3>2, <3>3, <3>4 DEF InData
  <2>4. CASE InEnds
    BY <1>4, <2>4 DEF InEnds
  <2> QED
    BY <2>2, <2>3, <2>4
<1>6. CASE HostTakes /\ host'.stage = "data"
  <2>1. /\ dev.txTog = host.tog /\ host'.tog = Flip(host.tog)
        /\ host'.got = SubSeq(call.answer, 1, dev.off + dev.txLen)
        /\ ~(dev.txLen < Mps) /\ dev.off + dev.txLen # host.req.len
    BY <1>6 DEF HostTakes
  <2>2. dev.txLen = Mps
    BY <1>2, <2>1
  <2>3. CASE UNCHANGED dev
    <3>1. dev'.txTog # host'.tog
      BY <1>2, <2>1, <2>3 DEF Flip
    <3> QED
      BY <1>1, <1>3, <2>1, <2>2, <2>3, <3>1 DEF InData
  <2>4. CASE InContinues
    <3>1. dev'.txTog = host'.tog
      BY <1>2, <2>1, <2>4 DEF InContinues, Flip
    <3>2. host'.got = SubSeq(call'.answer, 1, dev'.off)
      BY <1>1, <1>3, <2>1, <2>2, <2>4 DEF InContinues
    <3>3. dev'.off + dev'.residue = Size'
      BY <1>1, <1>2, <1>3, <2>4 DEF InContinues
    <3>4. dev'.residue > 0 => (dev'.zlp <=> Size' # host'.req.len /\ dev'.residue % Mps = 0)
      <4>1. SUFFICES ASSUME dev'.residue > 0
                     PROVE  dev'.zlp <=> Size' # host'.req.len /\ dev'.residue % Mps = 0
        OBVIOUS
      <4>2. dev'.residue = dev.residue - Mps /\ dev.residue > Mps /\ dev.residue > 0
            /\ dev.residue >= Mps
        BY <1>2, <2>4, <4>1 DEF InContinues
      <4>3. dev'.residue % Mps = dev.residue % Mps
        BY <1>2, <4>2, PacketsLeft
      <4>4. dev'.zlp <=> dev.zlp
        BY <2>4, <4>2 DEF InContinues
      <4> QED
        BY <1>1, <1>3, <4>2, <4>3, <4>4
    <3> QED
      BY <1>1, <1>3, <3>1, <3>2, <3>3, <3>4 DEF InData
  <2>5. CASE InEnds
    BY <1>4, <2>5 DEF InEnds
  <2> QED
    BY <2>3, <2>4, <2>5
<1> QED
  BY <1>5, <1>6

LEMMA InKeeps ==
  ASSUME Ep0Inv, NEW heard \in BOOLEAN, HostIn(heard)
  PROVE  Ep0Inv'
<1>1. /\ dev.tx = "ACK" /\ (host.stage = "data" <=> host.req.kind = "in")
      /\ IF heard THEN InDone ELSE UNCHANGED <<dev, reqData, dma, call>>
      /\ host' \in HostType /\ host'.req = host.req /\ host'.sent = host.sent
      /\ HostRepeats \/ HostTakes \/ HostIsDone
  BY HostInFacts
<1>2. /\ used' \in [transfers : Nat, lost : Nat, resets : Nat]
      /\ used'.transfers = used.transfers
  BY HeardFacts DEF Ep0Inv, HostIn
<1>3. /\ dev' \in DevType /\ dev'.setup = dev.setup
      /\ dma' \in Seq(Byte) /\ Len(dma') = Mps /\ UNCHANGED <<reqData, call>>
      /\ UNCHANGED dev \/ InContinues \/ InEnds
      /\ DeviceInv'
  <2>1. CASE heard
    <3>1. /\ dev' \in DevType /\ dev'.setup = dev.setup
          /\ dma' \in Seq(Byte) /\ Len(dma') = Mps /\ UNCHANGED <<reqData, call>>
          /\ InContinues \/ InEnds
      BY <1>1, <2>1, InDoneFacts DEF Ep0Inv
    <3> QED
      BY <1>1, <3>1, InDoneKeeps
  <2>2. CASE ~heard
    <3>1. UNCHANGED <<dev, reqData, dma, call>>
      BY <1>1, <2>2
    <3> QED
      BY <3>1 DEF Ep0Inv, TypeInv, DeviceInv, InArmed, OutArmed
  <2> QED
    BY <2>1, <2>2
<1>4. host.stage \in {"data", "status"} /\ host'.stage # "idle"
  BY <1>1 DEF HostRepeats, HostTakes, HostIsDone
<1>5. TypeInv'
  BY <1>1, <1>2, <1>3 DEF Ep0Inv, TypeInv
<1>6. Linked'
  <2>1. host.req.kind # "in" => host'.got = host.got
    BY <1>1 DEF HostRepeats, HostTakes, HostIsDone
  <2>2. dev.setup = host.req /\ host.req.id \in 1 .. used.transfers
    BY <1>4 DEF Ep0Inv, Linked
  <2> QED
    BY <1>1, <1>2, <1>3, <1>4, <2>1, <2>2 DEF Ep0Inv, Linked
<1>7. OutData' /\ StatusIn'
  BY <1>1 DEF OutData, StatusIn, HostRepeats, HostTakes, HostIsDone
<1>8. InData'
  <2>1. CASE host'.stage = "data" /\ host.req.kind = "in"
    <3>1. HostRepeats \/ (HostTakes /\ host'.stage = "data")
      BY <1>1, <2>1 DEF HostIsDone
    <3> QED
      BY <1>1, <1>3, <2>1, <3>1, InDataKeeps
  <2>2. CASE ~(host'.stage = "data" /\ host.req.kind = "in")
    BY <1>1, <2>2 DEF InData
  <2> QED
    BY <2>1, <2>2
<1>9. Taken'
  <2>1. CASE HostRepeats
    BY <1>1, <2>1 DEF HostRepeats, Taken
  <2>2. CASE HostTakes
    <3>1. CASE host'.stage = "data"
      BY <3>1 DEF Taken
    <3>2. CASE host'.stage = "status"
      <4>1. /\ CallDone /\ call.ok /\ dev.off + dev.residue = Size
        BY <1>1, <2>2 DEF Ep0Inv, PipeInv, InData, HostTakes
      <4>2. dev.txLen < Mps \/ dev.off + dev.txLen = host.req.len
        BY <2>2, <3>2 DEF HostTakes
      <4>3. /\ Mps \in Nat /\ dev.off \in Nat /\ dev.residue \in Nat
            /\ dev.txLen \in Nat /\ dev.txLen <= dev.residue
            /\ dev.txLen = dev.residue \/ dev.txLen = Mps
            /\ host.req.len \in Nat /\ Size \in Nat /\ Size <= host.req.len
        BY <1>1, InArmedFacts
      <4>4. dev.off + dev.txLen = Size
        BY <4>1, <4>2, <4>3
      <4>5. CallDone' /\ call'.ok /\ Size' = Size
        BY <1>1, <1>3, <4>1 DEF CallDone, Size
      <4> QED
        BY <1>3, <2>2, <4>4, <4>5 DEF Taken, HostTakes
    <3> QED
      BY <2>2, <3>1, <3>2 DEF HostTakes
  <2>3. CASE HostIsDone
    <3>1. host.req.kind # "in" /\ CallDone /\ call.ok
      BY <1>1, <2>3 DEF HostIsDone, Ep0Inv, PipeInv, StatusIn
    <3> QED
      BY <1>1, <1>3, <3>1 DEF Taken, CallDone
  <2> QED
    BY <1>1, <2>1, <2>2, <2>3
<1> QED
  BY <1>3, <1>5, <1>6, <1>7, <1>8, <1>9 DEF Ep0Inv, PipeInv

(***************************************************************************)
(* The other steps, and the inductive invariant.                           *)
(***************************************************************************)

LEMMA OutStatusKeeps ==
  ASSUME Ep0Inv, NEW heard \in BOOLEAN, HostOutStatus(heard)
  PROVE  Ep0Inv'
<1>1. /\ host.stage = "status" /\ host.req.kind = "in" /\ dev.rx = "ACK"
      /\ host' = IF heard THEN [host EXCEPT !.stage = "done"] ELSE host
      /\ UNCHANGED <<reqData, dma, call>>
      /\ dev' = [Rearm(dev) EXCEPT !.nextRx = 1, !.state = "SETUP"] \/ UNCHANGED dev
  BY DEF HostOutStatus, OutStatusDone
<1>2. dev \in DevType /\ host \in HostType /\ dev.tx # "ACK"
  BY <1>1 DEF Ep0Inv, TypeInv, DeviceInv, InArmed
<1>3. /\ host' \in HostType /\ host'.req = host.req /\ host'.got = host.got
      /\ host'.stage \in {"status", "done"}
  BY <1>1, <1>2 DEF HostType
<1>4. /\ dev' \in DevType /\ dev'.setup = dev.setup /\ dev'.tx # "ACK"
      /\ OutArmed'
  <2>1. CASE UNCHANGED dev
    BY <1>1, <1>2, <2>1 DEF Ep0Inv, DeviceInv, OutArmed
  <2>2. CASE dev' = [Rearm(dev) EXCEPT !.nextRx = 1, !.state = "SETUP"]
    <3> DEFINE e == Rearm(dev)
    <3>1. e \in DevType /\ e.tx = dev.tx /\ e.setup = dev.setup
      BY <1>2, RearmFacts
    <3>2. dev' = [e EXCEPT !.nextRx = 1, !.state = "SETUP"]
      BY <2>2
    <3> HIDE DEF e
    <3>3. dev' \in DevType /\ dev'.tx = e.tx /\ dev'.setup = e.setup /\ dev'.state = "SETUP"
      BY <3>1, <3>2 DEF DevType
    <3> QED
      BY <1>2, <3>1, <3>3 DEF OutArmed
  <2> QED
    BY <1>1, <2>1, <2>2
<1>5. /\ used' \in [transfers : Nat, lost : Nat, resets : Nat]
      /\ used'.transfers = used.transfers
  BY HeardFacts DEF Ep0Inv, HostOutStatus
<1>6. TypeInv'
  BY <1>1, <1>3, <1>4, <1>5 DEF Ep0Inv, TypeInv
<1>7. Linked'
  BY <1>1, <1>3, <1>4, <1>5 DEF Ep0Inv, Linked
<1>8. DeviceInv'
  BY <1>4 DEF DeviceInv, InArmed
<1>9. PipeInv'
  <2>1. CallDone /\ call.ok /\ host.got = SubSeq(call.answer, 1, Size)
    BY <1>1 DEF Ep0Inv, PipeInv, Taken
  <2>2. CallDone' /\ call'.ok /\ host'.got = SubSeq(call'.answer, 1, Size')
    BY <1>1, <1>3, <2>1 DEF CallDone, Size
  <2>3. Taken'
    BY <2>2 DEF Taken
  <2>4. OutData' /\ StatusIn' /\ InData'
    BY <1>1, <1>3 DEF OutData, StatusIn, InData
  <2> QED
    BY <2>3, <2>4 DEF PipeInv
<1> QED
  BY <1>6, <1>7, <1>8, <1>9 DEF Ep0Inv

LEMMA StallKeeps ==
  ASSUME Ep0Inv, HostSeesStall
  PROVE  Ep0Inv'
<1>1. /\ host' = [host EXCEPT !.stage = "failed"] /\ host.stage # "idle"
      /\ UNCHANGED <<dev, reqData, dma, call, used>>
  BY DEF HostSeesStall, Transferring
<1>2. /\ host' \in HostType /\ host'.req = host.req /\ host'.got = host.got
      /\ host'.stage = "failed"
  BY <1>1 DEF Ep0Inv, TypeInv, HostType
<1>3. TypeInv'
  BY <1>1, <1>2 DEF Ep0Inv, TypeInv
<1>4. Linked'
  BY <1>1, <1>2 DEF Ep0Inv, Linked
<1>5. DeviceInv'
  BY <1>1 DEF Ep0Inv, DeviceInv, InArmed, OutArmed
<1>6. PipeInv'
  BY <1>2 DEF PipeInv, OutData, StatusIn, InData, Taken
<1> QED
  BY <1>3, <1>4, <1>5, <1>6 DEF Ep0Inv

LEMMA InitTypes ==
  /\ NoRequest \in RequestType /\ InitDev \in DevType /\ InitHost \in HostType
  /\ NoCall \in CallType /\ <<>> \in Seq(Byte)
<1>1. NoRequest \in RequestType
  BY DEF NoRequest, RequestType, Kinds
<1>2. 0 \in 0 .. Mps /\ 0 \in 0 .. BufLen
  BY Sizes
<1>3. InitDev \in DevType
  BY <1>1, <1>2 DEF InitDev, DevType
<1>4. <<>> \in Seq(Byte)
  OBVIOUS
<1>5. InitHost \in HostType
  BY <1>1, <1>4 DEF InitHost, HostType
<1>6. NoCall \in CallType
  BY <1>4 DEF NoCall, CallType
<1> QED
  BY <1>1, <1>3, <1>4, <1>5, <1>6

\* A bus reset disarms both directions and forgets the pending address; what
\* the core keeps of the last transfer is not used before the next SETUP.
LEMMA ResetFacts ==
  ASSUME NEW d \in DevType
  PROVE  LET e == AfterReset(d)
         IN  e \in DevType /\ e.tx = "NAK" /\ e.state = "SETUP" /\ e.devAd = 0 /\ e.pend = 0
<1>1. InitDev \in DevType /\ InitDev.tx = "NAK" /\ InitDev.state = "SETUP"
      /\ InitDev.devAd = 0 /\ InitDev.pend = 0
  BY InitTypes DEF InitDev
<1>2. /\ d.copyTo \in Int /\ d.setup \in RequestType /\ d.off \in 0 .. BufLen
      /\ d.residue \in Nat /\ d.zlp \in BOOLEAN
  BY DEF DevType
<1> DEFINE a == [InitDev EXCEPT !.copyTo = d.copyTo]
           b == [a EXCEPT !.setup = d.setup, !.off = d.off]
           c == [b EXCEPT !.residue = d.residue, !.zlp = d.zlp]
<1>3. AfterReset(d) = c
  BY <1>1 DEF AfterReset, DevType
<1>4. a \in DevType /\ a.tx = "NAK" /\ a.state = "SETUP" /\ a.devAd = 0 /\ a.pend = 0
  BY <1>1, <1>2 DEF DevType
<1> HIDE DEF a
<1>5. b \in DevType /\ b.tx = "NAK" /\ b.state = "SETUP" /\ b.devAd = 0 /\ b.pend = 0
  BY <1>2, <1>4 DEF DevType
<1> HIDE DEF b
<1>6. c \in DevType /\ c.tx = "NAK" /\ c.state = "SETUP" /\ c.devAd = 0 /\ c.pend = 0
  BY <1>2, <1>5 DEF DevType
<1> QED
  BY <1>3, <1>6

LEMMA IdleKeeps ==
  ASSUME DropsRepeats, TypeInv', host' = InitHost, call'.id <= used'.transfers,
         dev'.tx = "NAK", dev'.state = "SETUP"
  PROVE  Ep0Inv'
<1>1. /\ host'.stage = "idle" /\ host'.req = NoRequest /\ host'.got = <<>>
      /\ NoRequest.id = 0 /\ NoRequest.kind = "none" /\ NoRequest.len = 0
  BY DEF InitHost, NoRequest
<1>2. 0 <= used'.transfers
  BY DEF TypeInv
<1>3. Linked'
  BY <1>1, <1>2 DEF Linked
<1>4. DeviceInv' /\ PipeInv'
  BY <1>1 DEF DeviceInv, InArmed, OutArmed, PipeInv, OutData, StatusIn, InData, Taken
<1> QED
  BY <1>3, <1>4 DEF Ep0Inv

LEMMA ResetKeeps ==
  ASSUME Ep0Inv, BusReset
  PROVE  Ep0Inv'
<1>1. /\ dev' = AfterReset(dev) /\ host' = InitHost /\ UNCHANGED <<reqData, dma, call>>
      /\ used' = [used EXCEPT !.resets = @ + 1]
      /\ TypeInv /\ call.id <= used.transfers
  BY DEF Ep0Inv, Linked, BusReset
<1>2. dev' \in DevType /\ dev'.tx = "NAK" /\ dev'.state = "SETUP"
  BY <1>1, ResetFacts DEF TypeInv
<1>3. /\ used' \in [transfers : Nat, lost : Nat, resets : Nat]
      /\ used'.transfers = used.transfers
  BY <1>1 DEF TypeInv
<1>4. TypeInv'
  BY <1>1, <1>2, <1>3, InitTypes DEF TypeInv
<1> QED
  BY <1>1, <1>2, <1>3, <1>4, IdleKeeps DEF Ep0Inv

LEMMA InitEp0 ==
  ASSUME Ep0Init, DropsRepeats
  PROVE  Ep0Inv
<1>1. /\ dev = InitDev /\ host = InitHost /\ call = NoCall
      /\ used = [transfers |-> 0, lost |-> 0, resets |-> 0]
      /\ reqData = [i \in 1 .. BufLen |-> <<0, 0>>] /\ dma = [i \in 1 .. Mps |-> <<0, 0>>]
  BY DEF Ep0Init
<1>2. <<0, 0>> \in Byte
  BY DEF Byte
<1>3. /\ reqData \in Seq(Byte) /\ Len(reqData) = BufLen
      /\ dma \in Seq(Byte) /\ Len(dma) = Mps
  BY <1>1, <1>2, Sizes
<1>4. used \in [transfers : Nat, lost : Nat, resets : Nat]
  BY <1>1
<1>5. TypeInv
  BY <1>1, <1>3, <1>4, InitTypes DEF TypeInv
<1>6. /\ host.stage = "idle" /\ host.req = NoRequest /\ host.got = <<>> /\ call.id = 0
      /\ used.transfers = 0 /\ dev.tx = "NAK" /\ dev.state = "SETUP"
      /\ NoRequest.id = 0 /\ NoRequest.kind = "none" /\ NoRequest.len = 0
  BY <1>1 DEF InitHost, InitDev, NoCall, NoRequest
<1>7. Linked
  BY <1>6 DEF Linked
<1>8. DeviceInv /\ PipeInv
  BY <1>6 DEF DeviceInv, InArmed, OutArmed, PipeInv, OutData, StatusIn, InData, Taken
<1> QED
  BY <1>5, <1>7, <1>8 DEF Ep0Inv

LEMMA NextKeepsEp0 ==
  ASSUME Ep0Inv, [Ep0Next]_ep0Vars
  PROVE  Ep0Inv'
<1>1. CASE UNCHANGED ep0Vars
  BY <1>1 DEF ep0Vars, Ep0Inv, TypeInv, Linked, DeviceInv, InArmed, OutArmed, PipeInv, OutData,
              StatusIn, InData, Taken, CallDone, NextOut, Size
<1>2. ASSUME NEW heard \in BOOLEAN, Transact(heard) PROVE Ep0Inv'
  BY <1>2, OutKeeps, InKeeps, OutStatusKeeps DEF Transact
<1>3. CASE HostSetup
  BY <1>3, SetupKeeps
<1>4. CASE HostSeesStall
  BY <1>4, StallKeeps
<1>5. CASE BusReset
  BY <1>5, ResetKeeps
<1> QED
  BY <1>1, <1>2, <1>3, <1>4, <1>5 DEF Ep0Next

\* Port, core and host agree on where a control transfer is, whichever
\* handshakes are lost, transfers abandoned and resets seen.
THEOREM Ep0Invariant == DropsRepeats => (Ep0Spec => []Ep0Inv)
<1> SUFFICES ASSUME DropsRepeats PROVE Ep0Spec => []Ep0Inv
  OBVIOUS
<1>1. Ep0Init => Ep0Inv
  BY InitEp0
<1>2. Ep0Inv /\ [Ep0Next]_ep0Vars => Ep0Inv'
  BY NextKeepsEp0
<1> QED
  BY <1>1, <1>2, PTL DEF Ep0Spec

\* The variables of device and host have their types, and no armed packet is
\* longer than endpoint 0 takes.
THEOREM Ep0Types == DropsRepeats => (Ep0Spec => []Ep0TypeOK)
<1> SUFFICES ASSUME DropsRepeats PROVE Ep0Spec => []Ep0TypeOK
  OBVIOUS
<1>1. ASSUME Ep0Inv PROVE Ep0TypeOK
  BY <1>1 DEF Ep0Inv, TypeInv, DevType, HostType, Ep0TypeOK
<1> QED
  BY <1>1, Ep0Invariant, PTL

\* The port copies each packet of an OUT data stage to where the core counts
\* it, inside the request buffer.
THEOREM OutStageInBounds == DropsRepeats => (Ep0Spec => []CopiesWhereCoreCounts)
<1> SUFFICES ASSUME DropsRepeats PROVE Ep0Spec => []CopiesWhereCoreCounts
  OBVIOUS
<1>1. ASSUME Ep0Inv PROVE CopiesWhereCoreCounts
  BY <1>1 DEF Ep0Inv, DeviceInv, OutArmed, CopiesWhereCoreCounts
<1> QED
  BY <1>1, Ep0Invariant, PTL

\* No SETUP or OUT packet overwrites the IN packet armed in the DMA buffer
\* they share.
THEOREM ArmedPacketStays == DropsRepeats => (Ep0Spec => []ArmedPacketIntact)
<1> SUFFICES ASSUME DropsRepeats PROVE Ep0Spec => []ArmedPacketIntact
  OBVIOUS
<1>1. ASSUME Ep0Inv PROVE ArmedPacketIntact
  <2> SUFFICES ASSUME dev.tx = "ACK"
               PROVE  /\ dev.txLen = Least(dev.residue, Mps)
                      /\ SubSeq(dma, 1, dev.txLen) = Rest(reqData, dev.off, dev.txLen)
    BY DEF ArmedPacketIntact
  <2>1. /\ dev.txLen = Least(dev.residue, Mps) /\ dev.off + dev.residue <= BufLen
        /\ \A i \in 1 .. dev.txLen : dma[i] = reqData[dev.off + i]
        /\ dma \in Seq(Byte) /\ Len(dma) = Mps
        /\ reqData \in Seq(Byte) /\ Len(reqData) = BufLen
    BY <1>1 DEF Ep0Inv, TypeInv, DeviceInv, InArmed
  <2>2. /\ Mps \in Nat /\ BufLen \in Nat /\ dev.off \in Nat /\ dev.residue \in Nat
        /\ dev.txLen \in Nat /\ dev.txLen <= dev.residue /\ dev.txLen <= Mps
    BY <1>1, InArmedFacts
  <2> DEFINE s == SubSeq(dma, 1, dev.txLen)
             t == Rest(reqData, dev.off, dev.txLen)
  <2>3. s \in Seq(Byte) /\ Len(s) = dev.txLen /\ \A i \in 1 .. dev.txLen : s[i] = dma[i]
    BY <2>1, <2>2, PrefixFacts
  <2>4. dev.off + dev.txLen <= Len(reqData)
    BY <2>1, <2>2
  <2>5. t \in Seq(Byte) /\ Len(t) = dev.txLen
        /\ \A i \in 1 .. dev.txLen : t[i] = reqData[dev.off + i]
    <3> DEFINE m == dev.off
               n == dev.txLen
    <3>1. m \in Nat /\ n \in Nat /\ m + n <= Len(reqData) /\ t = Rest(reqData, m, n)
      BY <2>2, <2>4
    <3> HIDE DEF m, n, t
    <3>2. t \in Seq(Byte) /\ Len(t) = n /\ \A i \in 1 .. n : t[i] = reqData[m + i]
      BY <2>1, <3>1, RestFacts
    <3> QED
      BY <3>2 DEF m, n
  <2> HIDE DEF s, t
  <2>6. s = t
    BY <2>1, <2>3, <2>5, SameSequence
  <2> QED
    BY <2>1, <2>6 DEF s, t
<1> QED
  BY <1>1, Ep0Invariant, PTL

(***************************************************************************)
(* The control pipe ControlPipe promises.                                  *)
(***************************************************************************)

\* A request as the pipe sees it, and what it holds of host and handler.
OnPipe(r) ==
  [id |-> r.id, kind |-> r.kind, len |-> r.len, addr |-> r.addr, in |-> r.kind = "in"]
PipeAsked    == IF host.req.id = 0 THEN [id |-> 0] ELSE OnPipe(host.req)
PipeReceived == IF host.stage = "done" THEN host.got ELSE <<>>

\* What is to show of a step for each action of the pipe.
LEMMA AskStep ==
  ASSUME NEW r \in PipeRequests, PipeAsked' = r, Told' = "waiting", PipeReceived' = <<>>,
         \/ Outcome' = "open" /\ Mine(call.data)' = <<>> /\ Mine(call.answer)' = <<>>
         \/ /\ Payload(r) = <<>> /\ Outcome' \in {"accepted", "refused"}
            /\ Mine(call.data)' = <<>> /\ Mine(call.answer)' \in Answers(r)
  PROVE  Pipe!Next
<1>1. Pipe!Ask(r)
  BY DEF Pipe!Ask, PipeAsked, PipeReceived, OnPipe
<1> QED
  BY <1>1 DEF Pipe!Next

LEMMA CallStep ==
  ASSUME host.req.id # 0, Outcome = "open", Outcome' \in {"accepted", "refused"},
         Mine(call.data)' = Payload(OnPipe(host.req)),
         Mine(call.answer)' \in Answers(OnPipe(host.req)),
         host'.req = host.req, Told' = Told, PipeReceived' = PipeReceived
  PROVE  Pipe!Next
<1>1. PipeAsked = OnPipe(host.req)
  BY DEF PipeAsked
<1>2. UNCHANGED <<PipeAsked, Told, PipeReceived>>
  BY DEF PipeAsked, OnPipe
<1>3. Pipe!Call
  BY <1>1, <1>2 DEF Pipe!Call, PipeAsked, PipeReceived, OnPipe
<1> QED
  BY <1>3 DEF Pipe!Next

LEMMA FinishStep ==
  ASSUME host.req.id # 0, call.id = host.req.id, call.ok, Told = "waiting", Told' = "done",
         host'.req = host.req, call' = call,
         host.req.len \in Nat, call.answer \in Seq(Byte),
         PipeReceived' = IF host.req.kind = "in" THEN SubSeq(call.answer, 1, Size) ELSE <<>>
  PROVE  Pipe!Next
<1>1. PipeAsked = OnPipe(host.req) /\ Outcome = "accepted" /\ Mine(call.answer) = call.answer
  BY DEF PipeAsked, Outcome, Mine
<1>2. UNCHANGED <<PipeAsked, Outcome, Mine(call.data), Mine(call.answer)>>
  BY DEF PipeAsked, OnPipe, Outcome, Mine
<1>3. Size = IF host.req.len < Len(call.answer) THEN host.req.len ELSE Len(call.answer)
  <2>1. Len(call.answer) \in Nat /\ host.req.len \in Nat
    OBVIOUS
  <2> QED
    BY <2>1 DEF Size, Least
<1>4. Pipe!Finish
  BY <1>1, <1>2, <1>3 DEF Pipe!Finish, PipeAsked, PipeReceived, OnPipe
<1> QED
  BY <1>4 DEF Pipe!Next

LEMMA PipeStutters ==
  ASSUME host'.req = host.req, call' = call, Told' = Told, PipeReceived' = PipeReceived
  PROVE  UNCHANGED Pipe!pipeVars
<1>1. UNCHANGED <<PipeAsked, Outcome, Mine(call.data), Mine(call.answer)>>
  BY DEF PipeAsked, OnPipe, Outcome, Mine
<1> QED
  BY <1>1 DEF Pipe!pipeVars, PipeAsked, PipeReceived, OnPipe

(***************************************************************************)
(* Every step is one of the pipe's, or a stutter.                          *)
(***************************************************************************)

LEMMA SetupRefines ==
  ASSUME Ep0Inv, HostSetup
  PROVE  Pipe!Next
<1>1. PICK r \in Requests(used.transfers + 1) : SetupComplete(r) /\ HostAsks(r)
  BY DEF HostSetup, HostAsks
<1>2. used.transfers < MaxTransfers /\ used.transfers \in Nat /\ MaxTransfers \in Nat
  BY Ep0Assumption DEF HostSetup, Ep0Inv, TypeInv
<1>3. /\ r \in RequestType /\ r.id = used.transfers + 1 /\ call.id < r.id
      /\ host'.req = r /\ host'.stage \in {"data", "status"}
  BY <1>1, AskFacts DEF Ep0Inv
<1>4. r.id # 0 /\ call.id # r.id
  BY <1>2, <1>3 DEF Ep0Inv, TypeInv, CallType
<1>5. OnPipe(r) \in PipeRequests
  <2>1. used.transfers + 1 \in 1 .. MaxTransfers
    BY <1>2
  <2>2. r \in UNION {Requests(i) : i \in 1 .. MaxTransfers}
    BY <1>1, <2>1
  <2> QED
    BY <2>2 DEF PipeRequests, OnPipe
<1>6. PipeAsked' = OnPipe(r) /\ Told' = "waiting" /\ PipeReceived' = <<>>
  BY <1>3, <1>4 DEF PipeAsked, OnPipe, Told, Transferring, PipeReceived
<1>7. CASE SetupOversize(r) \/ SetupOut(r)
  <2>1. call' = call
    BY <1>7 DEF SetupOversize, SetupOut
  <2>2. Outcome' = "open" /\ Mine(call.data)' = <<>> /\ Mine(call.answer)' = <<>>
    BY <1>3, <1>4, <2>1 DEF Outcome, Mine
  <2> QED
    BY <1>5, <1>6, <2>2, AskStep
<1>8. ASSUME NEW reply \in Replies(r), SetupHandled(r, reply)
      PROVE  Pipe!Next
  <2>1. r.kind # "out" /\ call' = Called(r, <<>>, reply)
    BY <1>8 DEF SetupHandled
  <2>2. reply.ok \in BOOLEAN /\ reply.answer \in Answers(r)
    BY <1>3, ReplyFacts
  <2>3. call'.id = r.id /\ call'.data = <<>> /\ call'.ok = reply.ok /\ call'.answer = reply.answer
    BY <2>1 DEF Called
  <2>4. Payload(OnPipe(r)) = <<>> /\ Answers(OnPipe(r)) = Answers(r)
    BY <2>1 DEF Payload, Answers, OnPipe
  <2>5. Outcome' \in {"accepted", "refused"}
    BY <1>3, <1>4, <2>2, <2>3 DEF Outcome
  <2>6. Mine(call.data)' = <<>> /\ Mine(call.answer)' \in Answers(OnPipe(r))
    BY <1>3, <1>4, <2>2, <2>3, <2>4 DEF Mine
  <2> QED
    BY <1>5, <1>6, <2>4, <2>5, <2>6, AskStep
<1> QED
  BY <1>1, <1>7, <1>8 DEF SetupComplete

LEMMA OutRefines ==
  ASSUME Ep0Inv, NEW heard \in BOOLEAN, HostOut(heard)
  PROVE  Pipe!Next \/ UNCHANGED Pipe!pipeVars
<1>1. /\ host.stage = "data" /\ host.req.kind = "out" /\ dev.rx = "ACK"
      /\ IF dev.rxTog = host.tog THEN OutDone(OutPacket)
         ELSE UNCHANGED <<dev, reqData, dma, call>>
      /\ host'.req = host.req /\ host'.stage \in {"data", "status"}
  BY HostOutFacts
<1>2. Told = "waiting" /\ Told' = Told /\ PipeReceived' = PipeReceived
  BY <1>1 DEF Told, Transferring, PipeReceived
<1>3. CASE UNCHANGED call
  BY <1>1, <1>2, <1>3, PipeStutters
<1>4. ASSUME NEW reply \in Replies(host.req), OutHandled(reply), ~CallDone
      PROVE  Pipe!Next
  <2>1. host.req.id # 0 /\ host.req \in RequestType
    <3>1. host.req.id \in 1 .. used.transfers
      BY <1>1 DEF Ep0Inv, Linked
    <3> QED
      BY <3>1 DEF Ep0Inv, TypeInv, HostType
  <2>2. reply.ok \in BOOLEAN /\ reply.answer \in Answers(host.req)
    BY <2>1, ReplyFacts
  <2>3. /\ call'.id = host.req.id /\ call'.data = Payload(host.req) /\ call'.ok = reply.ok
        /\ call'.answer = reply.answer
    BY <1>4 DEF OutHandled, Called
  <2>4. /\ Payload(OnPipe(host.req)) = Payload(host.req)
        /\ Answers(OnPipe(host.req)) = Answers(host.req)
    BY DEF Payload, Answers, OnPipe
  <2>5. Outcome = "open" /\ Outcome' \in {"accepted", "refused"}
    BY <1>1, <1>4, <2>1, <2>2, <2>3 DEF Outcome, CallDone
  <2>6. /\ Mine(call.data)' = Payload(OnPipe(host.req))
        /\ Mine(call.answer)' \in Answers(OnPipe(host.req))
    BY <1>1, <2>1, <2>2, <2>3, <2>4 DEF Mine
  <2> QED
    BY <1>1, <1>2, <2>1, <2>5, <2>6, CallStep
<1>5. CASE dev.rxTog = host.tog
  <2>1. /\ ~CallDone
        /\ OutContinues \/ \E reply \in Replies(host.req) : OutHandled(reply)
    BY <1>1, <1>5, OutDoneFacts
  <2> QED
    BY <1>3, <1>4, <2>1 DEF OutContinues
<1> QED
  BY <1>1, <1>3, <1>5

LEMMA InRefines ==
  ASSUME Ep0Inv, NEW heard \in BOOLEAN, HostIn(heard)
  PROVE  Pipe!Next \/ UNCHANGED Pipe!pipeVars
<1>1. /\ dev.tx = "ACK" /\ (host.stage = "data" <=> host.req.kind = "in")
      /\ IF heard THEN InDone ELSE UNCHANGED <<dev, reqData, dma, call>>
      /\ host'.req = host.req
      /\ HostRepeats \/ HostTakes \/ HostIsDone
  BY HostInFacts
<1>2. call' = call
  BY <1>1 DEF InDone
<1>3. CASE HostRepeats
  <2>1. Told' = Told /\ PipeReceived' = PipeReceived
    BY <1>3 DEF HostRepeats, Told, Transferring, PipeReceived
  <2> QED
    BY <1>1, <1>2, <2>1, PipeStutters
<1>4. CASE HostTakes
  <2>1. Told' = Told /\ PipeReceived' = PipeReceived
    BY <1>4 DEF HostTakes, Told, Transferring, PipeReceived
  <2> QED
    BY <1>1, <1>2, <2>1, PipeStutters
<1>5. CASE HostIsDone
  <2>1. host.stage = "status" /\ host.req.kind # "in" /\ host'.stage = "done"
        /\ host'.got = host.got
    BY <1>1, <1>5 DEF HostIsDone
  <2>2. call.id = host.req.id /\ call.ok /\ host.got = <<>> /\ host.req.id \in 1 .. used.transfers
    BY <1>1, <2>1 DEF Ep0Inv, PipeInv, StatusIn, CallDone, Linked
  <2>3. host.req.id # 0 /\ host.req.len \in Nat /\ call.answer \in Seq(Byte)
    BY <2>2 DEF Ep0Inv, TypeInv, HostType, RequestType, CallType
  <2>4. Told = "waiting" /\ Told' = "done" /\ PipeReceived' = <<>>
    BY <2>1, <2>2 DEF Told, Transferring, PipeReceived
  <2> QED
    BY <1>1, <1>2, <2>1, <2>2, <2>3, <2>4, FinishStep
<1> QED
  BY <1>1, <1>3, <1>4, <1>5

LEMMA OutStatusRefines ==
  ASSUME Ep0Inv, NEW heard \in BOOLEAN, HostOutStatus(heard)
  PROVE  Pipe!Next \/ UNCHANGED Pipe!pipeVars
<1>1. /\ host.stage = "status" /\ host.req.kind = "in" /\ call' = call
      /\ host' = IF heard THEN [host EXCEPT !.stage = "done"] ELSE host
  BY DEF HostOutStatus, OutStatusDone
<1>2. /\ call.id = host.req.id /\ call.ok /\ host.got = SubSeq(call.answer, 1, Size)
      /\ host.req.id \in 1 .. used.transfers
  BY <1>1 DEF Ep0Inv, PipeInv, Taken, CallDone, Linked
<1>3. /\ host \in HostType /\ host.req.id # 0 /\ host.req.len \in Nat
      /\ call.answer \in Seq(Byte)
  BY <1>2 DEF Ep0Inv, TypeInv, HostType, RequestType, CallType
<1>4. CASE ~heard
  <2>1. Told' = Told /\ PipeReceived' = PipeReceived /\ host'.req = host.req
    BY <1>1, <1>4 DEF Told, Transferring, PipeReceived
  <2> QED
    BY <1>1, <2>1, PipeStutters
<1>5. CASE heard
  <2>1. host'.stage = "done" /\ host'.req = host.req /\ host'.got = host.got
    BY <1>1, <1>3, <1>5 DEF HostType
  <2>2. Told = "waiting" /\ Told' = "done" /\ PipeReceived' = SubSeq(call.answer, 1, Size)
    BY <1>1, <1>2, <2>1 DEF Told, Transferring, PipeReceived
  <2> QED
    BY <1>1, <1>2, <1>3, <2>1, <2>2, FinishStep
<1> QED
  BY <1>4, <1>5

LEMMA StallRefines ==
  ASSUME Ep0Inv, HostSeesStall
  PROVE  Pipe!Next
<1>1. /\ host' = [host EXCEPT !.stage = "failed"] /\ host.stage \in {"data", "status"}
      /\ call' = call /\ host \in HostType
  BY DEF HostSeesStall, Transferring, Ep0Inv, TypeInv
<1>2. host'.stage = "failed" /\ host'.req = host.req
  BY <1>1 DEF HostType
<1>3. Told = "waiting" /\ Told' = "failed" /\ PipeReceived' = PipeReceived
  BY <1>1, <1>2 DEF Told, Transferring, PipeReceived
<1>4. UNCHANGED <<PipeAsked, Outcome, Mine(call.data), Mine(call.answer)>>
  BY <1>1, <1>2 DEF PipeAsked, OnPipe, Outcome, Mine
<1>5. Pipe!Fail
  BY <1>3, <1>4 DEF Pipe!Fail, PipeAsked, PipeReceived, OnPipe
<1> QED
  BY <1>5 DEF Pipe!Next

LEMMA ResetRefines ==
  ASSUME BusReset
  PROVE  Pipe!Next
<1>1. host'.req.id = 0 /\ host'.stage = "idle"
  BY DEF BusReset, InitHost, NoRequest
<1>2. Pipe!Drop
  BY <1>1 DEF Pipe!Drop, Pipe!NoRequest, Outcome, Told, Transferring, Mine
<1> QED
  BY <1>2 DEF Pipe!Next

LEMMA InitRefines ==
  ASSUME Ep0Init
  PROVE  Pipe!Init
<1>1. host.req.id = 0 /\ host.stage = "idle"
  BY DEF Ep0Init, InitHost, NoRequest
<1> QED
  BY <1>1 DEF Pipe!Init, Pipe!NoRequest, Outcome, Told, Transferring, Mine

LEMMA PipeRefines ==
  ASSUME Ep0Inv, [Ep0Next]_ep0Vars
  PROVE  [Pipe!Next]_(Pipe!pipeVars)
<1>1. CASE UNCHANGED ep0Vars
  <2>1. host' = host /\ call' = call
    BY <1>1 DEF ep0Vars
  <2>2. Told' = Told /\ PipeReceived' = PipeReceived /\ host'.req = host.req
    BY <2>1 DEF Told, Transferring, PipeReceived
  <2> QED
    BY <2>1, <2>2, PipeStutters
<1>2. ASSUME NEW heard \in BOOLEAN, Transact(heard)
      PROVE  Pipe!Next \/ UNCHANGED Pipe!pipeVars
  BY <1>2, OutRefines, InRefines, OutStatusRefines DEF Transact
<1>3. HostSetup => Pipe!Next
  BY SetupRefines
<1>4. HostSeesStall => Pipe!Next
  BY StallRefines
<1>5. BusReset => Pipe!Next
  BY ResetRefines
<1> QED
  BY <1>1, <1>2, <1>3, <1>4, <1>5 DEF Ep0Next

\* The control pipe is what the DFU class needs of it: each request reaches
\* the handler at most once and whole, and the host is told "done" only for a
\* request the handler accepted, with its answer - lost handshakes, abandoned
\* transfers and bus resets notwithstanding.
THEOREM Ep0KeepsPipe == DropsRepeats => (Ep0Spec => KeepsPipePromise)
<1> SUFFICES ASSUME DropsRepeats PROVE Ep0Spec => KeepsPipePromise
  OBVIOUS
<1>1. Ep0Init => Pipe!Init
  BY InitRefines
<1>2. Ep0Inv /\ [Ep0Next]_ep0Vars => [Pipe!Next]_(Pipe!pipeVars)
  BY PipeRefines
<1> QED
  BY <1>1, <1>2, Ep0Invariant, PTL DEF Ep0Spec, KeepsPipePromise, Pipe!Spec

(***************************************************************************)
(* The device's address, with a host that completes its SET_ADDRESS.       *)
(***************************************************************************)

\* An address is pending only between a SET_ADDRESS and its status stage, or
\* is the device's already; the host that waits for that status stage is not
\* refused.
Pending ==
  \/ dev.pend \in {0, dev.devAd}
  \/ /\ dev.setup.kind = "address" /\ dev.pend = dev.setup.addr
     /\ host.req = dev.setup /\ host.stage \in {"status", "done"}

AddrInv ==
  /\ Pending /\ AddressesDifferOnlyByLoss
  /\ host.req.kind = "address" =>
       /\ host.req.addr > 0 /\ host.stage # "failed"
       /\ host.stage = "status" => dev.pend = host.req.addr /\ dev.tx # "STALL"
       /\ host.stage = "done" => host.addr = host.req.addr

LEMMA AddrTypes ==
  ASSUME TypeInv
  PROVE  /\ dev.devAd \in Nat /\ dev.pend \in Nat /\ host.addr \in Nat /\ host.req.addr \in Nat
<1>1. /\ {dev.devAd, dev.pend, host.addr} \subseteq Addresses \cup {0}
      /\ host.req \in RequestType
  BY DEF TypeInv, DevType, HostType
<1>2. host.req.addr \in Addresses \cup {0}
  BY <1>1 DEF RequestType
<1>3. Addresses \cup {0} \subseteq Nat
  BY Ep0Assumption
<1> QED
  BY <1>1, <1>2, <1>3

\* What a SETUP does to the addresses.
LEMMA SetupAddresses ==
  ASSUME Ep0Inv, NEW r \in Requests(used.transfers + 1), SetupComplete(r), HostAsks(r)
  PROVE  /\ dev'.devAd = dev.devAd /\ dev'.setup = r
         /\ r.kind # "address" => dev'.pend = dev.pend
         /\ r.kind = "address" => dev'.pend = r.addr /\ dev'.tx # "STALL"
<1>1. r \in RequestType
  BY AskFacts DEF Ep0Inv
<1>2. CASE SetupOversize(r)
  <2>1. r.kind = "out" /\ dev'.devAd = dev.devAd /\ dev'.pend = dev.pend /\ dev'.setup = r
    BY <1>1, <1>2, OversizeFacts DEF Ep0Inv, SetupOversize
  <2> QED
    BY <2>1
<1>3. CASE SetupOut(r)
  <2>0. r.len > 0
    BY <1>3, AskFacts DEF Ep0Inv, SetupOut
  <2>1. r.kind = "out" /\ dev'.devAd = dev.devAd /\ dev'.pend = dev.pend /\ dev'.setup = r
    BY <1>1, <1>3, <2>0, SetupOutFacts DEF Ep0Inv
  <2> QED
    BY <2>1
<1>4. ASSUME NEW reply \in Replies(r), SetupHandled(r, reply)
      PROVE  /\ dev'.devAd = dev.devAd /\ dev'.setup = r
             /\ r.kind # "address" => dev'.pend = dev.pend
             /\ r.kind = "address" => dev'.pend = r.addr /\ dev'.tx # "STALL"
  <2> DEFINE n == Least(Len(reply.answer), r.len)
  <2>1. /\ dev'.devAd = dev.devAd /\ dev'.setup = r /\ n \in Nat
        /\ dev'.pend = IF r.kind = "address" THEN r.addr ELSE dev.pend
        /\ ~(reply.ok /\ n <= BufLen) \/ dev'.tx = "ACK"
    BY <1>1, <1>4, HandledFacts DEF Ep0Inv
  <2>2. r.kind = "address" => reply.ok /\ reply.answer = <<>>
    BY <1>1, ReplyFacts
  <2>3. r.kind = "address" => r.len = 0
    BY AskFacts DEF Ep0Inv
  <2>4. r.kind = "address" => n = 0
    BY <2>2, <2>3 DEF Least
  <2> HIDE DEF n
  <2>5. 0 <= BufLen
    BY Sizes
  <2> QED
    BY <2>1, <2>2, <2>4, <2>5
<1> QED
  BY <1>2, <1>3, <1>4 DEF SetupComplete

LEMMA SetupKeepsAddr ==
  ASSUME "address" \notin Abandons, Ep0Inv, AddrInv, HostSetup
  PROVE  AddrInv'
<1>1. PICK r \in Requests(used.transfers + 1) : SetupComplete(r) /\ HostAsks(r)
  BY DEF HostSetup, HostAsks
<1>2. /\ dev'.devAd = dev.devAd /\ dev'.setup = r
      /\ r.kind # "address" => dev'.pend = dev.pend
      /\ r.kind = "address" => dev'.pend = r.addr /\ dev'.tx # "STALL"
  BY <1>1, SetupAddresses
<1>3. /\ host'.req = r /\ host'.addr = host.addr
      /\ host'.stage = IF r.kind \in {"out", "in"} THEN "data" ELSE "status"
      /\ r.kind = "address" => r.addr > 0
  BY <1>1, AskFacts DEF Ep0Inv
<1>4. dev.devAd = host.addr /\ (host.stage = "status" => host.req.kind # "address")
  BY DEF HostSetup, Answered, Transferring
<1>5. dev.pend \in {0, dev.devAd}
  BY <1>4 DEF AddrInv, Pending
<1>6. Pending'
  BY <1>2, <1>3, <1>5 DEF Pending
<1>7. AddressesDifferOnlyByLoss'
  BY <1>2, <1>3, <1>4 DEF AddressesDifferOnlyByLoss
<1> QED
  BY <1>2, <1>3, <1>6, <1>7 DEF AddrInv

\* An IN packet the device knows of makes the pending address its own, and
\* that is new only when it ends a SET_ADDRESS.
LEMMA InAddresses ==
  ASSUME Ep0Inv, AddrInv, NEW heard \in BOOLEAN, HostIn(heard)
  PROVE  /\ AddrInv'
         /\ dev'.devAd # dev.devAd =>
              /\ dev.setup.kind = "address" /\ dev'.devAd = dev.setup.addr
              /\ host.stage = "status" /\ host'.stage = "done"
<1>1. /\ dev.tx = "ACK" /\ (host.stage = "data" <=> host.req.kind = "in")
      /\ IF heard THEN InDone ELSE UNCHANGED <<dev, reqData, dma, call>>
      /\ host'.req = host.req
      /\ HostRepeats \/ HostTakes \/ HostIsDone
  BY HostInFacts
<1>2. dev.devAd = host.addr /\ host.stage \in {"data", "status"}
  BY DEF HostIn, Answered, Transferring
<1>3. /\ dev.devAd \in Nat /\ dev.pend \in Nat /\ host.addr \in Nat /\ host.req.addr \in Nat
  BY AddrTypes DEF Ep0Inv
<1>4. /\ dev'.setup = dev.setup
      /\ \/ heard /\ dev'.pend = 0
            /\ dev'.devAd = IF dev.pend > 0 THEN dev.pend ELSE dev.devAd
         \/ ~heard /\ dev' = dev
  <2>1. CASE heard
    BY <1>1, <2>1, InDoneFacts DEF Ep0Inv
  <2>2. CASE ~heard
    BY <1>1, <2>2
  <2> QED
    BY <2>1, <2>2
<1>5. dev.setup = host.req
  BY <1>2 DEF Ep0Inv, Linked
<1>6. CASE host.req.kind # "address"
  <2>1. dev.pend \in {0, dev.devAd}
    BY <1>5, <1>6 DEF AddrInv, Pending
  <2>2. dev'.devAd = dev.devAd /\ dev'.pend \in {0, dev'.devAd}
    BY <1>3, <1>4, <2>1
  <2>3. host'.addr = host.addr
    BY <1>1, <1>6 DEF HostRepeats, HostTakes, HostIsDone
  <2> QED
    BY <1>1, <1>2, <1>6, <2>2, <2>3 DEF AddrInv, Pending, AddressesDifferOnlyByLoss
<1>7. CASE host.req.kind = "address"
  <2>1. HostIsDone /\ host.stage = "status"
    BY <1>1, <1>2, <1>7 DEF HostRepeats, HostTakes
  <2>2. host'.stage = "done" /\ host'.addr = host.req.addr
    BY <1>7, <2>1 DEF HostIsDone
  <2>3. dev.pend = host.req.addr /\ host.req.addr > 0
    BY <1>7, <2>1 DEF AddrInv
  <2>4. (heard /\ dev'.pend = 0 /\ dev'.devAd = host.req.addr) \/ (~heard /\ dev' = dev)
    BY <1>4, <2>3
  <2>5. Pending'
    BY <1>1, <1>5, <1>7, <2>2, <2>3, <2>4 DEF Pending
  <2>6. AddressesDifferOnlyByLoss'
    <3>1. CASE heard
      BY <1>4, <2>2, <2>3, <2>4, <3>1 DEF AddressesDifferOnlyByLoss
    <3>2. CASE ~heard
      <4>1. used'.lost > 0
        BY <3>2 DEF HostIn, Heard, Lose, Ep0Inv, TypeInv
      <4>2. dev' = dev /\ dev.state = "IN_STATUS"
        BY <1>1, <1>7, <2>1, <3>2 DEF Ep0Inv, PipeInv, StatusIn
      <4> QED
        BY <1>1, <1>7, <2>2, <2>3, <4>1, <4>2 DEF AddressesDifferOnlyByLoss
    <3> QED
      BY <3>1, <3>2
  <2>7. AddrInv'
    BY <1>1, <2>2, <2>3, <2>5, <2>6 DEF AddrInv
  <2> QED
    BY <1>5, <1>7, <2>1, <2>2, <2>4, <2>7
<1> QED
  BY <1>6, <1>7

\* The other steps leave both addresses alone, or reset them.
LEMMA OutKeepsAddr ==
  ASSUME Ep0Inv, AddrInv, NEW heard \in BOOLEAN, HostOut(heard)
  PROVE  AddrInv' /\ dev'.devAd = dev.devAd
<1>1. /\ host.stage = "data" /\ host.req.kind = "out" /\ dev.rx = "ACK"
      /\ IF dev.rxTog = host.tog THEN OutDone(OutPacket)
         ELSE UNCHANGED <<dev, reqData, dma, call>>
      /\ host'.req = host.req /\ host'.addr = host.addr
  BY HostOutFacts
<1>2. dev'.devAd = dev.devAd /\ dev'.pend = dev.pend
  <2>1. CASE dev.rxTog = host.tog
    BY <1>1, <2>1, OutDoneFacts
  <2>2. CASE dev.rxTog # host.tog
    BY <1>1, <2>2
  <2> QED
    BY <2>1, <2>2
<1>3. dev.devAd = host.addr
  BY DEF HostOut, Answered
<1>4. dev.pend \in {0, dev.devAd}
  BY <1>1 DEF AddrInv, Pending
<1> QED
  BY <1>1, <1>2, <1>3, <1>4 DEF AddrInv, Pending, AddressesDifferOnlyByLoss

LEMMA OutStatusKeepsAddr ==
  ASSUME Ep0Inv, AddrInv, NEW heard \in BOOLEAN, HostOutStatus(heard)
  PROVE  AddrInv' /\ dev'.devAd = dev.devAd
<1>1. /\ host.stage = "status" /\ host.req.kind = "in" /\ dev.devAd = host.addr
      /\ host' = IF heard THEN [host EXCEPT !.stage = "done"] ELSE host
      /\ dev' = [Rearm(dev) EXCEPT !.nextRx = 1, !.state = "SETUP"] \/ UNCHANGED dev
  BY DEF HostOutStatus, OutStatusDone, Answered
<1>2. dev \in DevType /\ host \in HostType
  BY DEF Ep0Inv, TypeInv
<1>3. host'.req = host.req /\ host'.addr = host.addr
  BY <1>1, <1>2 DEF HostType
<1>4. dev'.devAd = dev.devAd /\ dev'.pend = dev.pend
  <2> DEFINE e == Rearm(dev)
  <2>1. e \in DevType /\ e.devAd = dev.devAd /\ e.pend = dev.pend
    BY <1>2, RearmFacts
  <2>2. dev' = [e EXCEPT !.nextRx = 1, !.state = "SETUP"] \/ UNCHANGED dev
    BY <1>1
  <2> HIDE DEF e
  <2> QED
    BY <2>1, <2>2 DEF DevType
<1>5. dev.pend \in {0, dev.devAd}
  <2>1. dev.setup = host.req
    BY <1>1 DEF Ep0Inv, Linked
  <2> QED
    BY <1>1, <2>1 DEF AddrInv, Pending
<1> QED
  BY <1>1, <1>3, <1>4, <1>5 DEF AddrInv, Pending, AddressesDifferOnlyByLoss

LEMMA StallKeepsAddr ==
  ASSUME Ep0Inv, AddrInv, HostSeesStall
  PROVE  AddrInv' /\ dev'.devAd = dev.devAd
<1>1. /\ host.stage \in {"data", "status"} /\ (host.stage = "data" <=> host.req.kind = "in")
      /\ dev.tx = "STALL" /\ dev.devAd = host.addr
      /\ host' = [host EXCEPT !.stage = "failed"] /\ UNCHANGED dev
  BY DEF HostSeesStall, Transferring, Answered
<1>2. host'.req = host.req /\ host'.addr = host.addr
  BY <1>1 DEF Ep0Inv, TypeInv, HostType
<1>3. host.req.kind # "address" /\ dev.setup = host.req
  BY <1>1 DEF AddrInv, Ep0Inv, Linked
<1>4. dev.pend \in {0, dev.devAd}
  BY <1>3 DEF AddrInv, Pending
<1> QED
  BY <1>1, <1>2, <1>3, <1>4 DEF AddrInv, Pending, AddressesDifferOnlyByLoss

LEMMA ResetKeepsAddr ==
  ASSUME Ep0Inv, BusReset
  PROVE  AddrInv' /\ dev'.devAd = 0
<1>1. dev'.devAd = 0 /\ dev'.pend = 0
  BY ResetFacts DEF BusReset, Ep0Inv, TypeInv
<1>2. host'.addr = 0 /\ host'.req.kind = "none"
  BY DEF BusReset, InitHost, NoRequest
<1> QED
  BY <1>1, <1>2 DEF AddrInv, Pending, AddressesDifferOnlyByLoss

LEMMA NextKeepsAddr ==
  ASSUME "address" \notin Abandons, Ep0Inv, AddrInv, [Ep0Next]_ep0Vars
  PROVE  /\ AddrInv'
         /\ dev'.devAd \notin {dev.devAd, 0} =>
              /\ dev.setup.kind = "address" /\ dev'.devAd = dev.setup.addr
              /\ host.stage = "status" /\ host'.stage = "done"
<1>1. CASE UNCHANGED ep0Vars
  BY <1>1 DEF ep0Vars, AddrInv, Pending, AddressesDifferOnlyByLoss
<1>2. CASE HostSetup
  <2>1. dev'.devAd = dev.devAd
    BY <1>2, SetupAddresses DEF HostSetup, HostAsks
  <2> QED
    BY <1>2, <2>1, SetupKeepsAddr
<1>3. ASSUME NEW heard \in BOOLEAN, Transact(heard)
      PROVE  /\ AddrInv'
             /\ dev'.devAd \notin {dev.devAd, 0} =>
                  /\ dev.setup.kind = "address" /\ dev'.devAd = dev.setup.addr
                  /\ host.stage = "status" /\ host'.stage = "done"
  BY <1>3, OutKeepsAddr, InAddresses, OutStatusKeepsAddr DEF Transact
<1>4. CASE HostSeesStall
  BY <1>4, StallKeepsAddr
<1>5. CASE BusReset
  BY <1>5, ResetKeepsAddr
<1> QED
  BY <1>1, <1>2, <1>3, <1>4, <1>5 DEF Ep0Next

\* A host that does not abandon a SET_ADDRESS knows what address the device
\* has or is about to take.
THEOREM AddressInvariant == DropsRepeats /\ "address" \notin Abandons => (Ep0Spec => []AddrInv)
<1> SUFFICES ASSUME DropsRepeats, "address" \notin Abandons PROVE Ep0Spec => []AddrInv
  OBVIOUS
<1>1. Ep0Init => AddrInv
  BY DEF Ep0Init, InitDev, InitHost, NoRequest, AddrInv, Pending, AddressesDifferOnlyByLoss
<1>2. Ep0Inv /\ AddrInv /\ [Ep0Next]_ep0Vars => AddrInv'
  BY NextKeepsAddr
<1> QED
  BY <1>1, <1>2, Ep0Invariant, PTL DEF Ep0Spec

\* Such a host and the device use one address, unless the handshake that ends
\* a SET_ADDRESS was lost: then the device still has it pending, with the
\* status packet armed, and only a bus reset brings them together.
THEOREM AddressesDifferOnlyByLostHandshake == DropsRepeats /\ "address" \notin Abandons => (Ep0Spec => []AddressesDifferOnlyByLoss)
<1> SUFFICES ASSUME DropsRepeats, "address" \notin Abandons PROVE Ep0Spec => []AddressesDifferOnlyByLoss
  OBVIOUS
<1>1. AddrInv => AddressesDifferOnlyByLoss
  BY DEF AddrInv
<1>2. Ep0Spec => []AddrInv
  BY AddressInvariant
<1> QED
  BY <1>1, <1>2, PTL

\* The device changes its address only when the status stage of a
\* SET_ADDRESS completes, or at a bus reset.
THEOREM AddressChangesAfterStatus == DropsRepeats /\ "address" \notin Abandons => (Ep0Spec => AddressAfterStatus)
<1> SUFFICES ASSUME DropsRepeats, "address" \notin Abandons PROVE Ep0Spec => AddressAfterStatus
  OBVIOUS
<1>1. Ep0Inv /\ AddrInv /\ [Ep0Next]_ep0Vars =>
        [dev'.devAd \notin {dev.devAd, 0} =>
           /\ dev.setup.kind = "address" /\ dev'.devAd = dev.setup.addr
           /\ host.stage = "status" /\ host'.stage = "done"]_ep0Vars
  BY NextKeepsAddr
<1>2. Ep0Spec => []AddrInv
  BY AddressInvariant
<1> QED
  BY <1>1, <1>2, Ep0Invariant, PTL DEF Ep0Spec, AddressAfterStatus

=============================================================================
