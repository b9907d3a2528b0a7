---------------------------- MODULE DfuHostProofs ----------------------------
(***************************************************************************)
(* What TLAPS proves of the host tool over the device, for every set of    *)
(* command lines, every image and every geometry that DfuHost admits.      *)
(*                                                                         *)
(* Every step of the tool is a step of the class, so the invariants of     *)
(* DfuClassProofs hold under HostSpec; the tool's progress is related to   *)
(* them stage by stage.                                                    *)
(***************************************************************************)
EXTENDS DfuHost, DfuClassProofs

(***************************************************************************)
(* The tool's invariant.                                                   *)
(***************************************************************************)

Stages  == {"erase", "address", "block", "exec", "finish", "read", "abort", "over"}
Results == {"none", "stored", "assumed", "uploaded", "error"}

ToolType ==
  [session : Sessions, stage : Stages, k : Nat, polling : BOOLEAN, file : Seq(Cell),
   result : Results, stale : BOOLEAN, blamed : BOOLEAN]

\* Each stage belongs to its kind of session, and its index stays in it.
Fits(t) ==
  /\ t.stage = "over" <=> t.result # "none"
  /\ t.polling => t.stage \in {"erase", "address", "block", "exec", "finish"}
  /\ t.stage \in {"erase", "block", "exec", "finish"} => ~t.session.upload
  /\ t.stage \in {"read", "abort"} => t.session.upload
  /\ t.stage \in {"erase", "address"} => ~t.session.standard /\ t.file = <<>>
  /\ t.stage = "erase" =>
       t.session.erase /\ FirstSector(t.session) + t.k <= LastSector(t.session)
  /\ t.stage = "block" => t.k <= Blocks(t.session) - 1
  /\ t.stage = "exec" => t.session.exec # NoExec
  /\ t.stage = "read" =>
       Len(t.file) = t.k * XferCells /\ Len(t.file) < t.session.length
  /\ Len(t.file) <= t.session.length

ToolInv == tool \in ToolType /\ Fits(tool)

(***************************************************************************)
(* Blocks and sectors of an image.                                         *)
(***************************************************************************)

\* Products of natural numbers grow with their factor.
LEMMA ProductsGrow ==
  ASSUME NEW n \in Nat, NEW a \in Nat, NEW b \in Nat, a <= b
  PROVE  a * n \in Nat /\ a * n <= b * n /\ (a + 1) * n = a * n + n
<1>1. PICK d \in Nat : b = a + d
  <2>1. b - a \in Nat /\ b = a + (b - a)
    OBVIOUS
  <2> QED
    BY <2>1
<1>2. b * n = a * n + d * n /\ a * n \in Nat /\ d * n \in Nat
  BY <1>1
<1> QED
  BY <1>2

LEMMA SessionFacts ==
  ASSUME NEW s \in Sessions
  PROVE  /\ s.upload \in BOOLEAN /\ s.standard \in BOOLEAN /\ s.erase \in BOOLEAN
         /\ s.addr \in HostAddrs /\ s.addr \in Nat /\ s.length \in Nat \ {0}
         /\ s.standard => s.addr = AppBase
         /\ s.exec # NoExec => s.exec \in HostAddrs
  BY HostAssumption, DataAssumption

\* An image of n cells is numbered from 0.
LEMMA ImageFacts ==
  ASSUME NEW s \in Sessions
  PROVE  /\ ImageLen(s) \in Nat \ {0}
         /\ DOMAIN s.image = 0 .. ImageLen(s) - 1
         /\ \A i \in DOMAIN s.image : s.image[i] \in Cell
<1>1. PICK n \in 1 .. Top : s.image \in [0 .. n - 1 -> Cell]
  BY HostAssumption
<1>2. Top \in Nat
  BY Sizes
<1>3. Cardinality(0 .. n - 1) = n
  <2>1. 0 \in Int /\ n - 1 \in Int
    BY <1>2
  <2> QED
    BY <1>2, <2>1, FS_Interval
<1> QED
  BY <1>1, <1>2, <1>3 DEF ImageLen, Length

\* A division that rounds up covers what it divides.
LEMMA RoundedUp ==
  ASSUME NEW n \in Nat \ {0}, NEW x \in Nat \ {0}
  PROVE  /\ (n + x - 1) \div x \in Nat \ {0}
         /\ n <= ((n + x - 1) \div x) * x
<1> DEFINE c == n + x - 1
           q == c \div x
           r == c % x
<1>1. c \in Nat /\ c = n + x - 1
  OBVIOUS
<1> HIDE DEF c
<1>2. q \in Nat /\ r \in 0 .. x - 1 /\ c = q * x + r
  BY <1>1, Division
<1> HIDE DEF q, r
<1>3. q * x \in Nat
  BY <1>2
<1>4. n <= q * x
  BY <1>1, <1>2, <1>3
<1>5. q # 0
  BY <1>2, <1>4
<1> QED
  BY <1>2, <1>4, <1>5 DEF q, c

\* The blocks of an image cover it.
LEMMA BlocksCover ==
  ASSUME NEW s \in Sessions
  PROVE  /\ Blocks(s) \in Nat \ {0}
         /\ ImageLen(s) <= Blocks(s) * XferCells
<1>1. ImageLen(s) \in Nat \ {0} /\ XferCells \in Nat \ {0}
  BY ImageFacts, Sizes
<1> QED
  BY <1>1, RoundedUp DEF Blocks

\* The sectors of an image are counted upwards.
LEMMA SectorsOrdered ==
  ASSUME NEW s \in Sessions
  PROVE  /\ FirstSector(s) \in Nat /\ LastSector(s) \in Nat
         /\ FirstSector(s) <= LastSector(s)
<1> DEFINE a == s.addr
           b == s.addr + ImageLen(s) - 1
           j == a \div SectorCells
           k == b \div SectorCells
<1>1. a \in Nat /\ b \in Nat /\ a <= b /\ SectorCells \in Nat \ {0}
  BY ImageFacts, SessionFacts, Sizes
<1>2. j = FirstSector(s) /\ k = LastSector(s)
  BY DEF FirstSector, LastSector
<1> HIDE DEF a, b
<1>3. /\ j \in Nat /\ a % SectorCells \in 0 .. SectorCells - 1
      /\ a = j * SectorCells + (a % SectorCells)
  BY <1>1, Division
<1>4. /\ k \in Nat /\ b % SectorCells \in 0 .. SectorCells - 1
      /\ b = k * SectorCells + (b % SectorCells)
  BY <1>1, Division
<1> HIDE DEF j, k
<1>5. j <= k
  <2> SUFFICES ASSUME k + 1 <= j PROVE FALSE
    BY <1>3, <1>4
  <2>1. (k + 1) * SectorCells <= j * SectorCells
    BY <1>1, <1>3, <1>4, ProductsGrow
  <2>2. (k + 1) * SectorCells = k * SectorCells + SectorCells
    BY <1>1, <1>4, ProductsGrow
  <2>3. k * SectorCells \in Nat /\ j * SectorCells \in Nat
    BY <1>1, <1>3, <1>4
  <2> QED
    BY <1>1, <1>3, <1>4, <2>1, <2>2, <2>3
<1> QED
  BY <1>2, <1>3, <1>4, <1>5

(***************************************************************************)
(* The tool's variable.                                                    *)
(***************************************************************************)

\* What the record of a fresh run holds.
LEMMA StartedFacts ==
  ASSUME NEW s \in Sessions
  PROVE  /\ Started(s).session = s /\ Started(s).k = 0 /\ ~Started(s).polling
         /\ Started(s).file = <<>> /\ Started(s).result = "none"
         /\ ~Started(s).blamed /\ Started(s).stale = (dfu # InitDfu)
         /\ Started(s).stage = FirstStage(s)
         /\ FirstStage(s) = IF s.standard THEN IF s.upload THEN "read" ELSE "block"
                            ELSE IF s.erase /\ ~s.upload THEN "erase" ELSE "address"
  BY DEF Started, FirstStage, DataStage

LEMMA StartedOK ==
  ASSUME NEW s \in Sessions
  PROVE  Started(s) \in ToolType /\ Fits(Started(s))
<1>1. /\ s.upload \in BOOLEAN /\ s.standard \in BOOLEAN /\ s.erase \in BOOLEAN
      /\ s.length \in Nat \ {0}
  BY SessionFacts
<1>2. Started(s) \in ToolType
  <2>1. FirstStage(s) \in Stages
    BY <1>1 DEF FirstStage, DataStage, Stages
  <2>2. <<>> \in Seq(Cell)
    OBVIOUS
  <2> QED
    BY <2>1, <2>2 DEF Started, ToolType, Results
<1>3. Blocks(s) \in Nat \ {0} /\ FirstSector(s) \in Nat /\ FirstSector(s) <= LastSector(s)
  BY BlocksCover, SectorsOrdered
<1>4. Len(<<>>) = 0 /\ 0 * XferCells = 0
  BY Sizes
<1> QED
  BY <1>1, <1>2, <1>3, <1>4, StartedFacts DEF Fits

\* The end of a run.
LEMMA OverFacts ==
  ASSUME NEW t \in ToolType, NEW r \in Results \ {"none"}
  PROVE  /\ Over(t, r) \in ToolType
         /\ Over(t, r).stage = "over" /\ ~Over(t, r).polling /\ Over(t, r).result = r
         /\ Over(t, r).session = t.session /\ Over(t, r).file = t.file
         /\ Over(t, r).stale = t.stale /\ Over(t, r).blamed = t.blamed
         /\ Fits(t) => Fits(Over(t, r))
<1>1. /\ Over(t, r) \in ToolType
      /\ Over(t, r).stage = "over" /\ ~Over(t, r).polling /\ Over(t, r).result = r
      /\ Over(t, r).session = t.session /\ Over(t, r).file = t.file
      /\ Over(t, r).stale = t.stale /\ Over(t, r).blamed = t.blamed
  BY DEF Over, ToolType, Stages
<1> QED
  BY <1>1 DEF Fits

\* Whom the error is blamed on does not matter for the rest.
LEMMA BlamedFacts ==
  ASSUME NEW t \in ToolType, NEW b \in BOOLEAN
  PROVE  /\ [t EXCEPT !.blamed = b] \in ToolType
         /\ [t EXCEPT !.blamed = b].stage = t.stage /\ [t EXCEPT !.blamed = b].k = t.k
         /\ [t EXCEPT !.blamed = b].polling = t.polling
         /\ [t EXCEPT !.blamed = b].result = t.result
         /\ [t EXCEPT !.blamed = b].session = t.session
         /\ [t EXCEPT !.blamed = b].file = t.file
         /\ [t EXCEPT !.blamed = b].stale = t.stale
         /\ [t EXCEPT !.blamed = b].blamed = b
         /\ Fits(t) => Fits([t EXCEPT !.blamed = b])
<1> DEFINE u == [t EXCEPT !.blamed = b]
<1>1. /\ u \in ToolType /\ u.stage = t.stage /\ u.k = t.k /\ u.polling = t.polling
      /\ u.result = t.result /\ u.session = t.session /\ u.file = t.file
      /\ u.stale = t.stale /\ u.blamed = b
  BY DEF ToolType
<1> HIDE DEF u
<1>2. Fits(t) => Fits(u)
  BY <1>1 DEF Fits
<1> QED
  BY <1>1, <1>2 DEF u

\* A request that was sent.
LEMMA SentFacts ==
  ASSUME NEW t \in ToolType, NEW b \in BOOLEAN
  PROVE  LET u == [t EXCEPT !.polling = TRUE, !.blamed = b]
         IN  /\ u \in ToolType /\ u.stage = t.stage /\ u.k = t.k /\ u.polling
             /\ u.result = t.result /\ u.session = t.session /\ u.file = t.file
             /\ u.stale = t.stale /\ u.blamed = b
             /\ Fits(t) /\ t.stage \notin {"read", "abort", "over"} => Fits(u)
<1> DEFINE u == [t EXCEPT !.polling = TRUE, !.blamed = b]
<1>1. /\ u \in ToolType /\ u.stage = t.stage /\ u.k = t.k /\ u.polling
      /\ u.result = t.result /\ u.session = t.session /\ u.file = t.file
      /\ u.stale = t.stale /\ u.blamed = b
  BY DEF ToolType
<1>2. t.stage \in Stages
  BY DEF ToolType
<1> HIDE DEF u
<1>3. Fits(t) /\ t.stage \notin {"read", "abort", "over"} => Fits(u)
  BY <1>1, <1>2 DEF Fits, Stages
<1> QED
  BY <1>1, <1>3 DEF u

\* The tool after a status: it is over, has moved on, or keeps polling.
Moved(t) == [t EXCEPT !.stage = Following(t)[1], !.k = Following(t)[2], !.polling = FALSE]

LEMMA FollowingFacts ==
  ASSUME NEW t \in ToolType, Fits(t), t.polling, t.stage # "finish"
  PROVE  /\ Moved(t) \in ToolType /\ Fits(Moved(t)) /\ Moved(t).stage # "over"
         /\ Moved(t).session = t.session /\ Moved(t).file = t.file
         /\ ~Moved(t).polling /\ Moved(t).result = t.result
         /\ Moved(t).stale = t.stale /\ Moved(t).blamed = t.blamed
         /\ Moved(t).stage = Following(t)[1] /\ Moved(t).k = Following(t)[2]
<1> DEFINE f == Following(t)
           s == t.session
           u == Moved(t)
<1>0. s \in Sessions /\ t.k \in Nat
  BY DEF ToolType
<1>1. /\ s \in Sessions /\ t.k \in Nat /\ t.stage \in {"erase", "address", "block", "exec"}
      /\ s.upload \in BOOLEAN /\ (s.upload => t.stage = "address")
  BY <1>0, SessionFacts DEF Fits
<1>2. \/ t.stage = "erase" /\ MoreErases(t) /\ f = <<"erase", t.k + 1>>
      \/ t.stage = "erase" /\ f = <<"address", 0>>
      \/ t.stage = "address" /\ s.upload /\ f = <<"read", 0>>
      \/ t.stage = "address" /\ ~s.upload /\ f = <<"block", 0>>
      \/ t.stage = "block" /\ MoreBlocks(t) /\ f = <<"block", t.k + 1>>
      \/ t.stage = "block" /\ s.exec # NoExec /\ f = <<"exec", 0>>
      \/ t.stage \in {"block", "exec"} /\ f = <<"finish", 0>>
  BY <1>1 DEF Following, DataStage
<1>3. f[1] \in Stages \ {"over"} /\ f[2] \in Nat
  BY <1>1, <1>2 DEF Stages
<1> HIDE DEF f
<1>4. /\ u \in ToolType /\ u.stage = f[1] /\ u.k = f[2] /\ ~u.polling
      /\ u.session = s /\ u.file = t.file /\ u.result = t.result
      /\ u.stale = t.stale /\ u.blamed = t.blamed
  BY <1>3 DEF Moved, ToolType, f
<1> HIDE DEF u
<1>5. /\ FirstSector(s) \in Nat /\ LastSector(s) \in Nat /\ Blocks(s) \in Nat \ {0}
      /\ s.length \in Nat \ {0} /\ 0 * XferCells = 0
  BY <1>1, BlocksCover, SectorsOrdered, SessionFacts, Sizes
<1>6. Len(<<>>) = 0 /\ t.result = "none"
  BY <1>1 DEF Fits
<1>7. MoreErases(t) => FirstSector(s) + (t.k + 1) <= LastSector(s)
  BY <1>1, <1>5 DEF MoreErases
<1>8. MoreBlocks(t) => t.k + 1 <= Blocks(s) - 1
  BY <1>1, <1>5 DEF MoreBlocks
<1>9. Fits(u)
  <2>1. CASE t.stage = "erase"
    BY <1>1, <1>2, <1>4, <1>5, <1>6, <1>7, <2>1 DEF Fits
  <2>2. CASE t.stage = "address"
    BY <1>1, <1>2, <1>4, <1>5, <1>6, <2>2 DEF Fits
  <2>3. CASE t.stage \in {"block", "exec"}
    BY <1>1, <1>2, <1>4, <1>5, <1>6, <1>8, <2>3 DEF Fits
  <2> QED
    BY <1>1, <2>1, <2>2, <2>3
<1> QED
  BY <1>3, <1>4, <1>9 DEF u, f, s

LEMMA AfterStatusFacts ==
  ASSUME NEW t \in ToolType, Fits(t), t.polling, NEW d
  PROVE  \/ AfterStatus(t, d) = t
         \/ AfterStatus(t, d) = Over(t, "error") /\ (d.status # "OK" \/ d.state = "dfuERROR")
         \/ /\ AfterStatus(t, d) = Over(t, "stored")
            /\ t.stage = "finish" /\ d.state = "dfuMANIFEST-WAIT-RESET"
         \/ /\ AfterStatus(t, d) = Moved(t)
            /\ t.stage # "finish" /\ d.state = "dfuDNLOAD-IDLE"
  BY DEF AfterStatus, Moved

LEMMA AfterStatusOK ==
  ASSUME NEW t \in ToolType, Fits(t), t.polling, NEW d
  PROVE  AfterStatus(t, d) \in ToolType /\ Fits(AfterStatus(t, d))
<1>1. {"error", "stored"} \subseteq Results \ {"none"}
  BY DEF Results
<1> QED
  BY <1>1, AfterStatusFacts, OverFacts, FollowingFacts

\* A function on 1 .. n is a sequence of length n.
LEMMA FunctionIsSeq ==
  ASSUME NEW n \in Nat, NEW g \in [1 .. n -> Cell]
  PROVE  g \in Seq(Cell) /\ Len(g) = n
  OBVIOUS

\* A block that was read.
LEMMA ExtendFacts ==
  ASSUME NEW t \in ToolType, Fits(t), t.stage = "read",
         NEW asked, NEW got \in Seq(Cell), Len(got) <= asked,
         asked = IF t.session.length - Len(t.file) < XferCells
                 THEN t.session.length - Len(t.file) ELSE XferCells
  PROVE  LET u == Extend(t, asked, got)
         IN  /\ u \in ToolType /\ Fits(u)
             /\ u.session = t.session /\ u.k = t.k + 1 /\ u.polling = t.polling
             /\ u.result = t.result /\ u.stale = t.stale /\ u.blamed = t.blamed
             /\ u.file = t.file \o got
             /\ u.stage = IF Len(got) < asked \/ Len(t.file) + Len(got) = t.session.length
                          THEN "abort" ELSE "read"
<1> DEFINE u == Extend(t, asked, got)
           file == t.file \o got
           n == t.session.length
           stage == IF Len(got) < asked \/ Len(file) = n THEN "abort" ELSE "read"
<1>1. /\ t.file \in Seq(Cell) /\ t.k \in Nat /\ t.session \in Sessions
      /\ t.stage = "read" /\ t.result = "none" /\ ~t.polling /\ t.session.upload
      /\ Len(t.file) = t.k * XferCells /\ Len(t.file) < n
  BY DEF ToolType, Fits
<1>2. n \in Nat \ {0} /\ XferCells \in Nat \ {0}
  BY <1>1, SessionFacts, Sizes
<1>3. /\ file \in Seq(Cell) /\ Len(file) = Len(t.file) + Len(got)
      /\ Len(t.file) \in Nat /\ Len(got) \in Nat
  BY <1>1
<1>4. /\ u = [t EXCEPT !.file = file, !.k = t.k + 1, !.stage = stage]
      /\ stage \in {"abort", "read"}
  BY <1>1 DEF Extend
<1> HIDE DEF file
<1>5. /\ u \in ToolType /\ u.session = t.session /\ u.k = t.k + 1 /\ u.polling = t.polling
      /\ u.result = t.result /\ u.stale = t.stale /\ u.blamed = t.blamed /\ u.file = file
      /\ u.stage = stage
  <2> DEFINE v == [t EXCEPT !.file = file]
             w == [v EXCEPT !.k = t.k + 1]
  <2> HIDE DEF stage, u
  <2>1. /\ v \in ToolType /\ v.session = t.session /\ v.polling = t.polling
        /\ v.result = t.result /\ v.stale = t.stale /\ v.blamed = t.blamed /\ v.file = file
    BY <1>3 DEF ToolType
  <2>2. u = [w EXCEPT !.stage = stage]
    BY <1>4 DEF ToolType
  <2>3. stage \in Stages /\ t.k + 1 \in Nat
    BY <1>1, <1>4 DEF Stages
  <2> HIDE DEF v
  <2>4. /\ w \in ToolType /\ w.session = t.session /\ w.polling = t.polling /\ w.k = t.k + 1
        /\ w.result = t.result /\ w.stale = t.stale /\ w.blamed = t.blamed /\ w.file = file
    BY <2>1, <2>3 DEF ToolType
  <2> HIDE DEF w
  <2> QED
    BY <2>2, <2>3, <2>4 DEF ToolType
<1> HIDE DEF u, n
<1>6. Len(file) <= n
  BY <1>1, <1>2, <1>3 DEF n
<1>7. stage = "read" => Len(file) = (t.k + 1) * XferCells /\ Len(file) < n
  <2> SUFFICES ASSUME stage = "read" PROVE Len(file) = (t.k + 1) * XferCells /\ Len(file) < n
    OBVIOUS
  <2>1. Len(got) = asked /\ Len(file) # n
    BY <1>2, <1>3 DEF n
  <2>2. asked = XferCells
    BY <1>1, <1>2, <1>3, <2>1 DEF n
  <2>3. (t.k + 1) * XferCells = t.k * XferCells + XferCells
    BY <1>1, <1>2
  <2> QED
    BY <1>1, <1>2, <1>3, <1>6, <2>1, <2>2, <2>3
<1>8. Fits(u)
  <2> HIDE DEF stage
  <2> QED
    BY <1>1, <1>4, <1>5, <1>6, <1>7 DEF Fits, n
<1> QED
  BY <1>3, <1>5, <1>8 DEF u, file, n

(***************************************************************************)
(* The tool's invariant is kept.                                           *)
(***************************************************************************)

\* The block the tool reads next, what it asks for, and what it gets.
ReadBlock == FirstBlock(tool.session) + tool.k
Asked ==
  IF tool.session.length - Len(tool.file) < XferCells
  THEN tool.session.length - Len(tool.file) ELSE XferCells
Got ==
  IF AppEnd - BlockAddress(ReadBlock) < Asked THEN AppEnd - BlockAddress(ReadBlock) ELSE Asked
Answer   == [i \in 1 .. Got |-> flash[BlockAddress(ReadBlock) + i - 1]]
JunkRead == [i \in 1 .. Asked |-> Junk]

\* A read is answered with flash, or with whatever the buffer holds.
ReadServedTo ==
  /\ Upload(ReadBlock, Asked) /\ Got \in 0 .. Asked
  /\ Answer \in [1 .. Got -> Cell] /\ tool' = Extend(tool, Asked, Answer)
ReadRefusedTo ==
  /\ UploadRefused(ReadBlock)
  /\ JunkRead \in [1 .. Asked -> Cell]
  /\ tool' = [Extend(tool, Asked, JunkRead) EXCEPT !.blamed = TRUE]

LEMMA ReadCases ==
  ASSUME ToolInv, MediaInv, Read
  PROVE  /\ tool.stage = "read" /\ Asked \in 1 .. XferCells
         /\ ReadServedTo \/ ReadRefusedTo
<1> DEFINE a == BlockAddress(ReadBlock)
<1>1. /\ tool.stage = "read" /\ tool.session \in Sessions /\ tool.file \in Seq(Cell)
      /\ Len(tool.file) < tool.session.length
  BY DEF Read, ToolInv, ToolType, Fits
<1>2. Asked \in 1 .. XferCells
  BY <1>1, SessionFacts, Sizes DEF Asked
<1>3. \/ Upload(ReadBlock, Asked) /\ tool' = Extend(tool, Asked, Answer)
      \/ /\ UploadRefused(ReadBlock)
         /\ tool' = [Extend(tool, Asked, JunkRead) EXCEPT !.blamed = TRUE]
  BY DEF Read, ReadBlock, Asked, Got, Answer, JunkRead
<1>4. JunkRead \in [1 .. Asked -> Cell]
  BY DataAssumption DEF JunkRead
<1>5. ASSUME Upload(ReadBlock, Asked)
      PROVE  Got \in 0 .. Asked /\ Answer \in [1 .. Got -> Cell]
  <2>1. a \in AppBase .. AppEnd
    BY <1>5 DEF Upload, ReadAllowed
  <2> HIDE DEF a
  <2>2. Got = IF AppEnd - a < Asked THEN AppEnd - a ELSE Asked
    BY DEF Got, a
  <2>3. Got \in 0 .. Asked /\ Got <= AppEnd - a
    BY <1>2, <2>1, <2>2, Sizes
  <2>4. \A i \in 1 .. Got : a + i - 1 \in Addr
    BY <2>1, <2>3, Sizes DEF Addr
  <2>5. flash \in [Addr -> Cell]
    BY DEF MediaInv, MediaTypeOK
  <2> QED
    BY <2>3, <2>4, <2>5 DEF Answer, a
<1> QED
  BY <1>1, <1>2, <1>3, <1>4, <1>5 DEF ReadServedTo, ReadRefusedTo

\* What a read makes of the tool.
LEMMA ReadExtends ==
  ASSUME ToolInv, MediaInv, ReadServedTo, tool.stage = "read", Asked \in 1 .. XferCells
  PROVE  /\ tool' \in ToolType /\ Fits(tool')
         /\ tool'.session = tool.session /\ tool'.k = tool.k + 1 /\ ~tool'.polling
         /\ tool'.result = "none" /\ tool'.stale = tool.stale /\ tool'.blamed = tool.blamed
         /\ tool'.file = tool.file \o Answer
         /\ Len(Answer) = Got /\ Answer \in Seq(Cell)
         /\ tool'.stage = IF Got < Asked \/ Len(tool.file) + Got = tool.session.length
                          THEN "abort" ELSE "read"
<1>1. /\ tool \in ToolType /\ Fits(tool) /\ tool' = Extend(tool, Asked, Answer)
      /\ ~tool.polling /\ tool.result = "none"
      /\ Got \in Nat /\ Got <= Asked /\ Answer \in [1 .. Got -> Cell]
  BY DEF ToolInv, ReadServedTo, Fits
<1>2. Answer \in Seq(Cell) /\ Len(Answer) = Got
  BY <1>1, FunctionIsSeq
<1>3. /\ tool.stage = "read" /\ Len(Answer) <= Asked
      /\ Asked = IF tool.session.length - Len(tool.file) < XferCells
                 THEN tool.session.length - Len(tool.file) ELSE XferCells
  BY <1>1, <1>2 DEF Asked
<1> DEFINE u == Extend(tool, Asked, Answer)
<1>4. /\ u \in ToolType /\ Fits(u)
      /\ u.session = tool.session /\ u.k = tool.k + 1 /\ u.polling = tool.polling
      /\ u.result = tool.result /\ u.stale = tool.stale /\ u.blamed = tool.blamed
      /\ u.file = tool.file \o Answer
      /\ u.stage = IF Len(Answer) < Asked \/ Len(tool.file) + Len(Answer) = tool.session.length
                   THEN "abort" ELSE "read"
  <2>1. tool \in ToolType /\ Fits(tool) /\ Answer \in Seq(Cell) /\ Len(Answer) <= Asked
    BY <1>1, <1>2, <1>3
  <2> HIDE DEF u
  <2>2. u = Extend(tool, Asked, Answer)
    BY DEF u
  <2> QED
    BY <1>3, <2>1, <2>2, ExtendFacts
<1> HIDE DEF u
<1>5. tool' = u
  BY <1>1 DEF u
<1> QED
  BY <1>1, <1>2, <1>4, <1>5

LEMMA RefusedReadExtends ==
  ASSUME ToolInv, MediaInv, ReadRefusedTo, tool.stage = "read", Asked \in 1 .. XferCells
  PROVE  /\ tool' \in ToolType /\ Fits(tool')
         /\ tool'.session = tool.session /\ tool'.stale = tool.stale /\ tool'.blamed = TRUE
         /\ tool'.stage \in {"read", "abort"}
<1> DEFINE u == Extend(tool, Asked, JunkRead)
<1>1. /\ tool \in ToolType /\ Fits(tool) /\ Asked \in Nat
      /\ JunkRead \in [1 .. Asked -> Cell]
  BY Sizes DEF ToolInv, ReadRefusedTo
<1>2. JunkRead \in Seq(Cell) /\ Len(JunkRead) = Asked
  BY <1>1, FunctionIsSeq
<1>3. /\ u \in ToolType /\ Fits(u) /\ u.session = tool.session /\ u.stale = tool.stale
      /\ u.stage \in {"read", "abort"}
  BY <1>1, <1>2, ExtendFacts DEF Asked
<1>4. tool' = [u EXCEPT !.blamed = TRUE]
  BY DEF ReadRefusedTo
<1> HIDE DEF u
<1> QED
  BY <1>3, <1>4, BlamedFacts

\* Every step keeps it.
LEMMA StepKeepsToolInv ==
  ASSUME ToolInv, MediaInv, [HostNext]_hostVars
  PROVE  ToolInv'
<1>0. /\ tool \in ToolType /\ Fits(tool) /\ tool.blamed \in BOOLEAN
      /\ {"error", "assumed", "uploaded"} \subseteq Results \ {"none"}
      /\ Blamed \in BOOLEAN
  BY DEF ToolInv, ToolType, Results, Blamed
<1>1. CASE Device \/ UNCHANGED hostVars
  BY <1>1 DEF Device, hostVars, ToolInv
<1>2. CASE Send
  BY <1>0, <1>2, SentFacts DEF Send, Commanding, Running, ToolInv
<1>3. CASE SendStalled
  BY <1>0, <1>3, OverFacts DEF SendStalled, ToolInv
<1>4. CASE Poll
  <2>1. AfterStatus(tool, dfu') \in ToolType /\ Fits(AfterStatus(tool, dfu'))
    BY <1>0, <1>4, AfterStatusOK DEF Poll
  <2> QED
    BY <1>0, <1>4, <2>1, BlamedFacts DEF Poll, ToolInv
<1>5. CASE Read
  BY <1>0, <1>5, ReadCases, ReadExtends, RefusedReadExtends DEF ToolInv
<1>6. CASE EndUpload
  BY <1>0, <1>6, OverFacts DEF EndUpload, ToolInv
<1>7. CASE GiveUp
  BY <1>0, <1>7, OverFacts, BlamedFacts DEF GiveUp, ToolInv
<1>8. CASE Disturb
  BY <1>0, <1>8, OverFacts, BlamedFacts DEF Disturb, Vanished, ToolInv
<1>9. CASE StartTool
  BY <1>9, StartedOK DEF StartTool, ToolInv
<1> QED
  BY <1>1, <1>2, <1>3, <1>4, <1>5, <1>6, <1>7, <1>8, <1>9 DEF HostNext, ToolStep

(***************************************************************************)
(* The tool is one of the hosts of UsbdDfu.                                *)
(***************************************************************************)

\* The request of each stage is one a host of UsbdDfu may make; that of a
\* block is a command only when the image is one the device takes for it.
LEMMA SendCases ==
  ASSUME ToolInv, Send
  PROVE  LET s == tool.session
         IN  /\ s \in Sessions /\ tool.k \in Nat /\ ~tool.polling
             /\ \/ /\ tool.stage = "erase"
                   /\ (FirstSector(s) + tool.k) * SectorCells \in HostAddrs
                   /\ EraseCommand((FirstSector(s) + tool.k) * SectorCells)
                \/ tool.stage = "address" /\ s.addr \in HostAddrs /\ SetAddress(s.addr)
                \/ /\ tool.stage = "block" /\ tool.k \in 0 .. Blocks(s) - 1
                   /\ FirstBlock(s) + tool.k \in HostBlocks /\ Block(s, tool.k) \in Payloads
                   /\ DnloadData(FirstBlock(s) + tool.k, Block(s, tool.k))
                \/ /\ tool.stage = "block" /\ Ambiguous(s)
                   /\ \E a \in HostAddrs : SetAddress(a) \/ SetExecAddress(a) \/ EraseCommand(a)
                \/ tool.stage = "exec" /\ s.exec \in HostAddrs /\ SetExecAddress(s.exec)
                \/ tool.stage = "finish" /\ DnloadEnd
<1> DEFINE s == tool.session
<1>1. /\ s \in Sessions /\ tool.k \in Nat /\ ~tool.polling /\ Fits(tool)
      /\ tool.stage \in {"erase", "address", "block", "exec", "finish"}
      /\ Transfer(tool)
  BY DEF ToolInv, ToolType, Stages, Send, Commanding, Running
<1> HIDE DEF s
<1>2. tool.stage # "address" => ~s.upload
  BY <1>1 DEF Fits, s
<1>3. CASE tool.stage = "erase"
  <2>1. /\ s.erase /\ FirstSector(s) + tool.k <= LastSector(s)
        /\ FirstSector(s) \in Nat /\ LastSector(s) \in Nat
    BY <1>1, <1>3, SectorsOrdered DEF Fits, s
  <2>2. FirstSector(s) + tool.k \in FirstSector(s) .. LastSector(s)
    BY <1>1, <2>1
  <2>3. \A a \in FirstSector(s) .. LastSector(s) : a * SectorCells \in HostAddrs
    BY <1>1, <1>2, <1>3, <2>1, ToolAssumption
  <2>4. EraseCommand((FirstSector(s) + tool.k) * SectorCells)
    BY <1>1, <1>3 DEF Transfer, s
  <2> QED
    BY <1>1, <1>3, <2>2, <2>3, <2>4 DEF s
<1>4. CASE tool.stage = "address"
  <2>1. SetAddress(s.addr) /\ s.addr \in HostAddrs
    BY <1>1, <1>4, SessionFacts DEF Transfer, s
  <2> QED
    BY <1>1, <1>4, <2>1 DEF s
<1>5. CASE tool.stage = "block"
  <2>1. Blocks(s) \in Nat \ {0} /\ tool.k <= Blocks(s) - 1
    BY <1>1, <1>5, BlocksCover DEF Fits, s
  <2>2. tool.k \in 0 .. Blocks(s) - 1
    BY <1>1, <2>1
  <2>3. FirstBlock(s) + tool.k \in HostBlocks /\ Block(s, tool.k) \in Payloads
    BY <1>1, <1>2, <1>5, <2>2, ToolAssumption
  <2>4. DnloadBlock(FirstBlock(s) + tool.k, Block(s, tool.k))
    BY <1>1, <1>5 DEF Transfer, s
  <2>5. CASE FirstBlock(s) + tool.k = 0 /\ Block(s, tool.k) \in DOMAIN Lookalike
    <3>1. s.standard /\ tool.k = 0
      BY <1>1, <2>5, SessionFacts DEF FirstBlock
    <3>2. Ambiguous(s)
      BY <1>2, <1>5, <2>5, <3>1 DEF Ambiguous
    <3> DEFINE c == Lookalike[Block(s, tool.k)]
    <3>3. c \in [request : {"address", "erase", "exec"}, addr : HostAddrs]
      BY <2>5, LookalikeAssumption
    <3>4. TakenFor(c)
      BY <2>4, <2>5 DEF DnloadBlock
    <3> HIDE DEF c
    <3>5. \E a \in HostAddrs : SetAddress(a) \/ SetExecAddress(a) \/ EraseCommand(a)
      BY <3>3, <3>4 DEF TakenFor
    <3> QED
      BY <1>1, <1>5, <3>2, <3>5 DEF s
  <2>6. CASE ~(FirstBlock(s) + tool.k = 0 /\ Block(s, tool.k) \in DOMAIN Lookalike)
    <3>1. DnloadData(FirstBlock(s) + tool.k, Block(s, tool.k))
      BY <2>4, <2>6 DEF DnloadBlock
    <3> QED
      BY <1>1, <1>5, <2>2, <2>3, <3>1 DEF s
  <2> QED
    BY <2>5, <2>6
<1>6. CASE tool.stage = "exec"
  <2>1. s.exec # NoExec /\ SetExecAddress(s.exec)
    BY <1>1, <1>6 DEF Fits, Transfer, s
  <2>2. s.exec \in HostAddrs
    BY <1>1, <2>1, SessionFacts
  <2> QED
    BY <1>1, <1>6, <2>1, <2>2 DEF s
<1>7. CASE tool.stage = "finish"
  BY <1>1, <1>7 DEF Transfer, s
<1> QED
  BY <1>1, <1>3, <1>4, <1>5, <1>6, <1>7

\* So is the block a read asks for.
LEMMA ReadBlockInHostBlocks ==
  ASSUME ToolInv, tool.stage = "read"
  PROVE  ReadBlock \in HostBlocks
<1> DEFINE s == tool.session
           k == tool.k
<1>1. s \in Sessions /\ k \in Nat /\ s.upload /\ k * XferCells < s.length
  BY DEF ToolInv, ToolType, Fits
<1>2. s.length \in Nat \ {0} /\ XferCells \in Nat \ {0}
  BY <1>1, SessionFacts, Sizes
<1> HIDE DEF s, k
<1>3. k <= k * XferCells
  BY <1>1, <1>2
<1>4. k \in 0 .. s.length - 1
  BY <1>1, <1>2, <1>3
<1> QED
  BY <1>1, <1>4, ToolAssumption DEF ReadBlock, s, k

\* Every step of the tool is a step of the class, or none.
LEMMA StepIsClassStep ==
  ASSUME ToolInv, MediaInv, [HostNext]_hostVars
  PROVE  [DfuNext]_dfuVars
<1>1. CASE Device
  BY <1>1 DEF Device, DfuNext
<1>2. CASE Send
  <2>1. Command
    BY <1>2, SendCases DEF Command
  <2> QED
    BY <2>1 DEF DfuNext
<1>3. CASE SendStalled \/ Poll
  BY <1>3 DEF SendStalled, Poll, DfuNext, StatusRequest
<1>4. CASE Read
  <2>1. ReadBlock \in HostBlocks /\ Asked \in 0 .. UploadMax
    BY <1>4, ReadCases, ReadBlockInHostBlocks, BindingAssumption, Sizes
  <2>2. Upload(ReadBlock, Asked) \/ UploadRefused(ReadBlock)
    BY <1>4, ReadCases DEF ReadServedTo, ReadRefusedTo
  <2>3. Command
    BY <2>1, <2>2 DEF Command
  <2> QED
    BY <2>3 DEF DfuNext
<1>5. CASE EndUpload
  BY <1>5 DEF EndUpload, DfuNext, Command, StatusRequest
<1>6. CASE GiveUp \/ StartTool \/ UNCHANGED hostVars
  BY <1>6 DEF GiveUp, StartTool, hostVars
<1>7. CASE Disturb
  BY <1>7 DEF Disturb, DfuNext
<1> QED
  BY <1>1, <1>2, <1>3, <1>4, <1>5, <1>6, <1>7 DEF HostNext, ToolStep

\* The invariants of the backend and of the class hold under the tool, with
\* the tool's own.
BaseInv == MediaInv /\ CoherentInv /\ ClassInv /\ JobsInv /\ ToolInv

LEMMA InitBaseInv == HostInit => BaseInv
<1> SUFFICES ASSUME HostInit PROVE BaseInv
  OBVIOUS
<1>1. DfuInit /\ ToolInv
  BY StartedOK DEF HostInit, ToolInv
<1>2. JobsInv
  BY <1>1 DEF DfuInit, MediaInit, InitMedia, TargetError, NoLocals, JobsInv, JobsAreSerialised,
     AbortState, Busy
<1> QED
  BY <1>1, <1>2, DfuInitMediaInv, InitClassInv DEF BaseInv

LEMMA StepKeepsBaseInv ==
  BaseInv /\ [HostNext]_hostVars => BaseInv' /\ [DfuNext]_dfuVars
BY StepKeepsToolInv, StepIsClassStep, ClassKeepsMediaInv, NextKeepsClassInv, NextKeepsJobsInv
   DEF BaseInv

THEOREM BaseInvariant == HostSpec => []BaseInv
BY InitBaseInv, StepKeepsBaseInv, PTL DEF HostSpec

\* dfu_download.py drives the device only in the ways UsbdDfu's hosts may.
THEOREM ToolIsAHost == HostSpec => DfuInit /\ [][DfuNext]_dfuVars
<1>1. HostInit => DfuInit
  BY DEF HostInit
<1> QED
  BY <1>1, StepKeepsBaseInv, BaseInvariant, PTL DEF HostSpec

\* The tool's variable keeps its type, and no block or sector leaves the image.
THEOREM ToolTypes == HostSpec => []ToolTypeOK
<1>1. ASSUME ToolInv PROVE ToolTypeOK
  <2>1. tool.session \in Sessions /\ tool.k \in Nat
    BY <1>1 DEF ToolInv, ToolType
  <2>2. Blocks(tool.session) \in Nat
    BY <2>1, BlocksCover
  <2> QED
    BY <1>1, <2>1, <2>2 DEF ToolInv, ToolType, Fits, ToolTypeOK, Stages, Results
<1>2. BaseInv => ToolTypeOK
  BY <1>1 DEF BaseInv
<1> QED
  BY <1>2, BaseInvariant, PTL

(***************************************************************************)
(* An idle device has no DfuSe addressing left.                            *)
(***************************************************************************)

IdleIsStandard == dfu.state = "dfuIDLE" => ~bind.dfuse

\* A command or a data block leaves dfuIDLE.
LEMMA CommandLeavesIdle ==
  ASSUME MediaInv, ClassInv, NEW m, m.err \in MediaError, NEW ok \in BOOLEAN, NEW b, NEW w,
         Commanded(ok, m, b, w)
  PROVE  /\ ok => dfu' = [dfu EXCEPT !.state = "dfuDNLOAD-SYNC"] /\ dfu'.state = "dfuDNLOAD-SYNC"
         /\ ~ok => dfu'.state = "dfuERROR"
         /\ dfu'.dl = dfu.dl /\ media' = m /\ bind' = b /\ want' = w /\ HandledOnly
<1>1. dfu \in DfuType
  BY DEF ClassInv, ClassTypeOK
<1>2. /\ dfu' = IF ok THEN [dfu EXCEPT !.state = "dfuDNLOAD-SYNC"]
                ELSE SetError(dfu, m, "errADDRESS")
      /\ media' = m /\ bind' = b /\ want' = w /\ HandledOnly
  BY DEF Commanded, Handled, mainVars, HandledOnly
<1>3. SetError(dfu, m, "errADDRESS").state = "dfuERROR"
  BY <1>1, SetErrorFacts
<1>4. SetError(dfu, m, "errADDRESS").dl = dfu.dl
  BY <1>1 DEF SetError, DfuType
<1> QED
  BY <1>1, <1>2, <1>3, <1>4 DEF DfuType

LEMMA DnloadLeavesIdle ==
  ASSUME MediaInv, ClassInv, NEW b, NEW p \in Payloads, DnloadData(b, p)
  PROVE  LET a  == BlockAddress(b)
             ok == BlockValid(b) /\ WriteAccepted(Loading, a, Length(p))
         IN  /\ ok => dfu'.state = "dfuDNLOAD-SYNC"
             /\ ~ok => dfu'.state = "dfuERROR"
             /\ bind'.ptr = bind.ptr /\ bind'.exec = bind.exec /\ bind'.dfuse = bind.dfuse
             /\ media' = IF BlockValid(b) THEN QueueWrite(Loading, a, p) ELSE Loading
             /\ want' = [c \in AppCell |-> IF ok /\ c - a \in DOMAIN p THEN p[c - a] ELSE want[c]]
             /\ HandledOnly
<1> DEFINE a  == BlockAddress(b)
           d  == [dfu EXCEPT !.dl = TRUE]
           m  == IF BlockValid(b) THEN QueueWrite(Loading, a, p) ELSE Loading
           ok == BlockValid(b) /\ WriteAccepted(Loading, a, Length(p))
<1>1. /\ dfu \in DfuType /\ bind \in BindType /\ RequestOK(Loading)
      /\ d \in DfuType
  BY LoadingOK DEF ClassInv, ClassTypeOK, DfuType
<1>2. /\ dfu' = IF ok THEN [d EXCEPT !.state = "dfuDNLOAD-SYNC"] ELSE SetError(d, m, "errWRITE")
      /\ media' = m /\ bind' = LoadingBinding /\ HandledOnly
      /\ want' = [c \in AppCell |-> IF ok /\ c - a \in DOMAIN p THEN p[c - a] ELSE want[c]]
  BY DEF DnloadData, Handled, mainVars, HandledOnly
<1>3. m.err \in MediaError
  <2>1. RequestOK(m)
    BY <1>1, QueueWriteOK
  <2> QED
    BY <2>1 DEF RequestOK, MediaType
<1>4. /\ bind'.ptr = bind.ptr /\ bind'.exec = bind.exec /\ bind'.dfuse = bind.dfuse
  BY <1>1, <1>2 DEF LoadingBinding, BindType
<1> HIDE DEF d, m, ok
<1>5. SetError(d, m, "errWRITE").state = "dfuERROR"
  BY <1>1, <1>3, SetErrorFacts
<1>6. ok => dfu'.state = "dfuDNLOAD-SYNC"
  BY <1>1, <1>2 DEF DfuType
<1> QED
  BY <1>2, <1>4, <1>5, <1>6 DEF ok, m

LEMMA UploadRefusedFacts ==
  ASSUME MediaInv, ClassInv, NEW b, UploadRefused(b)
  PROVE  dfu'.state = "dfuERROR" /\ bind' = bind
<1> DEFINE m == [media EXCEPT !.err = ReadError(b)]
<1>1. dfu' = SetError([dfu EXCEPT !.ul = TRUE], m, "errADDRESS") /\ bind' = bind
  BY DEF UploadRefused, Handled
<1>2. m.err \in MediaError /\ [dfu EXCEPT !.ul = TRUE] \in DfuType
  BY ReadErrorOK DEF RequestOK, MediaType, ClassInv, ClassTypeOK, DfuType
<1> HIDE DEF m
<1> QED
  BY <1>1, <1>2, SetErrorFacts

LEMMA UploadFacts ==
  ASSUME ClassInv, NEW b, NEW n, Upload(b, n)
  PROVE  LET short == AppEnd - BlockAddress(b) < n
         IN  /\ UploadState /\ ReadAllowed(b) /\ HandledOnly
             /\ UNCHANGED <<media, want>> /\ dfu'.dl = dfu.dl
             /\ dfu'.state = IF short THEN "dfuIDLE" ELSE "dfuUPLOAD-IDLE"
             /\ short => ~bind'.dfuse
             /\ ~short => bind' = bind
<1>1. dfu \in DfuType /\ bind \in BindType
  BY DEF ClassInv, ClassTypeOK
<1> QED
  BY <1>1 DEF Upload, Handled, mainVars, HandledOnly, DfuType, BindType, ResetAddressing

LEMMA NextKeepsIdle ==
  ASSUME MediaInv, ClassInv, IdleIsStandard, [DfuNext]_dfuVars
  PROVE  IdleIsStandard'
<1>0. /\ dfu \in DfuType /\ bind \in BindType /\ media.err \in MediaError
  BY DEF ClassInv, ClassTypeOK, MediaInv, MediaTypeOK, MediaType
<1>1. CASE GetStateOrStall \/ MainPoll \/ UNCHANGED dfuVars
  BY <1>1 DEF GetStateOrStall, Handled, MainPoll, dfuVars, classVars, IdleIsStandard
<1>2. CASE GetStatusError
  BY <1>0, <1>2 DEF GetStatusError, Handled, IdleIsStandard, DfuType
<1>3. CASE GetStatus
  BY <1>0, <1>3 DEF GetStatus, Handled, AfterPoll, IdleIsStandard, DfuType
<1>4. CASE ClrStatus \/ Abort \/ BusReset
  BY <1>0, <1>4 DEF ClrStatus, Abort, BusReset, Handled, AbortBinding, ResetAddressing,
     IdleIsStandard, BindType
<1>5. CASE DnloadEnd
  BY <1>0, <1>5 DEF DnloadEnd, Handled, IdleIsStandard, DfuType
<1>6. ASSUME NEW m, m.err \in MediaError, NEW ok \in BOOLEAN, NEW b, NEW w,
             Commanded(ok, m, b, w)
      PROVE  IdleIsStandard'
  BY <1>6, CommandLeavesIdle DEF IdleIsStandard
<1>7. ASSUME NEW a \in HostAddrs, SetAddress(a) \/ SetExecAddress(a) \/ EraseCommand(a)
      PROVE  IdleIsStandard'
  <2>1. RequestOK(QueueErase(media, a))
    BY QueueEraseOK, LoadingOK, DataAssumption
  <2>2. QueueErase(media, a).err \in MediaError
    BY <2>1 DEF RequestOK, MediaType
  <2>3. /\ AddressValid(a, 1) \in BOOLEAN /\ EraseAccepted(media, a) \in BOOLEAN
        /\ (AddressValid(a, 1) /\ a % WordCells = 0) \in BOOLEAN
    BY DEF AddressValid, EraseAccepted
  <2> QED
    BY <1>0, <1>6, <1>7, <2>2, <2>3 DEF SetAddress, SetExecAddress, EraseCommand
<1>8. ASSUME NEW b \in HostBlocks, NEW p \in Payloads, DnloadData(b, p)
      PROVE  IdleIsStandard'
  <2>1. dfu'.state \in {"dfuDNLOAD-SYNC", "dfuERROR"}
    BY <1>8, DnloadLeavesIdle
  <2> QED
    BY <2>1 DEF IdleIsStandard
<1>9. ASSUME NEW b \in HostBlocks, UploadRefused(b) PROVE IdleIsStandard'
  BY <1>9, UploadRefusedFacts DEF IdleIsStandard
<1>10. ASSUME NEW b \in HostBlocks, NEW n \in 0 .. UploadMax, Upload(b, n) PROVE IdleIsStandard'
  BY <1>10, UploadFacts DEF IdleIsStandard
<1>11. CASE DfuPowerLoss
  BY <1>11 DEF DfuPowerLoss, ClassReset, InitBind, IdleIsStandard
<1> QED
  BY <1>1, <1>2, <1>3, <1>4, <1>5, <1>7, <1>8, <1>9, <1>10, <1>11
     DEF DfuNext, StatusRequest, Command

LEMMA InitIdle == DfuInit => IdleIsStandard
BY DEF DfuInit, ClassInit, InitBind, IdleIsStandard

(***************************************************************************)
(* A run on an idle device fails only for a cause.                         *)
(***************************************************************************)

\* What division counts.
LEMMA DivisionCounts ==
  ASSUME NEW a \in Nat, NEW x \in Nat \ {0}, NEW i \in Nat, i * x <= a
  PROVE  i <= a \div x
<1> DEFINE q == a \div x
           r == a % x
<1>1. q \in Nat /\ r \in 0 .. x - 1 /\ a = q * x + r
  BY Division
<1> HIDE DEF q, r
<1>2. q * x \in Nat /\ i * x \in Nat
  BY <1>1
<1>3. i <= q
  <2> SUFFICES ASSUME q + 1 <= i PROVE FALSE
    BY <1>1
  <2>1. (q + 1) * x <= i * x
    BY <1>1, ProductsGrow
  <2>2. (q + 1) * x = q * x + x
    BY <1>1
  <2> QED
    BY <1>1, <1>2, <2>1, <2>2
<1> QED
  BY <1>3 DEF q

\* A block number is valid unless DfuSe reserves it for commands.
LEMMA BlockNumbers ==
  ASSUME ClassInv, NEW b \in HostBlocks, bind.dfuse => b >= 2
  PROVE  BlockValid(b)
<1>1. /\ b \in Nat /\ AddrMax \in Nat /\ AppEnd + b * XferCells <= AddrMax
      /\ XferCells \in Nat \ {0} /\ AppBase \in Nat /\ AppEnd \in Nat
  BY BindingAssumption, Sizes
<1>2. BlockBase \in Nat /\ BlockBase < AppEnd
  BY Sizes DEF BlockBase, ClassInv, ClassTypeOK, BindType, AppCell
<1>3. BlockIndex(b) \in Nat /\ BlockIndex(b) <= b
  BY <1>1 DEF BlockIndex
<1>4. BlockIndex(b) * XferCells \in Nat /\ BlockIndex(b) * XferCells <= b * XferCells
  BY <1>1, <1>3, ProductsGrow
<1>5. b * XferCells \in Nat
  BY <1>1
<1>6. BlockIndex(b) * XferCells <= AddrMax /\ BlockBase <= AddrMax - BlockIndex(b) * XferCells
  BY <1>1, <1>2, <1>4, <1>5
<1>7. BlockIndex(b) <= AddrMax \div XferCells
  BY <1>1, <1>3, <1>6, DivisionCounts
<1> QED
  BY <1>6, <1>7 DEF BlockValid

\* Command lines whose addresses the device accepts: in the application, and
\* an execute address that is aligned.
GoodArguments ==
  \A s \in Sessions :
    /\ s.addr \in AppCell
    /\ s.exec # NoExec => s.exec \in AppCell /\ s.exec % WordCells = 0

\* As long as nothing is to blame, the device is in the state the tool's
\* stage expects.
Ready(t, d, b) ==
  ~t.stale /\ ~t.blamed /\ t.stage # "over" /\ ~Ambiguous(t.session) =>
    /\ ~t.polling /\ t.stage \in {"erase", "address", "block", "exec", "finish"} =>
         d.state \in {"dfuIDLE", "dfuDNLOAD-IDLE"}
    /\ t.polling /\ t.stage = "finish" =>
         d.state \in {"dfuMANIFEST-SYNC", "dfuMANIFEST", "dfuMANIFEST-WAIT-RESET"}
    /\ t.polling /\ t.stage # "finish" => d.state \in {"dfuDNLOAD-SYNC", "dfuDNBUSY"}
    /\ t.stage = "read" => d.state \in {"dfuIDLE", "dfuDNLOAD-IDLE", "dfuUPLOAD-IDLE"}
    /\ t.session.upload => ~d.dl
    /\ t.session.standard => ~b.dfuse

CauseInv == Ready(tool, dfu, bind) /\ ErrorsHaveCause

\* A request the tool sends to a device that expects it is accepted, or the
\* backend has an error to blame.
LEMMA SendFindsReady ==
  ASSUME GoodArguments, BaseInv, Send, ~tool.stale, ~tool.blamed, media'.err = "none",
         ~Ambiguous(tool.session), Ready(tool, dfu, bind)
  PROVE  /\ tool.stage # "finish" => dfu'.state = "dfuDNLOAD-SYNC"
         /\ tool.stage = "finish" => dfu'.state = "dfuMANIFEST-SYNC"
         /\ tool.session.upload => ~dfu'.dl
         /\ tool.session.standard => ~bind'.dfuse
<1> DEFINE s == tool.session
<1>0. /\ ToolInv /\ MediaInv /\ ClassInv /\ Fits(tool) /\ s \in Sessions /\ tool.k \in Nat
      /\ dfu \in DfuType /\ bind \in BindType /\ RequestOK(media) /\ RequestOK(Loading)
      /\ media.err \in MediaError
  BY LoadingOK DEF BaseInv, ToolInv, ToolType, ClassInv, ClassTypeOK, RequestOK, MediaType
<1>s. \/ tool.stage = "erase" /\ EraseCommand((FirstSector(s) + tool.k) * SectorCells)
         /\ (FirstSector(s) + tool.k) * SectorCells \in HostAddrs
      \/ tool.stage = "address" /\ SetAddress(s.addr)
      \/ /\ tool.stage = "block" /\ FirstBlock(s) + tool.k \in HostBlocks
         /\ Block(s, tool.k) \in Payloads
         /\ DnloadData(FirstBlock(s) + tool.k, Block(s, tool.k))
      \/ tool.stage = "exec" /\ SetExecAddress(s.exec)
      \/ tool.stage = "finish" /\ DnloadEnd
  BY <1>0, SendCases
<1>1. /\ tool.stage # "over" /\ (s.upload => ~dfu.dl) /\ (s.standard => ~bind.dfuse)
  BY DEF Ready, Send, Commanding, Running
<1>2. /\ tool.stage \in {"erase", "block", "exec", "finish"} => ~s.upload
      /\ tool.stage \in {"erase", "address"} => ~s.standard
  BY <1>0 DEF Fits
<1>x. tool.stage = "exec" => s.exec # NoExec
  BY <1>0 DEF Fits
<1> SUFFICES /\ tool.stage # "finish" => dfu'.state = "dfuDNLOAD-SYNC"
             /\ tool.stage = "finish" => dfu'.state = "dfuMANIFEST-SYNC"
             /\ s.upload => ~dfu'.dl
             /\ s.standard => ~bind'.dfuse
  OBVIOUS
<1> HIDE DEF s
<1>3. ASSUME NEW m, m.err \in MediaError, NEW ok \in BOOLEAN, NEW b, NEW w,
             Commanded(ok, m, b, w)
      PROVE  /\ ok => dfu'.state = "dfuDNLOAD-SYNC"
             /\ dfu'.dl = dfu.dl /\ media' = m /\ bind' = b
  BY <1>0, <1>3, CommandLeavesIdle
<1>4. CASE tool.stage = "erase"
  <2> DEFINE a == (FirstSector(s) + tool.k) * SectorCells
             m == QueueErase(media, a)
             ok == EraseAccepted(media, a)
  <2>1. EraseCommand(a) /\ a \in Nat
    BY <1>4, <1>s, DataAssumption
  <2> HIDE DEF a
  <2>2. m.err \in MediaError /\ ok \in BOOLEAN
    BY <1>0, <2>1, QueueEraseOK DEF RequestOK, MediaType, EraseAccepted
  <2>3. PICK w : Commanded(ok, m, bind, w)
    BY <2>1 DEF EraseCommand
  <2>4. media' = m /\ bind' = bind /\ dfu'.dl = dfu.dl /\ (ok => dfu'.state = "dfuDNLOAD-SYNC")
    <3> HIDE DEF m, ok
    <3> QED
      BY <1>3, <2>2, <2>3
  <2>5. ok
    BY <1>0, <2>4 DEF QueueErase, EraseAccepted, RequestOK, MediaType
  <2> QED
    BY <1>1, <1>2, <1>4, <2>4, <2>5
<1>5. CASE tool.stage \in {"address", "exec"}
  <2>1. \/ tool.stage = "address" /\ SetAddress(s.addr)
        \/ tool.stage = "exec" /\ s.exec # NoExec /\ SetExecAddress(s.exec)
    BY <1>5, <1>s, <1>x
  <2>2. CASE tool.stage = "address" /\ SetAddress(s.addr)
    <3>1. s.addr \in AppCell /\ AddressValid(s.addr, 1)
      BY <1>0, Sizes DEF GoodArguments, AddressValid, AppCell
    <3>2. PICK b : Commanded(TRUE, media, b, want)
      BY <2>2, <3>1 DEF SetAddress
    <3>3. dfu'.state = "dfuDNLOAD-SYNC" /\ dfu'.dl = dfu.dl
      BY <1>0, <1>3, <3>2
    <3> QED
      BY <1>1, <1>2, <2>2, <3>3
  <2>3. CASE tool.stage = "exec" /\ s.exec # NoExec /\ SetExecAddress(s.exec)
    <3>1. AddressValid(s.exec, 1) /\ s.exec % WordCells = 0
      BY <1>0, <2>3, Sizes DEF GoodArguments, AddressValid, AppCell
    <3>2. Commanded(TRUE, media, [bind EXCEPT !.exec = s.exec], want)
      BY <2>3, <3>1 DEF SetExecAddress
    <3>3. /\ dfu'.state = "dfuDNLOAD-SYNC" /\ dfu'.dl = dfu.dl
          /\ bind' = [bind EXCEPT !.exec = s.exec]
      BY <1>0, <1>3, <3>2
    <3> QED
      BY <1>0, <1>1, <1>2, <2>3, <3>3 DEF BindType
  <2> QED
    BY <2>1, <2>2, <2>3
<1>6. CASE tool.stage = "block"
  <2> DEFINE b == FirstBlock(s) + tool.k
             p == Block(s, tool.k)
             a == BlockAddress(b)
  <2>1. DnloadData(b, p) /\ b \in HostBlocks /\ p \in Payloads
    BY <1>6, <1>s
  <2>2. bind.dfuse => b >= 2
    <3>1. s.standard \in BOOLEAN
      BY <1>0, SessionFacts
    <3> QED
      BY <1>0, <1>1, <3>1 DEF FirstBlock
  <2> HIDE DEF b, p
  <2>3. BlockValid(b)
    BY <1>0, <2>1, <2>2, BlockNumbers
  <2>4. /\ media' = QueueWrite(Loading, a, p) /\ bind'.dfuse = bind.dfuse
        /\ WriteAccepted(Loading, a, Length(p)) => dfu'.state = "dfuDNLOAD-SYNC"
    BY <1>0, <2>1, <2>3, DnloadLeavesIdle
  <2>5. WriteAccepted(Loading, a, Length(p))
    BY <1>0, <2>4 DEF QueueWrite, WriteAccepted, RequestOK, MediaType
  <2> QED
    BY <1>1, <1>2, <1>6, <2>4, <2>5
<1>7. CASE tool.stage = "finish"
  BY <1>0, <1>1, <1>2, <1>7, <1>s DEF DnloadEnd, Handled, DfuType
<1> QED
  BY <1>4, <1>5, <1>6, <1>7, <1>s

\* A status report finds an error only if one is to blame, and takes the
\* device to where the tool's next stage expects it.
LEMMA PollFindsReady ==
  ASSUME BaseInv, Poll, ~tool.stale, ~tool.blamed, media'.err = "none",
         ~Ambiguous(tool.session), Ready(tool, dfu, bind)
  PROVE  /\ dfu'.status = "OK" /\ dfu'.dl = dfu.dl /\ bind' = bind
         /\ tool.stage = "finish" =>
              dfu'.state \in {"dfuMANIFEST-SYNC", "dfuMANIFEST", "dfuMANIFEST-WAIT-RESET"}
         /\ tool.stage # "finish" => dfu'.state \in {"dfuDNBUSY", "dfuDNLOAD-IDLE"}
<1>1. /\ dfu \in DfuType /\ StatusMatchesState /\ tool.stage # "over" /\ tool.polling
  BY DEF BaseInv, ClassInv, ClassTypeOK, Poll, Running
<1>2. dfu' = [dfu EXCEPT !.state = AfterPoll] /\ bind' = bind
  BY DEF Poll, GetStatus, GetStatusError, Handled
<1>3. /\ dfu'.state = AfterPoll /\ dfu'.status = dfu.status /\ dfu'.dl = dfu.dl
  BY <1>1, <1>2 DEF DfuType
<1>4. CASE tool.stage = "finish"
  <2>1. dfu.state \in {"dfuMANIFEST-SYNC", "dfuMANIFEST", "dfuMANIFEST-WAIT-RESET"}
    BY <1>1, <1>4 DEF Ready
  <2> QED
    BY <1>1, <1>2, <1>3, <1>4, <2>1 DEF AfterPoll, StatusMatchesState
<1>5. CASE tool.stage # "finish"
  <2>1. dfu.state \in {"dfuDNLOAD-SYNC", "dfuDNBUSY"}
    BY <1>1, <1>5 DEF Ready
  <2> QED
    BY <1>1, <1>2, <1>3, <1>5, <2>1 DEF AfterPoll, StatusMatchesState
<1> QED
  BY <1>4, <1>5

LEMMA PollKeepsCause ==
  ASSUME BaseInv, CauseInv, Poll
  PROVE  CauseInv'
<1> DEFINE t == AfterStatus(tool, dfu')
<1>1. /\ tool \in ToolType /\ Fits(tool) /\ tool.polling /\ tool.stage # "over"
      /\ tool.result = "none" /\ Blamed \in BOOLEAN /\ {"error", "stored"} \subseteq Results \ {"none"}
  BY DEF BaseInv, ToolInv, ToolType, Fits, Poll, Running, Blamed, Results
<1>2. tool' = [t EXCEPT !.blamed = Blamed] /\ t \in ToolType
  BY <1>1, AfterStatusOK DEF Poll
<1>3. t.session = tool.session /\ t.stale = tool.stale
  BY <1>1, AfterStatusFacts, OverFacts, FollowingFacts
<1> HIDE DEF t
<1>4. /\ tool'.stage = t.stage /\ tool'.polling = t.polling /\ tool'.result = t.result
      /\ tool'.session = tool.session /\ tool'.stale = tool.stale /\ tool'.blamed = Blamed
  BY <1>1, <1>2, <1>3, BlamedFacts
<1>5. CASE tool.stale \/ Blamed \/ Ambiguous(tool.session)
  BY <1>4, <1>5 DEF CauseInv, Ready, ErrorsHaveCause
<1>6. CASE ~tool.stale /\ ~Blamed /\ ~Ambiguous(tool.session)
  <2>1. ~tool.blamed /\ media'.err = "none"
    BY <1>1, <1>6 DEF Blamed
  <2>2. /\ dfu'.status = "OK" /\ dfu'.dl = dfu.dl /\ bind' = bind
        /\ tool.stage = "finish" =>
              dfu'.state \in {"dfuMANIFEST-SYNC", "dfuMANIFEST", "dfuMANIFEST-WAIT-RESET"}
        /\ tool.stage # "finish" => dfu'.state \in {"dfuDNBUSY", "dfuDNLOAD-IDLE"}
    BY <1>6, <2>1, PollFindsReady DEF CauseInv
  <2>3. /\ tool.session.upload => ~dfu.dl
        /\ tool.session.standard => ~bind.dfuse
    BY <1>1, <1>6, <2>1 DEF CauseInv, Ready
  <2>4. CASE t = tool /\ dfu'.state # "dfuDNLOAD-IDLE"
    <3>1. tool'.stage = tool.stage /\ tool'.polling /\ tool'.result = "none"
      BY <1>1, <1>4, <2>4
    <3>2. tool.stage # "read"
      BY <1>1 DEF Fits
    <3> QED
      BY <1>4, <2>2, <2>3, <2>4, <3>1, <3>2 DEF CauseInv, Ready, ErrorsHaveCause
  <2>5. CASE t = Over(tool, "stored")
    <3>1. t.stage = "over" /\ t.result = "stored"
      BY <1>1, <2>5, OverFacts
    <3> QED
      BY <1>4, <3>1 DEF CauseInv, Ready, ErrorsHaveCause
  <2>6. CASE t = Moved(tool) /\ tool.stage # "finish" /\ dfu'.state = "dfuDNLOAD-IDLE"
    <3>1. t.stage # "over" /\ ~t.polling /\ t.result = "none"
      BY <1>1, <2>6, FollowingFacts
    <3> QED
      BY <1>4, <2>2, <2>3, <2>6, <3>1 DEF CauseInv, Ready, ErrorsHaveCause
  <2>7. \/ t = tool /\ dfu'.state # "dfuDNLOAD-IDLE"
        \/ t = Over(tool, "stored")
        \/ t = Moved(tool) /\ tool.stage # "finish" /\ dfu'.state = "dfuDNLOAD-IDLE"
    BY <2>2 DEF t, AfterStatus, Moved
  <2> QED
    BY <2>4, <2>5, <2>6, <2>7
<1> QED
  BY <1>5, <1>6

\* No step makes an error without a cause.
LEMMA StepKeepsCause ==
  ASSUME GoodArguments, BaseInv, IdleIsStandard, CauseInv, [HostNext]_hostVars
  PROVE  CauseInv'
<1>0. /\ tool \in ToolType /\ Fits(tool) /\ ToolInv /\ MediaInv /\ ClassInv /\ Blamed \in BOOLEAN
      /\ {"error", "assumed", "uploaded"} \subseteq Results \ {"none"}
      /\ dfu \in DfuType
  BY DEF BaseInv, ToolInv, Blamed, Results, ClassInv, ClassTypeOK
<1>a. ASSUME tool'.stage = "over",
             tool'.result = "error" =>
               tool'.stale \/ tool'.blamed \/ Ambiguous(tool'.session)
      PROVE  CauseInv'
  BY <1>a DEF CauseInv, Ready, ErrorsHaveCause
<1>1. CASE Device \/ UNCHANGED hostVars
  BY <1>1 DEF Device, MainPoll, classVars, hostVars, dfuVars, CauseInv, Ready, ErrorsHaveCause
<1>2. CASE Send
  <2>1. /\ tool'.stage = tool.stage /\ tool'.polling /\ tool'.result = tool.result
        /\ tool'.session = tool.session /\ tool'.stale = tool.stale /\ tool'.blamed = Blamed
    BY <1>0, <1>2, SentFacts DEF Send
  <2>2. /\ tool.stage \in {"erase", "address", "block", "exec", "finish"} /\ tool.result = "none"
    BY <1>0, <1>2 DEF Send, Commanding, Running, ToolType, Stages, Fits
  <2>3. CASE tool.stale \/ Blamed \/ Ambiguous(tool.session)
    BY <2>1, <2>2, <2>3 DEF CauseInv, Ready, ErrorsHaveCause
  <2>4. CASE ~tool.stale /\ ~Blamed /\ ~Ambiguous(tool.session)
    <3>1. ~tool.blamed /\ media'.err = "none"
      BY <1>0, <2>4 DEF Blamed, ToolType
    <3>2. /\ tool.stage # "finish" => dfu'.state = "dfuDNLOAD-SYNC"
          /\ tool.stage = "finish" => dfu'.state = "dfuMANIFEST-SYNC"
          /\ tool.session.upload => ~dfu'.dl
          /\ tool.session.standard => ~bind'.dfuse
      BY <1>2, <2>4, <3>1, SendFindsReady DEF CauseInv
    <3> QED
      BY <2>1, <2>2, <3>2 DEF CauseInv, Ready, ErrorsHaveCause
  <2> QED
    BY <2>3, <2>4
<1>3. CASE SendStalled
  <2>1. tool' = Over(tool, "error")
    BY <1>3 DEF SendStalled
  <2>2. tool.stale \/ tool.blamed \/ Ambiguous(tool.session)
    <3>1. tool.stage # "over" /\ tool.stage \in Stages
      BY <1>0, <1>3 DEF SendStalled, Commanding, Running, ToolType
    <3>2. CASE Commanding /\ ~DnloadState
      <4>1. ~tool.polling /\ tool.stage \in {"erase", "address", "block", "exec", "finish"}
        BY <3>1, <3>2 DEF Commanding, Stages
      <4> QED
        BY <3>1, <3>2, <4>1 DEF DnloadState, CauseInv, Ready
    <3>3. CASE tool.stage = "read" /\ ~UploadState
      <4>1. dfu.state = "dfuDNLOAD-IDLE" => dfu.dl
        BY <3>3 DEF UploadState
      <4>2. tool.session.upload
        BY <1>0, <3>3 DEF Fits
      <4> QED
        BY <3>1, <3>3, <4>1, <4>2 DEF UploadState, CauseInv, Ready
    <3> QED
      BY <1>3, <3>2, <3>3 DEF SendStalled
  <2> QED
    BY <1>0, <1>a, <2>1, <2>2, OverFacts
<1>4. CASE Poll
  BY <1>4, PollKeepsCause
<1>5. CASE Read
  <2>1. tool.stage = "read" /\ Asked \in 1 .. XferCells
    BY <1>0, <1>5, ReadCases
  <2>2. CASE ReadServedTo
    <3>1. /\ tool'.session = tool.session /\ ~tool'.polling /\ tool'.stage \in {"read", "abort"}
          /\ tool'.result = "none" /\ tool'.stale = tool.stale /\ tool'.blamed = tool.blamed
      BY <1>0, <2>1, <2>2, ReadExtends
    <3>2. /\ dfu'.dl = dfu.dl /\ dfu'.state \in {"dfuIDLE", "dfuUPLOAD-IDLE"}
          /\ ~bind'.dfuse \/ bind' = bind
      BY <1>0, <2>2, UploadFacts DEF ReadServedTo
    <3> QED
      BY <2>1, <3>1, <3>2 DEF CauseInv, Ready, ErrorsHaveCause
  <2>3. CASE ReadRefusedTo
    <3>1. tool'.blamed
      BY <1>0, <2>1, <2>3, RefusedReadExtends
    <3> QED
      BY <3>1 DEF CauseInv, Ready, ErrorsHaveCause
  <2> QED
    BY <1>0, <1>5, <2>2, <2>3, ReadCases
<1>6. CASE EndUpload
  BY <1>0, <1>6, <1>a, OverFacts DEF EndUpload
<1>7. CASE GiveUp
  BY <1>0, <1>7, <1>a, OverFacts, BlamedFacts DEF GiveUp
<1>8. CASE Disturb
  <2>1. CASE tool.stage = "over"
    BY <1>8, <2>1 DEF Disturb, Vanished, CauseInv, Ready, ErrorsHaveCause
  <2>2. CASE tool.stage # "over"
    <3>1. PICK r \in Results \ {"none"} : tool' = [Over(tool, r) EXCEPT !.blamed = TRUE]
      BY <1>0, <1>8, <2>2 DEF Disturb, Vanished
    <3> QED
      BY <1>0, <1>a, <3>1, OverFacts, BlamedFacts
  <2> QED
    BY <2>1, <2>2
<1>9. CASE StartTool
  <2>1. PICK s \in Sessions : tool' = Started(s)
    BY <1>9 DEF StartTool
  <2>2. dfu' = dfu /\ bind' = bind
    BY <1>9 DEF StartTool, dfuVars, classVars
  <2>3. /\ ~tool'.polling /\ tool'.result = "none" /\ tool'.stale = (dfu # InitDfu)
    BY <2>1, StartedFacts
  <2>4. dfu = InitDfu => dfu.state = "dfuIDLE" /\ ~dfu.dl
    BY DEF InitDfu
  <2> QED
    BY <2>2, <2>3, <2>4 DEF CauseInv, Ready, ErrorsHaveCause, IdleIsStandard
<1> QED
  BY <1>1, <1>2, <1>3, <1>4, <1>5, <1>6, <1>7, <1>8, <1>9 DEF HostNext, ToolStep

\* On an idle device a run with good arguments, of an image the device does
\* not take for a command, fails only for an error of the flash, a reset, or a
\* device slower than its 200 polls: no request of dfu_download.py is one the
\* state machine of usbd_dfu.c would refuse.
THEOREM ErrorsAlwaysHaveCause == GoodArguments => (HostSpec => []ErrorsHaveCause)
<1> SUFFICES ASSUME GoodArguments PROVE HostSpec => []ErrorsHaveCause
  OBVIOUS
<1> DEFINE IInv == IdleIsStandard /\ CauseInv
<1>1. HostInit => IInv
  <2> SUFFICES ASSUME HostInit PROVE IInv
    OBVIOUS
  <2>1. IdleIsStandard /\ dfu = InitDfu /\ bind = InitBind
    BY InitIdle DEF HostInit, DfuInit, ClassInit
  <2>2. PICK s \in Sessions : tool = Started(s)
    BY DEF HostInit
  <2>3. ~tool.polling /\ tool.result = "none"
    BY <2>2, StartedFacts
  <2> QED
    BY <2>1, <2>3 DEF InitDfu, InitBind, CauseInv, Ready, ErrorsHaveCause
<1>2. BaseInv /\ IInv /\ [HostNext]_hostVars => IInv'
  BY StepKeepsCause, StepKeepsBaseInv, NextKeepsIdle DEF BaseInv
<1>3. IInv => ErrorsHaveCause
  BY DEF CauseInv
<1> HIDE DEF IInv
<1> QED
  BY <1>1, <1>2, <1>3, BaseInvariant, PTL DEF HostSpec

(***************************************************************************)
(* What the tool was told is stored, is in the flash.                      *)
(***************************************************************************)

\* The cells of the image the tool has sent, ...
Sent(t, i) ==
  \/ t.stage \in {"exec", "finish"}
  \/ t.stage = "block" /\ i < t.k * XferCells
  \/ t.stage = "block" /\ t.polling /\ i < (t.k + 1) * XferCells

\* ... which the device took where the image says, unless it has refused one
\* or taken the image for a command.
BlocksTaken ==
  dfu.state # "dfuERROR" /\ ~Ambiguous(tool.session) =>
    \A i \in DOMAIN tool.session.image :
      Sent(tool, i) => /\ tool.session.addr + i \in AppCell
                       /\ want[tool.session.addr + i] = tool.session.image[i]

\* The addressing and the execute address are those of the command line, from
\* the command that sets them on.
Addressed(t, b) ==
  /\ ~t.session.standard /\ (t.stage \in {"block", "read"} \/ (t.stage = "address" /\ t.polling)) =>
       b.dfuse /\ b.ptr = t.session.addr
  /\ t.session.standard /\ t.stage = "block" /\ (t.k > 0 \/ t.polling) =>
       Ambiguous(t.session) \/ ~b.dfuse
  /\ t.session.exec # NoExec /\ (t.stage = "finish" \/ (t.stage = "exec" /\ t.polling)) =>
       b.exec = t.session.exec

BindingSet == dfu.state # "dfuERROR" => Addressed(tool, bind)

\* After the end the backend rests, and the flash stays what was stored.
StoredStays ==
  tool.result = "stored" =>
    /\ ~Busy(media) /\ ~media.dirty
    /\ StoredIsInFlash

StoredInv == BlocksTaken /\ BindingSet /\ StoredStays

\* What the class proves of its own steps.
SafeInv == SessionInv /\ PromiseInv

LEMMA StepKeepsSafeInv ==
  ASSUME "cancel" \notin Races, "publish" \notin Races, SafeInv, [DfuNext]_dfuVars
  PROVE  SafeInv'
BY NextKeepsSessionInv, NextKeepsPromise DEF SafeInv

LEMMA InitSafeInv == HostInit => SafeInv
BY InitSessionInv, InitPromiseInv DEF HostInit, SafeInv

\* A main thread with no work and nothing to write leaves the flash alone.
LEMMA RestKeepsFlash ==
  ASSUME SessionInv, MainPoll \/ BusReset \/ DfuPowerLoss, ~Busy(media), ~media.dirty
  PROVE  flash' = flash /\ ~Busy(media') /\ ~media'.dirty
<1>1. Quiet /\ MediaInv /\ JobInv /\ media \in MediaType
  BY MidPollIsBusy DEF SessionInv, StoreInv, MediaInv, MediaTypeOK
<1>2. CASE MainPoll
  <2>1. CASE PollStep
    <3>1. ~Busy(media') /\ ~media'.dirty
      BY <1>1, <2>1, PollMakesNoWork, PollDirties DEF Busy
    <3>2. PollReturn \/ ErasePublish \/ FinishDone
      BY <1>1, <2>1 DEF Quiet, Busy, PollStep, PollReturn, PollErase, PollWrite, PollFinish,
         FlushClean, FlushSame, FlushProgram, EraseStart, EraseRefused, EraseEnd, EraseFailed,
         ProgramPage, ProgramWrong, ProgramFailed, VerifyPassed, VerifyFailed, EraseRelease,
         WriteLookup, WriteLoad, WriteCopy, WriteSetDirty, WriteAdvance, FinishClear
    <3> QED
      BY <3>1, <3>2 DEF PollReturn, ErasePublish, FinishDone
  <2>2. CASE PollAgain
    BY <2>2 DEF PollAgain, Busy
  <2> QED
    BY <1>2, <2>1, <2>2 DEF MainPoll
<1>3. CASE BusReset
  BY <1>1, <1>3 DEF BusReset, Handled, Cancel, Busy, MediaType
<1>4. CASE DfuPowerLoss
  <2>1. flash' = flash /\ media' = InitMedia
    BY <1>1, <1>4 DEF DfuPowerLoss, PowerLoss, PowerLossFlash, ResetStatics, Quiet
  <2> QED
    BY <2>1 DEF InitMedia, Busy
<1> QED
  BY <1>2, <1>3, <1>4

\* The address of the tool's block, when the device takes it.
LEMMA BlockIsPlaced ==
  ASSUME BaseInv, BindingSet, ~Ambiguous(tool.session), tool.stage = "block", DnloadState,
         BlockValid(FirstBlock(tool.session) + tool.k)
  PROVE  /\ BlockAddress(FirstBlock(tool.session) + tool.k) =
              tool.session.addr + tool.k * XferCells
         /\ tool.session.standard => ~bind.dfuse
<1> DEFINE s == tool.session
<1>1. /\ s \in Sessions /\ tool.k \in Nat /\ XferCells \in Nat /\ bind.dfuse \in BOOLEAN
  BY Sizes DEF BaseInv, ToolInv, ToolType, ClassInv, ClassTypeOK, BindType
<1>2. s.standard \in BOOLEAN /\ (s.standard => s.addr = AppBase)
  BY <1>1, SessionFacts
<1>3. Addressed(tool, bind)
  BY DEF BindingSet, DnloadState
<1>4. CASE s.standard
  <2>1. FirstBlock(s) + tool.k = tool.k
    BY <1>1, <1>4 DEF FirstBlock
  <2>2. ~bind.dfuse
    <3>1. tool.k > 0 => ~bind.dfuse
      BY <1>3, <1>4 DEF Addressed
    <3>2. bind.dfuse => tool.k >= 2
      BY <2>1 DEF BlockValid
    <3> QED
      BY <1>1, <3>1, <3>2
  <2>3. BlockBase = s.addr /\ BlockIndex(FirstBlock(s) + tool.k) = tool.k
    BY <1>2, <1>4, <2>1, <2>2 DEF BlockBase, BlockIndex
  <2> QED
    BY <2>2, <2>3 DEF BlockAddress
<1>5. CASE ~s.standard
  <2>1. bind.dfuse /\ bind.ptr = s.addr
    BY <1>3, <1>5 DEF Addressed
  <2>2. (FirstBlock(s) + tool.k) - 2 = tool.k
    BY <1>1, <1>5 DEF FirstBlock
  <2>3. BlockBase = s.addr /\ BlockIndex(FirstBlock(s) + tool.k) = tool.k
    BY <2>1, <2>2 DEF BlockBase, BlockIndex
  <2> QED
    BY <1>5, <2>3 DEF BlockAddress
<1> QED
  BY <1>2, <1>4, <1>5

\* A block holds the image's bytes from its index on.
LEMMA BlockCells ==
  ASSUME NEW s \in Sessions, NEW k \in Nat, Block(s, k) \in Payloads
  PROVE  LET p == Block(s, k)
         IN  /\ DOMAIN p = 0 .. Length(p) - 1 /\ Length(p) \in Nat
             /\ \A i \in DOMAIN s.image :
                  k * XferCells <= i /\ i < (k + 1) * XferCells =>
                    i - k * XferCells \in DOMAIN p /\ p[i - k * XferCells] = s.image[i]
<1> DEFINE p == Block(s, k)
           m == k * XferCells
           left == ImageLen(s) - m
           n == IF left < XferCells THEN left ELSE XferCells
<1>1. /\ XferCells \in Nat \ {0} /\ ImageLen(s) \in Nat /\ DOMAIN s.image = 0 .. ImageLen(s) - 1
  BY ImageFacts, Sizes
<1>2. m \in Nat /\ (k + 1) * XferCells = m + XferCells
  BY <1>1
<1>3. p = [i \in 0 .. n - 1 |-> s.image[m + i]]
  BY DEF Block
<1>4. DOMAIN p = 0 .. Length(p) - 1 /\ Length(p) \in Nat
  BY PayloadFacts, Sizes
<1> HIDE DEF p, m
<1>5. ASSUME NEW i \in DOMAIN s.image, m <= i, i < m + XferCells
      PROVE  i - m \in DOMAIN p /\ p[i - m] = s.image[i]
  <2>1. i - m \in 0 .. n - 1 /\ m + (i - m) = i
    BY <1>1, <1>2, <1>5
  <2> QED
    BY <1>3, <2>1
<1> QED
  BY <1>2, <1>4, <1>5 DEF p, m

\* A block the device takes joins those it took before.
LEMMA BlockIsTaken ==
  ASSUME BaseInv, BlocksTaken, BindingSet, Send, tool.stage = "block",
         dfu'.state # "dfuERROR", ~Ambiguous(tool.session)
  PROVE  /\ \A i \in DOMAIN tool.session.image :
              i < (tool.k + 1) * XferCells =>
                /\ tool.session.addr + i \in AppCell
                /\ want'[tool.session.addr + i] = tool.session.image[i]
         /\ bind'.ptr = bind.ptr /\ bind'.dfuse = bind.dfuse
         /\ tool.session.standard => ~bind'.dfuse
<1> DEFINE s == tool.session
           b == FirstBlock(s) + tool.k
           p == Block(s, tool.k)
           a == BlockAddress(b)
           m == tool.k * XferCells
<1>1. /\ s \in Sessions /\ tool.k \in Nat /\ s.addr \in Nat /\ ToolInv /\ MediaInv /\ ClassInv
      /\ DOMAIN s.image = 0 .. ImageLen(s) - 1 /\ ImageLen(s) \in Nat
  BY ImageFacts, SessionFacts DEF BaseInv, ToolInv, ToolType
<1>2. b \in HostBlocks /\ p \in Payloads /\ DnloadData(b, p)
  BY <1>1, SendCases
<1>3. DnloadState
  BY <1>2 DEF DnloadData
<1>4. m \in Nat /\ (tool.k + 1) * XferCells = m + XferCells /\ XferCells \in Nat
  BY <1>1, Sizes
<1>5. /\ DOMAIN p = 0 .. Length(p) - 1 /\ Length(p) \in Nat
      /\ \A i \in DOMAIN s.image :
           m <= i /\ i < (tool.k + 1) * XferCells => i - m \in DOMAIN p /\ p[i - m] = s.image[i]
  BY <1>1, <1>2, BlockCells
<1>6. BlockValid(b) => a = s.addr + m /\ (s.standard => ~bind.dfuse)
  BY <1>3, BlockIsPlaced
<1>7. \A i \in DOMAIN s.image :
        i < m => s.addr + i \in AppCell /\ want[s.addr + i] = s.image[i]
  BY <1>3 DEF BlocksTaken, Sent, DnloadState
<1> HIDE DEF s, b, p, m
<1>8. /\ BlockValid(b) /\ WriteAccepted(Loading, a, Length(p))
      /\ bind'.ptr = bind.ptr /\ bind'.dfuse = bind.dfuse
      /\ want' = [c \in AppCell |-> IF BlockValid(b) /\ WriteAccepted(Loading, a, Length(p))
                                       /\ c - a \in DOMAIN p THEN p[c - a] ELSE want[c]]
  BY <1>1, <1>2, DnloadLeavesIdle
<1>9. a \in AppCell /\ Length(p) <= AppEnd - a
  BY <1>8 DEF WriteAccepted, WriteRefusal, AddressValid
<1> HIDE DEF a
<1>10. a = s.addr + m /\ \A c \in AppCell : want'[c] = IF c - a \in DOMAIN p THEN p[c - a] ELSE want[c]
  BY <1>6, <1>8 DEF a
<1>11. ASSUME NEW i \in DOMAIN s.image, i < m + XferCells
       PROVE  s.addr + i \in AppCell /\ want'[s.addr + i] = s.image[i]
  <2>1. i \in Nat
    BY <1>1
  <2>2. CASE i < m
    <3>1. s.addr + i \in AppCell /\ want[s.addr + i] = s.image[i]
      BY <1>7, <2>2
    <3>2. (s.addr + i) - a \notin DOMAIN p
      BY <1>1, <1>4, <1>5, <1>10, <2>1, <2>2
    <3> QED
      BY <1>10, <3>1, <3>2
  <2>3. CASE m <= i
    <3>1. i - m \in DOMAIN p /\ p[i - m] = s.image[i]
      BY <1>4, <1>5, <1>11, <2>3
    <3>2. (s.addr + i) - a = i - m
      BY <1>1, <1>4, <1>10, <2>1
    <3>3. i - m <= Length(p) - 1
      BY <1>4, <1>5, <2>1, <3>1
    <3>4. s.addr + i \in AppCell
      <4>1. a \in Nat /\ AppBase <= a /\ Length(p) <= AppEnd - a /\ AppEnd \in Nat /\ AppBase \in Nat
        BY <1>9, Sizes DEF AppCell
      <4>2. i - m \in Nat /\ s.addr \in Nat
        BY <1>1, <1>4, <2>1, <2>3
      <4>3. s.addr + i = a + (i - m) /\ i - m < Length(p)
        BY <1>4, <1>5, <2>1, <3>2, <3>3, <4>1, <4>2
      <4> DEFINE j == i - m
      <4> HIDE DEF j
      <4>4. j \in Nat /\ j < Length(p) /\ s.addr + i = a + j
        BY <4>2, <4>3 DEF j
      <4> QED
        BY <1>5, <4>1, <4>4 DEF AppCell
    <3> QED
      BY <1>10, <3>1, <3>2, <3>4
  <2> QED
    BY <1>1, <1>4, <2>1, <2>2, <2>3
<1> QED
  BY <1>4, <1>6, <1>8, <1>11 DEF s, b

\* So a request keeps what was taken, and sets what it is there to set.
LEMMA SendKeepsStored ==
  ASSUME BaseInv, StoredInv, Send
  PROVE  StoredInv'
<1> DEFINE s == tool.session
<1>0. /\ ToolInv /\ MediaInv /\ ClassInv /\ tool \in ToolType /\ s \in Sessions
      /\ Fits(tool) /\ Blamed \in BOOLEAN /\ media.err \in MediaError
      /\ bind \in BindType /\ RequestOK(media)
  BY LoadingOK DEF BaseInv, ToolInv, ToolType, Blamed, MediaInv, MediaTypeOK, MediaType,
     ClassInv, ClassTypeOK
<1>1. /\ tool'.stage = tool.stage /\ tool'.k = tool.k /\ tool'.polling
      /\ tool'.result = tool.result /\ tool'.session = s
  BY <1>0, SentFacts DEF Send
<1>2. tool.result = "none"
  BY <1>0 DEF Send, Commanding, Running, Fits
<1>3. StoredStays'
  BY <1>1, <1>2 DEF StoredStays
<1>s. \/ tool.stage = "erase" /\ EraseCommand((FirstSector(s) + tool.k) * SectorCells)
         /\ (FirstSector(s) + tool.k) * SectorCells \in HostAddrs
      \/ tool.stage = "address" /\ SetAddress(s.addr)
      \/ tool.stage = "block" /\ DnloadData(FirstBlock(s) + tool.k, Block(s, tool.k))
      \/ /\ tool.stage = "block" /\ Ambiguous(s)
         /\ \E a \in HostAddrs : SetAddress(a) \/ SetExecAddress(a) \/ EraseCommand(a)
      \/ tool.stage = "exec" /\ SetExecAddress(s.exec)
      \/ tool.stage = "finish" /\ DnloadEnd
  BY <1>0, SendCases
<1>d. DnloadState /\ dfu.state # "dfuERROR"
  BY <1>s DEF EraseCommand, SetAddress, SetExecAddress, DnloadData, DnloadEnd, Commanded, DnloadState
<1>b. /\ Addressed(tool, bind)
      /\ ~Ambiguous(s) => \A i \in DOMAIN s.image :
           Sent(tool, i) => s.addr + i \in AppCell /\ want[s.addr + i] = s.image[i]
  BY <1>d DEF StoredInv, BlocksTaken, BindingSet
<1>4. CASE tool.stage \in {"erase", "address"}
  <2>1. BlocksTaken'
    BY <1>1, <1>4 DEF BlocksTaken, Sent
  <2>2. CASE tool.stage = "erase"
    BY <1>1, <2>1, <1>3, <2>2 DEF BindingSet, Addressed, StoredInv
  <2>3. CASE tool.stage = "address"
    <3>1. SetAddress(s.addr) /\ AddressValid(s.addr, 1) \in BOOLEAN
      BY <2>3, <1>s DEF AddressValid
    <3>2. CASE AddressValid(s.addr, 1)
      <4>1. bind' = [bind EXCEPT !.ptr = s.addr, !.dfuse = TRUE]
        BY <3>1, <3>2 DEF SetAddress, Commanded, Handled
      <4>2. bind'.ptr = s.addr /\ bind'.dfuse
        BY <1>0, <4>1 DEF BindType
      <4> QED
        BY <1>1, <1>3, <2>1, <2>3, <4>2 DEF BindingSet, Addressed, StoredInv
    <3>3. CASE ~AddressValid(s.addr, 1)
      <4>1. Commanded(FALSE, media, bind, want)
        BY <3>1, <3>3 DEF SetAddress
      <4>2. dfu'.state = "dfuERROR"
        BY <1>0, <4>1, CommandLeavesIdle
      <4> QED
        BY <1>3, <2>1, <4>2 DEF BindingSet, StoredInv
    <3> QED
      BY <3>2, <3>3
  <2> QED
    BY <1>4, <2>2, <2>3
<1>5. CASE tool.stage = "block"
  <2>1. CASE dfu'.state = "dfuERROR"
    BY <1>3, <2>1 DEF BlocksTaken, BindingSet, StoredInv
  <2>a. CASE Ambiguous(s)
    <3>1. s.standard
      BY <2>a DEF Ambiguous
    <3>2. BlocksTaken' /\ BindingSet'
      BY <1>1, <1>5, <2>a, <3>1 DEF BlocksTaken, BindingSet, Addressed
    <3> QED
      BY <1>3, <3>2 DEF StoredInv
  <2>2. CASE dfu'.state # "dfuERROR" /\ ~Ambiguous(s)
    <3>1. /\ \A i \in DOMAIN s.image :
                i < (tool.k + 1) * XferCells =>
                  s.addr + i \in AppCell /\ want'[s.addr + i] = s.image[i]
          /\ bind'.ptr = bind.ptr /\ bind'.dfuse = bind.dfuse
          /\ s.standard => ~bind'.dfuse
      BY <1>5, <2>2, BlockIsTaken DEF StoredInv
    <3>2. /\ tool.k \in Nat /\ XferCells \in Nat /\ DOMAIN s.image \subseteq Nat
      BY <1>0, ImageFacts, Sizes DEF ToolType
    <3>3. tool.k * XferCells \in Nat /\ (tool.k + 1) * XferCells = tool.k * XferCells + XferCells
      BY <3>2
    <3>4. BlocksTaken'
      BY <1>1, <1>5, <3>1, <3>2, <3>3 DEF BlocksTaken, Sent
    <3>5. BindingSet'
      BY <1>1, <1>5, <1>b, <3>1 DEF BindingSet, Addressed
    <3> QED
      BY <1>3, <3>4, <3>5 DEF StoredInv
  <2> QED
    BY <2>1, <2>a, <2>2
<1>6. CASE tool.stage \in {"exec", "finish"}
  <2>1. want' = want
    BY <1>6, <1>s DEF SetExecAddress, Commanded, DnloadEnd, Handled
  <2>2. BlocksTaken'
    BY <1>1, <1>6, <1>b, <2>1 DEF BlocksTaken, Sent
  <2>3. BindingSet'
    <3>1. CASE tool.stage = "finish"
      BY <1>1, <1>b, <1>s, <3>1 DEF DnloadEnd, Handled, BindingSet, Addressed
    <3>2. CASE tool.stage = "exec"
      <4> DEFINE ok == AddressValid(s.exec, 1) /\ s.exec % WordCells = 0
      <4>1. SetExecAddress(s.exec) /\ ok \in BOOLEAN
        BY <3>2, <1>s DEF AddressValid
      <4>2. CASE ok
        <5>1. bind' = [bind EXCEPT !.exec = s.exec]
          BY <4>1, <4>2 DEF SetExecAddress, Commanded, Handled
        <5>2. bind'.exec = s.exec
          BY <1>0, <5>1 DEF BindType
        <5> QED
          BY <1>1, <3>2, <5>2 DEF BindingSet, Addressed
      <4>3. CASE ~ok
        <5>1. Commanded(FALSE, media, bind, want)
          BY <4>1, <4>3 DEF SetExecAddress
        <5>2. dfu'.state = "dfuERROR"
          BY <1>0, <5>1, CommandLeavesIdle
        <5> QED
          BY <5>2 DEF BindingSet
      <4> QED
        BY <4>2, <4>3
    <3> QED
      BY <1>6, <3>1, <3>2
  <2> QED
    BY <1>3, <2>2, <2>3 DEF StoredInv
<1> QED
  BY <1>4, <1>5, <1>6, <1>s

\* Moving on counts nothing as sent that was not, and needs no address that
\* was not set.
LEMMA MovedKeepsSent ==
  ASSUME NEW t \in ToolType, Fits(t), t.polling, t.stage # "finish", NEW b
  PROVE  /\ \A i \in DOMAIN t.session.image : Sent(Moved(t), i) => Sent(t, i)
         /\ Addressed(t, b) => Addressed(Moved(t), b)
<1> DEFINE s == t.session
           u == Moved(t)
           f == Following(t)
<1>1. /\ s \in Sessions /\ t.k \in Nat /\ t.stage \in Stages
      /\ XferCells \in Nat \ {0} /\ Blocks(s) \in Nat \ {0}
      /\ ImageLen(s) \in Nat \ {0} /\ ImageLen(s) <= Blocks(s) * XferCells
      /\ DOMAIN s.image = 0 .. ImageLen(s) - 1
  BY BlocksCover, ImageFacts, Sizes DEF ToolType
<1>2. /\ s.upload \in BOOLEAN /\ s.standard \in BOOLEAN
      /\ t.stage \in {"erase", "address", "block", "exec"}
      /\ t.stage \in {"erase", "address"} => ~s.standard
  BY <1>1, SessionFacts DEF Fits, Stages
<1>3. \/ t.stage = "erase" /\ f = <<"erase", t.k + 1>>
      \/ t.stage = "erase" /\ f = <<"address", 0>>
      \/ t.stage = "address" /\ f = <<"read", 0>>
      \/ t.stage = "address" /\ f = <<"block", 0>>
      \/ t.stage = "block" /\ f = <<"block", t.k + 1>>
      \/ t.stage = "block" /\ ~MoreBlocks(t) /\ s.exec # NoExec /\ f = <<"exec", 0>>
      \/ t.stage = "block" /\ ~MoreBlocks(t) /\ s.exec = NoExec /\ f = <<"finish", 0>>
      \/ t.stage = "exec" /\ f = <<"finish", 0>>
  BY <1>2 DEF Following, DataStage
<1>4. u.session = s /\ u.stage = f[1] /\ u.k = f[2] /\ ~u.polling
  BY FollowingFacts
<1> HIDE DEF f, u
<1>5. ASSUME NEW i \in DOMAIN s.image, Sent(u, i) PROVE Sent(t, i)
  <2>1. i \in Nat /\ i < ImageLen(s)
    BY <1>1
  <2>2. 0 * XferCells = 0
    BY <1>1
  <2>3. CASE t.stage = "block" /\ ~MoreBlocks(t)
    <3>1. Blocks(s) <= t.k + 1
      BY <1>1, <2>3 DEF MoreBlocks
    <3> DEFINE q == Blocks(s) * XferCells
               r == (t.k + 1) * XferCells
    <3>2. q \in Nat /\ q <= r
      BY <1>1, <3>1, ProductsGrow
    <3>3. r \in Nat /\ ImageLen(s) <= q
      BY <1>1
    <3> HIDE DEF q, r
    <3>4. i < r
      BY <1>1, <2>1, <3>2, <3>3
    <3> QED
      BY <2>3, <3>4 DEF Sent, r
  <2>4. CASE t.stage = "block" /\ f = <<"block", t.k + 1>>
    BY <1>4, <1>5, <2>4 DEF Sent
  <2>5. CASE t.stage = "exec"
    BY <2>5 DEF Sent
  <2>6. CASE t.stage \in {"erase", "address"}
    BY <1>3, <1>4, <1>5, <2>1, <2>2, <2>6 DEF Sent
  <2> QED
    BY <1>3, <2>3, <2>4, <2>5, <2>6
<1>6. ASSUME Addressed(t, b) PROVE Addressed(u, b)
  BY <1>2, <1>3, <1>4, <1>6 DEF Addressed
<1> QED
  BY <1>5, <1>6 DEF u, s

\* A status report leaves the backend and the binding alone.
LEMMA PollChanges ==
  ASSUME ClassInv, GetStatus \/ GetStatusError
  PROVE  /\ UNCHANGED <<flash, media, bind, want>>
         /\ dfu'.state # "dfuERROR" => dfu.state # "dfuERROR" /\ dfu'.state = AfterPoll
<1>1. dfu \in DfuType
  BY DEF ClassInv, ClassTypeOK
<1>2. CASE GetStatus
  <2>1. /\ dfu' = [dfu EXCEPT !.state = AfterPoll]
        /\ flash' = flash /\ media' = media /\ bind' = bind /\ want' = want
    BY <1>2 DEF GetStatus, Handled
  <2>2. dfu'.state = AfterPoll
    BY <1>1, <2>1 DEF DfuType
  <2> QED
    BY <2>1, <2>2 DEF AfterPoll
<1>3. CASE GetStatusError
  <2>1. /\ dfu'.state = "dfuERROR"
        /\ flash' = flash /\ media' = media /\ bind' = bind /\ want' = want
    BY <1>1, <1>3 DEF GetStatusError, Handled, DfuType
  <2> QED
    BY <2>1
<1> QED
  BY <1>2, <1>3

\* What the device has in the flash when it waits for the reset.
LEMMA WaitingIsStored ==
  ASSUME PromiseInv', dfu'.state = "dfuMANIFEST-WAIT-RESET"
  PROVE  /\ ~Busy(media') /\ ~media'.dirty
         /\ \A c \in AppCell : want'[c] \in Cell => flash'[c] = want'[c]
<1>1. ~Busy(media') /\ ~MediaFailed' /\ ~media'.dirty /\ media'.type = "none"
  BY DEF PromiseInv, StatesRest, Resting, Busy
<1>2. \A c \in AppCell : want'[c] # Free => ImageCell(c)' = want'[c]
  BY <1>1 DEF PromiseInv, PromiseKept
<1>3. \A c \in AppCell : ImageCell(c)' = flash'[c]
  BY <1>1 DEF ImageCell, KeptCell
<1> QED
  BY <1>1, <1>2, <1>3, BindingAssumption

\* So a status report keeps what was taken, and the last one finds it stored.
LEMMA PollKeepsStored ==
  ASSUME BaseInv, StoredInv, PromiseInv', Poll
  PROVE  StoredInv'
<1> DEFINE t == AfterStatus(tool, dfu')
<1>1. /\ tool \in ToolType /\ Fits(tool) /\ tool.polling /\ tool.result = "none"
      /\ Blamed \in BOOLEAN /\ {"error", "stored"} \subseteq Results \ {"none"}
      /\ tool.session \in Sessions
  BY DEF BaseInv, ToolInv, ToolType, Fits, Poll, Running, Blamed, Results
<1>2. tool' = [t EXCEPT !.blamed = Blamed] /\ t \in ToolType
  BY <1>1, AfterStatusOK DEF Poll
<1>3. t.session = tool.session
  BY <1>1, AfterStatusFacts, OverFacts, FollowingFacts
<1>4. \/ t = tool
      \/ t = Over(tool, "error")
      \/ t = Over(tool, "stored") /\ tool.stage = "finish" /\ dfu'.state = "dfuMANIFEST-WAIT-RESET"
      \/ t = Moved(tool) /\ tool.stage # "finish"
  BY <1>1, AfterStatusFacts
<1> HIDE DEF t
<1>5. /\ tool'.stage = t.stage /\ tool'.k = t.k /\ tool'.polling = t.polling
      /\ tool'.result = t.result /\ tool'.session = tool.session
  BY <1>1, <1>2, <1>3, BlamedFacts
<1>6. /\ flash' = flash /\ media' = media /\ bind' = bind /\ want' = want
      /\ dfu'.state # "dfuERROR" => dfu.state # "dfuERROR"
  BY PollChanges DEF BaseInv, Poll
<1>7. \A i \in DOMAIN tool.session.image : Sent(tool', i) => Sent(t, i)
  BY <1>5 DEF Sent
<1>8. Addressed(t, bind) => Addressed(tool', bind)
  BY <1>3, <1>5 DEF Addressed
<1>9. CASE t = tool \/ (t = Moved(tool) /\ tool.stage # "finish")
  <2>1. /\ \A i \in DOMAIN tool.session.image : Sent(t, i) => Sent(tool, i)
        /\ Addressed(tool, bind) => Addressed(t, bind)
    BY <1>1, <1>9, MovedKeepsSent
  <2>2. t.result = "none"
    BY <1>1, <1>9, FollowingFacts
  <2>3. BlocksTaken'
    BY <1>5, <1>6, <1>7, <2>1 DEF StoredInv, BlocksTaken
  <2>4. BindingSet'
    BY <1>6, <1>8, <2>1 DEF StoredInv, BindingSet
  <2> QED
    BY <1>5, <2>2, <2>3, <2>4 DEF StoredInv, StoredStays
<1>10. CASE t = Over(tool, "error")
  <2>1. t.stage = "over" /\ t.result = "error"
    BY <1>1, <1>10, OverFacts
  <2> QED
    BY <1>5, <2>1 DEF StoredInv, StoredStays, BlocksTaken, BindingSet, Sent, Addressed
<1>11. CASE /\ t = Over(tool, "stored") /\ tool.stage = "finish"
            /\ dfu'.state = "dfuMANIFEST-WAIT-RESET"
  <2>1. t.stage = "over" /\ t.result = "stored"
    BY <1>1, <1>11, OverFacts
  <2>2. BlocksTaken' /\ BindingSet'
    BY <1>5, <2>1 DEF BlocksTaken, BindingSet, Sent, Addressed
  <2>3. /\ ~Busy(media') /\ ~media'.dirty
        /\ \A c \in AppCell : want'[c] \in Cell => flash'[c] = want'[c]
    BY <1>11, WaitingIsStored
  <2>4. dfu.state # "dfuERROR"
    BY <1>6, <1>11
  <2>5. ~Ambiguous(tool.session) =>
          \A i \in DOMAIN tool.session.image :
            /\ tool.session.addr + i \in AppCell
            /\ want'[tool.session.addr + i] = tool.session.image[i]
    BY <1>6, <1>11, <2>4 DEF StoredInv, BlocksTaken, Sent
  <2>6. ~Ambiguous(tool.session) =>
          \A i \in DOMAIN tool.session.image :
            flash'[tool.session.addr + i] = tool.session.image[i]
    BY <1>1, <2>3, <2>5, ImageFacts
  <2>7. tool.session.exec # NoExec => bind'.exec = tool.session.exec
    BY <1>6, <1>11, <2>4 DEF StoredInv, BindingSet, Addressed
  <2>8. StoredStays'
    BY <1>5, <2>3, <2>6, <2>7 DEF StoredStays, StoredIsInFlash, Busy
  <2> QED
    BY <2>2, <2>8 DEF StoredInv
<1> QED
  BY <1>4, <1>9, <1>10, <1>11

\* A tool that is over, or has just started, relies on nothing.
LEMMA OverReliesOnNothing ==
  ASSUME tool'.stage = "over", tool'.result # "stored"
  PROVE  StoredInv'
  BY DEF StoredInv, StoredStays, BlocksTaken, BindingSet, Sent, Addressed

LEMMA StartReliesOnNothing ==
  ASSUME NEW s \in Sessions, tool' = Started(s)
  PROVE  StoredInv'
<1>1. /\ tool'.session = s /\ tool'.k = 0 /\ ~tool'.polling /\ tool'.result = "none"
      /\ tool'.stage = IF s.standard THEN IF s.upload THEN "read" ELSE "block"
                       ELSE IF s.erase /\ ~s.upload THEN "erase" ELSE "address"
  BY StartedFacts
<1>2. \A i \in DOMAIN s.image : i \in Nat
  BY ImageFacts
<1>3. s.standard \in BOOLEAN /\ 0 * XferCells = 0
  BY SessionFacts, Sizes
<1> QED
  BY <1>1, <1>2, <1>3 DEF StoredInv, StoredStays, BlocksTaken, BindingSet, Sent, Addressed

\* A read that is not the last keeps the addressing.
LEMMA ReadKeepsStored ==
  ASSUME BaseInv, StoredInv, Read
  PROVE  StoredInv'
<1>1. /\ ToolInv /\ MediaInv /\ ClassInv /\ tool.stage = "read" /\ Asked \in 1 .. XferCells
      /\ ReadServedTo \/ ReadRefusedTo
  BY ReadCases DEF BaseInv
<1>2. CASE ReadServedTo
  <2>1. /\ tool'.session = tool.session /\ ~tool'.polling /\ tool'.result = "none"
        /\ tool'.stage = IF Got < Asked \/ Len(tool.file) + Got = tool.session.length
                         THEN "abort" ELSE "read"
    BY <1>1, <1>2, ReadExtends
  <2>2. /\ UploadState /\ UNCHANGED want
        /\ ~(AppEnd - BlockAddress(ReadBlock) < Asked) => bind' = bind
    BY <1>1, <1>2, UploadFacts DEF ReadServedTo
  <2>3. tool'.stage = "read" => bind' = bind
    BY <2>1, <2>2 DEF Got
  <2>4. Addressed(tool, bind)
    BY <2>2 DEF StoredInv, BindingSet, UploadState
  <2> QED
    BY <1>1, <2>1, <2>2, <2>3, <2>4
       DEF StoredInv, StoredStays, BlocksTaken, BindingSet, Sent, Addressed
<1>3. CASE ReadRefusedTo
  <2>1. Fits(tool') /\ tool'.stage \in {"read", "abort"}
    BY <1>1, <1>3, RefusedReadExtends
  <2>2. tool'.result = "none"
    BY <2>1 DEF Fits
  <2>3. dfu'.state = "dfuERROR"
    BY <1>1, <1>3, UploadRefusedFacts DEF ReadRefusedTo
  <2> QED
    BY <2>2, <2>3 DEF StoredInv, StoredStays, BlocksTaken, BindingSet
<1> QED
  BY <1>1, <1>2, <1>3

LEMMA StepKeepsStored ==
  ASSUME BaseInv, SessionInv, StoredInv, PromiseInv', [HostNext]_hostVars
  PROVE  StoredInv'
<1>0. /\ tool \in ToolType /\ Fits(tool)
      /\ {"error", "assumed", "uploaded"} \subseteq Results \ {"none"}
  BY DEF BaseInv, ToolInv, Results
<1>1. CASE UNCHANGED hostVars
  BY <1>1 DEF hostVars, dfuVars, mediaVars, classVars, StoredInv, StoredStays, StoredIsInFlash,
     BlocksTaken, BindingSet, Busy
<1>2. CASE Device
  <2>1. MainPoll /\ tool' = tool /\ dfu' = dfu /\ bind' = bind /\ want' = want
    BY <1>2 DEF Device, MainPoll, classVars
  <2>2. BlocksTaken' /\ BindingSet'
    BY <2>1 DEF StoredInv, BlocksTaken, BindingSet
  <2>3. ~Busy(media) /\ ~media.dirty => flash' = flash /\ ~Busy(media') /\ ~media'.dirty
    BY <2>1, RestKeepsFlash
  <2>4. StoredStays'
    BY <2>1, <2>3 DEF StoredInv, StoredStays, StoredIsInFlash, Busy
  <2> QED
    BY <2>2, <2>4 DEF StoredInv
<1>3. CASE Send
  BY <1>3, SendKeepsStored
<1>4. CASE Poll
  BY <1>4, PollKeepsStored
<1>5. CASE Read
  BY <1>5, ReadKeepsStored
<1>6. CASE SendStalled
  BY <1>0, <1>6, OverFacts, OverReliesOnNothing DEF SendStalled
<1>7. CASE EndUpload
  BY <1>0, <1>7, OverFacts, OverReliesOnNothing DEF EndUpload
<1>8. CASE GiveUp
  BY <1>0, <1>8, OverFacts, BlamedFacts, OverReliesOnNothing DEF GiveUp
<1>9. CASE Disturb
  <2>1. CASE tool.stage = "over"
    <3>1. tool' = tool /\ (BusReset \/ DfuPowerLoss)
      BY <1>9, <2>1 DEF Disturb, Vanished
    <3>2. dfu'.state = "dfuIDLE"
      <4>1. dfu \in DfuType
        BY DEF BaseInv, ClassInv, ClassTypeOK
      <4>2. CASE BusReset
        BY <4>1, <4>2 DEF BusReset, Handled, CancelClass, DfuType
      <4>3. CASE DfuPowerLoss
        BY <4>3 DEF DfuPowerLoss, ClassReset, InitDfu
      <4> QED
        BY <3>1, <4>2, <4>3
    <3>3. ~Busy(media) /\ ~media.dirty => flash' = flash /\ ~Busy(media') /\ ~media'.dirty
      BY <3>1, RestKeepsFlash
    <3>4. StoredStays'
      BY <3>1, <3>2, <3>3 DEF StoredInv, StoredStays, StoredIsInFlash, Busy
    <3> QED
      BY <2>1, <3>1, <3>4 DEF StoredInv, BlocksTaken, BindingSet, Sent, Addressed
  <2>2. CASE tool.stage # "over"
    <3>1. PICK r \in {"error", "assumed", "uploaded"} :
            tool' = [Over(tool, r) EXCEPT !.blamed = TRUE]
      BY <1>9, <2>2 DEF Disturb, Vanished
    <3>2. tool'.stage = "over" /\ tool'.result = r
      BY <1>0, <3>1, OverFacts, BlamedFacts
    <3> QED
      BY <3>1, <3>2, OverReliesOnNothing
  <2> QED
    BY <2>1, <2>2
<1>10. CASE StartTool
  BY <1>10, StartReliesOnNothing DEF StartTool
<1> QED
  BY <1>1, <1>2, <1>3, <1>4, <1>5, <1>6, <1>7, <1>8, <1>9, <1>10 DEF HostNext, ToolStep

\* When dfu_download.py has read dfuMANIFEST-WAIT-RESET, the flash holds the
\* whole image where it was to go - unless it is one the device takes for a
\* command - and the execute address is the one asked for, whatever a killed
\* run had left in the device.
THEOREM StoredStaysInFlash ==
  "cancel" \notin Races /\ "publish" \notin Races => (HostSpec => []StoredIsInFlash)
<1> SUFFICES ASSUME "cancel" \notin Races, "publish" \notin Races
             PROVE  HostSpec => []StoredIsInFlash
  OBVIOUS
<1> DEFINE IInv == SafeInv /\ StoredInv
<1>1. HostInit => IInv
  <2> SUFFICES ASSUME HostInit PROVE IInv
    OBVIOUS
  <2>1. PICK s \in Sessions : tool = Started(s)
    BY DEF HostInit
  <2>2. /\ tool.session = s /\ tool.k = 0 /\ ~tool.polling /\ tool.result = "none"
        /\ tool.stage = IF s.standard THEN IF s.upload THEN "read" ELSE "block"
                        ELSE IF s.erase /\ ~s.upload THEN "erase" ELSE "address"
    BY <2>1, StartedFacts
  <2>3. \A i \in DOMAIN s.image : i \in Nat
    BY ImageFacts
  <2>4. s.standard \in BOOLEAN /\ 0 * XferCells = 0
    BY SessionFacts, Sizes
  <2>5. StoredInv
    BY <2>2, <2>3, <2>4 DEF StoredInv, StoredStays, BlocksTaken, BindingSet, Sent, Addressed
  <2> QED
    BY <2>5, InitSafeInv
<1>2. BaseInv /\ IInv /\ [HostNext]_hostVars => IInv'
  <2> SUFFICES ASSUME BaseInv, IInv, [HostNext]_hostVars PROVE IInv'
    OBVIOUS
  <2>1. SafeInv'
    BY StepKeepsBaseInv, StepKeepsSafeInv
  <2>2. StoredInv'
    BY <2>1, StepKeepsStored DEF SafeInv
  <2> QED
    BY <2>1, <2>2
<1>3. IInv => StoredIsInFlash
  BY DEF StoredInv, StoredStays, StoredIsInFlash
<1> HIDE DEF IInv
<1> QED
  BY <1>1, <1>2, <1>3, BaseInvariant, PTL DEF HostSpec

(***************************************************************************)
(* The file of an upload is what the flash holds.                          *)
(***************************************************************************)

\* The file is the first n cells of the flash from the address given, ...
CellsFrom(p, f, a, n) == p = [i \in 1 .. n |-> f[a + i - 1]]
FileIs(t, f, n) == CellsFrom(t.file, f, t.session.addr, n)

\* ... up to the end of the application.
FullLength(s) == IF AppEnd - s.addr < s.length THEN AppEnd - s.addr ELSE s.length

StaleUpload == tool.stale /\ tool.session.standard

\* The address command is what sets the pointer.
PointerSet ==
  tool.stage = "address" /\ tool.polling /\ dfu.state # "dfuERROR" =>
    bind.dfuse /\ bind.ptr = tool.session.addr

\* While it reads, the device is where the next block can be served, and from
\* the first block on nothing can change the flash.
Reading ==
  tool.stage = "read" =>
    /\ AbortState /\ (tool.k > 0 => dfu.state = "dfuUPLOAD-IDLE")
    /\ bind.dfuse <=> ~tool.session.standard
    /\ bind.dfuse => bind.ptr = tool.session.addr
    /\ tool.session.addr + tool.k * XferCells <= AppEnd
    /\ FileIs(tool, flash, tool.k * XferCells)

\* At the end the file is full.
FileFull ==
  /\ tool.stage = "abort" =>
       dfu.state \in {"dfuIDLE", "dfuUPLOAD-IDLE"} /\ FileIs(tool, flash, FullLength(tool.session))
  /\ tool.result = "uploaded" =>
       ~Busy(media) /\ ~media.dirty /\ FileIs(tool, flash, FullLength(tool.session))

UploadInv == PointerSet /\ (StaleUpload \/ (Reading /\ FileFull))

\* Outside a download the backend rests.
LEMMA UploadRests ==
  ASSUME SessionInv, dfu.state \in {"dfuIDLE", "dfuUPLOAD-IDLE"}
  PROVE  ~Busy(media) /\ ~media.dirty
  BY DEF SessionInv, JobsInv, AbortState, NoDataOutsideSession

LEMMA NoUploadAtHand ==
  ASSUME tool'.stage \notin {"read", "abort"}, tool'.stage = "address" => ~tool'.polling,
         tool'.result # "uploaded"
  PROVE  UploadInv'
  BY DEF UploadInv, PointerSet, Reading, FileFull

\* An unchanged file still is what an unchanged flash holds; an empty one is
\* of any flash.
LEMMA FileStays ==
  ASSUME NEW t, NEW u, NEW f, NEW g, NEW n,
         u.file = t.file, u.session = t.session, g = f \/ n = 0, FileIs(t, f, n)
  PROVE  FileIs(u, g, n)
<1>1. CASE g = f
  BY <1>1 DEF FileIs
<1>2. CASE n = 0
  <2>1. 1 .. n = {}
    BY <1>2
  <2> QED
    BY <2>1 DEF FileIs, CellsFrom
<1> QED
  BY <1>1, <1>2

\* A prefix and the cells that follow it make a longer prefix.
LEMMA PrefixGrows ==
  ASSUME NEW f, NEW a \in Nat, NEW m \in Nat, NEW n \in Nat,
         NEW p \in Seq(Cell), CellsFrom(p, f, a, m),
         NEW q \in Seq(Cell), CellsFrom(q, f, a + m, n)
  PROVE  CellsFrom(p \o q, f, a, m + n)
<1>0. /\ p = [i \in 1 .. m |-> f[a + i - 1]]
      /\ q = [i \in 1 .. n |-> f[(a + m) + i - 1]]
  BY DEF CellsFrom
<1>1. Len(p) = m /\ Len(q) = n
  BY <1>0
<1>2. p \o q \in Seq(Cell) /\ Len(p \o q) = m + n
  BY <1>1
<1>3. ASSUME NEW i \in 1 .. m + n PROVE (p \o q)[i] = f[a + i - 1]
  <2>1. CASE i <= m
    BY <1>0, <1>1, <2>1
  <2>2. CASE m < i
    <3>1. i - m \in 1 .. n /\ (a + m) + (i - m) - 1 = a + i - 1
      BY <2>2
    <3>2. (p \o q)[i] = q[i - m]
      BY <1>0, <1>1, <2>2
    <3> QED
      BY <1>0, <3>1, <3>2
  <2>3. i <= m \/ m < i
    OBVIOUS
  <2> QED
    BY <2>1, <2>2, <2>3
<1> QED
  BY <1>2, <1>3 DEF CellsFrom

\* The block a read asks for is the one that follows the file.
LEMMA ReadIsPlaced ==
  ASSUME BaseInv, Reading, DualBank, tool.stage = "read"
  PROVE  /\ BlockAddress(ReadBlock) = tool.session.addr + tool.k * XferCells
         /\ ReadAllowed(ReadBlock)
<1> DEFINE s == tool.session
           m == tool.k * XferCells
<1>1. /\ s \in Sessions /\ tool.k \in Nat /\ XferCells \in Nat \ {0} /\ s.standard \in BOOLEAN
      /\ s.addr \in Nat /\ (s.standard => s.addr = AppBase) /\ AppBase \in Nat /\ AppEnd \in Nat
      /\ ToolInv /\ ClassInv /\ bind \in BindType
  BY SessionFacts, Sizes DEF BaseInv, ToolInv, ToolType, ClassInv, ClassTypeOK
<1>2. /\ bind.dfuse <=> ~s.standard
      /\ bind.dfuse => bind.ptr = s.addr
      /\ s.addr + m <= AppEnd
  BY DEF Reading
<1>3. m \in Nat
  BY <1>1
<1>4. AppBase <= s.addr
  <2>1. bind.dfuse \in BOOLEAN /\ bind.ptr \in Nat /\ AppBase <= bind.ptr
    BY <1>1 DEF BindType, AppCell
  <2> QED
    BY <1>1, <1>2, <2>1
<1>5. ReadBlock \in HostBlocks /\ (bind.dfuse => ReadBlock >= 2)
  BY <1>1, <1>2, ReadBlockInHostBlocks DEF ReadBlock, FirstBlock
<1>6. BlockValid(ReadBlock)
  BY <1>1, <1>5, BlockNumbers
<1>7. BlockBase = s.addr /\ BlockIndex(ReadBlock) = tool.k
  <2>1. CASE s.standard
    BY <1>1, <1>2, <2>1 DEF BlockBase, BlockIndex, ReadBlock, FirstBlock
  <2>2. CASE ~s.standard
    <3>1. ReadBlock - 2 = tool.k
      BY <1>1, <2>2 DEF ReadBlock, FirstBlock
    <3> QED
      BY <1>2, <2>2, <3>1 DEF BlockBase, BlockIndex
  <2> QED
    BY <1>1, <2>1, <2>2
<1>8. BlockAddress(ReadBlock) = s.addr + m
  BY <1>7 DEF BlockAddress
<1> HIDE DEF m, s
<1>9. s.addr + m \in AppBase .. AppEnd
  BY <1>1, <1>2, <1>3, <1>4
<1> QED
  BY <1>6, <1>8, <1>9 DEF ReadAllowed, m, s

\* So every block read is added to the prefix already there.
LEMMA ReadKeepsUpload ==
  ASSUME BaseInv, UploadInv, DualBank, Read
  PROVE  UploadInv'
<1> DEFINE s == tool.session
           m == tool.k * XferCells
           n == s.length
           left == AppEnd - (s.addr + m)
<1>1. /\ ToolInv /\ MediaInv /\ ClassInv /\ tool.stage = "read" /\ Asked \in 1 .. XferCells
      /\ ReadServedTo \/ ReadRefusedTo
  BY ReadCases DEF BaseInv
<1>2. CASE StaleUpload
  <2>1. tool'.session = tool.session /\ tool'.stale = tool.stale
        /\ tool'.stage \in {"read", "abort"}
    BY <1>1, ReadExtends, RefusedReadExtends
  <2> QED
    BY <1>2, <2>1 DEF UploadInv, StaleUpload, PointerSet
<1>3. CASE ~StaleUpload
  <2>1. Reading
    BY <1>3 DEF UploadInv
  <2>2. BlockAddress(ReadBlock) = s.addr + m /\ ReadAllowed(ReadBlock)
    BY <1>1, <2>1, ReadIsPlaced
  <2>3. ReadServedTo
    BY <1>1, <2>2 DEF ReadRefusedTo, UploadRefused
  <2>4. /\ tool'.session = s /\ tool'.k = tool.k + 1 /\ tool'.result = "none"
        /\ tool'.file = tool.file \o Answer
        /\ Len(Answer) = Got /\ Answer \in Seq(Cell)
        /\ tool'.stage = IF Got < Asked \/ Len(tool.file) + Got = n THEN "abort" ELSE "read"
        /\ tool' \in ToolType
    BY <1>1, <2>3, ReadExtends
  <2>5. /\ flash' = flash
        /\ dfu'.state = IF left < Asked THEN "dfuIDLE" ELSE "dfuUPLOAD-IDLE"
        /\ ~(left < Asked) => bind' = bind
    BY <1>1, <2>2, <2>3, UploadFacts DEF ReadServedTo, HandledOnly
  <2>6. /\ s \in Sessions /\ tool.k \in Nat /\ tool.file \in Seq(Cell)
        /\ Len(tool.file) = m /\ Len(tool.file) < n
    BY <1>1 DEF ToolInv, ToolType, Fits
  <2>7. /\ n \in Nat \ {0} /\ s.addr \in Nat /\ XferCells \in Nat \ {0} /\ AppEnd \in Nat
    BY <2>6, SessionFacts, Sizes
  <2>8. m \in Nat /\ (tool.k + 1) * XferCells = m + XferCells
    <3>1. tool.k \in Nat /\ XferCells \in Nat /\ tool.k <= tool.k
      BY <2>6, <2>7
    <3> QED
      BY <3>1, ProductsGrow
  <2>9. /\ FileIs(tool, flash, m) /\ s.addr + m <= AppEnd
        /\ bind.dfuse <=> ~s.standard
        /\ bind.dfuse => bind.ptr = s.addr
    BY <1>1, <2>1 DEF Reading
  <2> HIDE DEF m
  <2>10. /\ Got = IF left < Asked THEN left ELSE Asked
         /\ Asked = IF n - m < XferCells THEN n - m ELSE XferCells
    BY <2>2, <2>6 DEF Got, Asked
  <2>11. Got \in Nat /\ Asked \in Nat /\ left \in Nat
    BY <2>3, <2>7, <2>8, <2>9, <1>1 DEF ReadServedTo
  <2>12. FileIs(tool', flash', m + Got)
    <3>1. CellsFrom(tool.file, flash, s.addr, m)
      BY <2>9 DEF FileIs
    <3>2. CellsFrom(Answer, flash, s.addr + m, Got)
      BY <2>2 DEF Answer, CellsFrom
    <3>3. CellsFrom(tool.file \o Answer, flash, s.addr, m + Got)
      BY <2>4, <2>6, <2>7, <2>8, <2>11, <3>1, <3>2, PrefixGrows
    <3> QED
      BY <2>4, <2>5, <3>3 DEF FileIs
  <2>13. PointerSet'
    BY <2>4 DEF PointerSet
  <2>14. CASE Got < Asked \/ m + Got = n
    <3>1. tool'.stage = "abort"
      BY <2>4, <2>6, <2>14
    <3>2. m + Got = FullLength(s)
      <4> DEFINE a == s.addr
                 g == Got
                 c == Asked
                 l == n
      <4>1. /\ a \in Nat /\ g \in Nat /\ c \in Nat /\ l \in Nat /\ m < l /\ a + m <= AppEnd
            /\ g < c \/ m + g = l
            /\ g = IF AppEnd - (a + m) < c THEN AppEnd - (a + m) ELSE c
            /\ c = IF l - m < XferCells THEN l - m ELSE XferCells
            /\ FullLength(s) = IF AppEnd - a < l THEN AppEnd - a ELSE l
        BY <2>6, <2>7, <2>9, <2>10, <2>11, <2>14 DEF FullLength
      <4> HIDE DEF a, g, c, l
      <4>2. m + g = FullLength(s)
        BY <2>7, <2>8, <4>1
      <4> QED
        BY <4>2 DEF g
    <3>3. FileIs(tool', flash', FullLength(tool'.session))
      BY <2>4, <2>12, <3>2
    <3> QED
      BY <2>4, <2>5, <2>13, <3>1, <3>3 DEF UploadInv, Reading, FileFull
  <2>15. CASE ~(Got < Asked) /\ m + Got # n
    <3>1. tool'.stage = "read"
      BY <2>4, <2>6, <2>15
    <3>2. Got = XferCells /\ ~(left < Asked)
      BY <2>7, <2>8, <2>10, <2>11, <2>15
    <3>3. s.addr + (m + XferCells) <= AppEnd
      BY <2>7, <2>8, <2>10, <2>11, <3>2
    <3>4. tool'.k * XferCells = m + XferCells
      BY <2>4, <2>8
    <3>5. dfu'.state = "dfuUPLOAD-IDLE" /\ bind' = bind
      BY <2>5, <3>2
    <3>6. FileIs(tool', flash', tool'.k * XferCells)
      BY <2>12, <3>2, <3>4
    <3>7. Reading'
      BY <2>4, <2>9, <3>3, <3>4, <3>5, <3>6 DEF Reading, AbortState
    <3> QED
      BY <2>4, <2>13, <3>1, <3>7 DEF UploadInv, FileFull
  <2> QED
    BY <2>14, <2>15
<1> QED
  BY <1>2, <1>3

LEMMA EmptyFile ==
  ASSUME NEW t, NEW f, NEW n, t.file = <<>>, n = 0
  PROVE  FileIs(t, f, n)
<1>1. 1 .. n = {}
  OBVIOUS
<1> QED
  BY <1>1 DEF FileIs, CellsFrom

\* The address command sets the pointer, or the device reports an error.
LEMMA SendKeepsUpload ==
  ASSUME BaseInv, Send
  PROVE  UploadInv'
<1>1. /\ ToolInv /\ MediaInv /\ ClassInv /\ tool \in ToolType /\ Fits(tool) /\ Blamed \in BOOLEAN
      /\ bind \in BindType /\ media.err \in MediaError
      /\ tool.stage \notin {"read", "abort"} /\ tool.result = "none"
  BY DEF BaseInv, ToolInv, ToolType, Fits, Blamed, MediaInv, MediaTypeOK, MediaType,
     ClassInv, ClassTypeOK, Send, Commanding, Running
<1>2. /\ tool'.stage = tool.stage /\ tool'.result = "none" /\ tool'.session = tool.session
  <2>1. tool' = [tool EXCEPT !.polling = TRUE, !.blamed = Blamed]
    BY DEF Send
  <2> QED
    BY <1>1, <2>1 DEF ToolType
<1>3. CASE tool.stage = "address"
  <2>1. SetAddress(tool.session.addr) /\ AddressValid(tool.session.addr, 1) \in BOOLEAN
    BY <1>1, <1>3, SendCases DEF AddressValid
  <2>2. CASE AddressValid(tool.session.addr, 1)
    <3>1. bind' = [bind EXCEPT !.ptr = tool.session.addr, !.dfuse = TRUE]
      BY <2>1, <2>2 DEF SetAddress, Commanded, Handled
    <3>2. bind'.ptr = tool.session.addr /\ bind'.dfuse
      BY <1>1, <3>1 DEF BindType
    <3> QED
      BY <1>2, <1>3, <3>2 DEF UploadInv, PointerSet, Reading, FileFull
  <2>3. CASE ~AddressValid(tool.session.addr, 1)
    <3>1. Commanded(FALSE, media, bind, want)
      BY <2>1, <2>3 DEF SetAddress
    <3>2. dfu'.state = "dfuERROR"
      BY <1>1, <3>1, CommandLeavesIdle
    <3> QED
      BY <1>2, <1>3, <3>2 DEF UploadInv, PointerSet, Reading, FileFull
  <2> QED
    BY <2>2, <2>3
<1>4. CASE tool.stage # "address"
  BY <1>1, <1>2, <1>4, NoUploadAtHand
<1> QED
  BY <1>3, <1>4

\* A read begins once the pointer is set.
LEMMA PollKeepsUpload ==
  ASSUME BaseInv, UploadInv, Poll
  PROVE  UploadInv'
<1> DEFINE t == AfterStatus(tool, dfu')
<1>1. /\ tool \in ToolType /\ Fits(tool) /\ tool.polling /\ tool.result = "none"
      /\ Blamed \in BOOLEAN /\ {"error", "stored"} \subseteq Results \ {"none"}
      /\ tool.session \in Sessions /\ bind \in BindType
  BY DEF BaseInv, ToolInv, ToolType, Fits, Poll, Running, Blamed, Results, ClassInv, ClassTypeOK
<1>2. tool' = [t EXCEPT !.blamed = Blamed] /\ t \in ToolType
  BY <1>1, AfterStatusOK DEF Poll
<1>3. t.session = tool.session /\ t.file = tool.file
  BY <1>1, AfterStatusFacts, OverFacts, FollowingFacts
<1>4. \/ t = tool
      \/ t = Over(tool, "error") \/ t = Over(tool, "stored")
      \/ t = Moved(tool) /\ tool.stage # "finish" /\ dfu'.state = "dfuDNLOAD-IDLE"
  BY <1>1, AfterStatusFacts
<1> HIDE DEF t
<1>5. /\ tool'.stage = t.stage /\ tool'.k = t.k /\ tool'.polling = t.polling
      /\ tool'.result = t.result /\ tool'.session = tool.session /\ tool'.file = tool.file
  BY <1>1, <1>2, <1>3, BlamedFacts
<1>6. /\ bind' = bind
      /\ dfu'.state # "dfuERROR" => dfu.state # "dfuERROR"
  BY PollChanges DEF BaseInv, Poll
<1>7. CASE t = tool
  <2>1. tool.stage \notin {"read", "abort"}
    BY <1>1 DEF Fits
  <2> QED
    BY <1>1, <1>5, <1>6, <1>7, <2>1 DEF UploadInv, PointerSet, Reading, FileFull
<1>8. CASE t = Over(tool, "error") \/ t = Over(tool, "stored")
  <2>1. t.stage = "over" /\ t.result \in {"error", "stored"}
    BY <1>1, <1>8, OverFacts
  <2> QED
    BY <1>5, <2>1, NoUploadAtHand
<1>9. CASE t = Moved(tool) /\ tool.stage # "finish" /\ dfu'.state = "dfuDNLOAD-IDLE"
  <2>1. /\ ~t.polling /\ t.result = "none" /\ t.stage = Following(tool)[1]
        /\ t.k = Following(tool)[2]
    BY <1>1, <1>9, FollowingFacts
  <2>2. /\ tool.stage \in {"erase", "address", "block", "exec"}
        /\ tool.stage \in {"erase", "address"} => ~tool.session.standard /\ tool.file = <<>>
        /\ tool.session.upload => tool.stage = "address"
    BY <1>1, <1>9 DEF Fits
  <2>3. /\ t.stage # "abort"
        /\ t.stage = "read" => tool.stage = "address" /\ t.k = 0
    BY <2>1, <2>2 DEF Following, DataStage
  <2>4. CASE t.stage = "read"
    <3>1. bind.dfuse /\ bind.ptr = tool.session.addr
      BY <1>1, <1>6, <1>9, <2>3, <2>4 DEF UploadInv, PointerSet
    <3>2. tool'.k = 0 /\ tool'.k * XferCells = 0
      BY <1>5, <2>3, <2>4, Sizes
    <3>3. bind.ptr \in Nat /\ bind.ptr <= AppEnd
      BY <1>1, Sizes DEF BindType, AppCell
    <3>4. tool'.session.addr + tool'.k * XferCells <= AppEnd
      BY <1>5, <3>1, <3>2, <3>3
    <3>5. FileIs(tool', flash', tool'.k * XferCells)
      BY <1>5, <2>2, <2>3, <2>4, <3>2, EmptyFile
    <3>6. Reading'
      BY <1>5, <1>6, <1>9, <2>2, <2>3, <2>4, <3>1, <3>2, <3>4, <3>5 DEF Reading, AbortState
    <3> QED
      BY <1>5, <2>1, <2>4, <3>6 DEF UploadInv, PointerSet, FileFull
  <2>5. CASE t.stage # "read"
    BY <1>5, <2>1, <2>3, <2>5, NoUploadAtHand
  <2> QED
    BY <2>4, <2>5
<1> QED
  BY <1>4, <1>7, <1>8, <1>9

\* A standard upload begins on an idle device, or is a stale one.
LEMMA StartKeepsUpload ==
  ASSUME IdleIsStandard, NEW s \in Sessions, tool' = Started(s), dfu' = dfu, bind' = bind
  PROVE  UploadInv'
<1>1. /\ tool'.session = s /\ tool'.k = 0 /\ ~tool'.polling /\ tool'.result = "none"
      /\ tool'.file = <<>> /\ tool'.stale = (dfu # InitDfu)
      /\ tool'.stage = IF s.standard THEN IF s.upload THEN "read" ELSE "block"
                       ELSE IF s.erase /\ ~s.upload THEN "erase" ELSE "address"
  BY StartedFacts
<1>2. /\ s.standard \in BOOLEAN /\ (s.standard => s.addr = AppBase) /\ s.addr \in Nat
      /\ AppBase \in Nat /\ AppEnd \in Nat /\ AppBase <= AppEnd /\ tool'.k * XferCells = 0
  BY <1>1, SessionFacts, Sizes
<1>3. CASE tool'.stage # "read"
  BY <1>1, <1>3, NoUploadAtHand
<1>4. CASE tool'.stage = "read" /\ dfu # InitDfu
  BY <1>1, <1>4 DEF UploadInv, StaleUpload, PointerSet
<1>5. CASE tool'.stage = "read" /\ dfu = InitDfu
  <2>1. s.standard /\ dfu.state = "dfuIDLE" /\ ~bind.dfuse
    BY <1>1, <1>5 DEF InitDfu, IdleIsStandard
  <2>2. s.addr + tool'.k * XferCells <= AppEnd
    BY <1>2, <2>1
  <2>3. FileIs(tool', flash', tool'.k * XferCells)
    BY <1>1, <1>2, EmptyFile
  <2>4. Reading'
    BY <1>1, <2>1, <2>2, <2>3 DEF Reading, AbortState
  <2> QED
    BY <1>1, <1>5, <2>4 DEF UploadInv, PointerSet, FileFull
<1> QED
  BY <1>3, <1>4, <1>5

LEMMA StepKeepsUpload ==
  ASSUME DualBank, BaseInv, SessionInv, IdleIsStandard, UploadInv, [HostNext]_hostVars
  PROVE  UploadInv'
<1>0. /\ tool \in ToolType /\ Fits(tool)
      /\ {"error", "assumed", "uploaded"} \subseteq Results \ {"none"}
      /\ tool.session \in Sessions /\ tool.k \in Nat
  BY DEF BaseInv, ToolInv, ToolType, Results
<1>1. CASE UNCHANGED hostVars
  BY <1>1 DEF hostVars, dfuVars, mediaVars, classVars, UploadInv, PointerSet, StaleUpload,
     Reading, FileFull, FileIs, AbortState, Busy
<1>2. CASE Device
  <2>1. MainPoll /\ tool' = tool /\ dfu' = dfu /\ bind' = bind
    BY <1>2 DEF Device, MainPoll, classVars
  <2>2. ~Busy(media) /\ ~media.dirty => flash' = flash /\ ~Busy(media') /\ ~media'.dirty
    BY <2>1, RestKeepsFlash
  <2>3. PointerSet'
    BY <2>1 DEF UploadInv, PointerSet
  <2>4. CASE StaleUpload
    BY <2>1, <2>3, <2>4 DEF UploadInv, StaleUpload
  <2>5. CASE Reading /\ FileFull
    <3>1. tool.stage = "read" => flash' = flash \/ tool.k * XferCells = 0
      <4>1. CASE tool.k = 0
        BY <4>1, Sizes
      <4>2. CASE tool.stage = "read" /\ tool.k > 0
        BY <2>2, <2>5, <4>2, UploadRests DEF Reading
      <4> QED
        BY <1>0, <4>1, <4>2
    <3>2. Reading'
      <4>1. tool.stage = "read" => FileIs(tool', flash', tool.k * XferCells)
        BY <2>1, <2>5, <3>1, FileStays DEF Reading
      <4> QED
        BY <2>1, <2>5, <4>1 DEF Reading, AbortState
    <3>3. FileFull'
      <4>1. tool.stage = "abort" \/ tool.result = "uploaded" =>
              flash' = flash /\ ~Busy(media') /\ ~media'.dirty
        BY <2>2, <2>5, UploadRests DEF FileFull
      <4> QED
        BY <2>1, <2>5, <4>1 DEF FileFull, Busy
    <3> QED
      BY <2>3, <3>2, <3>3 DEF UploadInv
  <2> QED
    BY <2>4, <2>5 DEF UploadInv
<1>3. CASE Send
  BY <1>3, SendKeepsUpload
<1>4. CASE Poll
  BY <1>4, PollKeepsUpload
<1>5. CASE Read
  BY <1>5, ReadKeepsUpload
<1>6. CASE SendStalled
  <2>1. tool'.stage = "over" /\ tool'.result = "error"
    BY <1>0, <1>6, OverFacts DEF SendStalled
  <2> QED
    BY <2>1, NoUploadAtHand
<1>7. CASE GiveUp
  <2>1. tool'.stage = "over" /\ tool'.result = "error"
    BY <1>0, <1>7, OverFacts, BlamedFacts DEF GiveUp
  <2> QED
    BY <2>1, NoUploadAtHand
<1>8. ASSUME tool'.stage = "over", tool'.session = tool.session, tool'.file = tool.file,
             tool'.stale = tool.stale, tool'.result = "uploaded" => tool.stage = "abort",
             tool.stage = "abort" /\ ~StaleUpload =>
               flash' = flash /\ ~Busy(media') /\ ~media'.dirty
      PROVE  UploadInv'
  <2>1. PointerSet' /\ (StaleUpload => StaleUpload')
    BY <1>8 DEF PointerSet, StaleUpload
  <2>2. CASE StaleUpload
    BY <2>1, <2>2 DEF UploadInv
  <2>3. CASE ~StaleUpload
    <3>1. tool'.result = "uploaded" => FileIs(tool', flash', FullLength(tool.session))
      BY <1>8, <2>3, FileStays DEF UploadInv, FileFull
    <3>2. Reading' /\ FileFull'
      BY <1>8, <2>3, <3>1 DEF Reading, FileFull, Busy
    <3> QED
      BY <2>1, <3>2 DEF UploadInv
  <2> QED
    BY <2>2, <2>3
<1>9. CASE EndUpload
  <2>1. /\ tool.stage = "abort" /\ tool'.stage = "over" /\ tool'.session = tool.session
        /\ tool'.file = tool.file /\ tool'.stale = tool.stale
    BY <1>0, <1>9, OverFacts DEF EndUpload
  <2>2. CASE StaleUpload
    BY <1>8, <2>1, <2>2
  <2>3. CASE ~StaleUpload
    <3>1. AbortState /\ Abort
      BY <1>9, <2>1, <2>3 DEF EndUpload, UploadInv, FileFull, AbortState
    <3>2. flash' = flash /\ media' = Cancel(media) /\ media \in MediaType
      BY <3>1 DEF Abort, Handled, BaseInv, MediaInv, MediaTypeOK
    <3>3. ~Busy(media') /\ ~media'.dirty
      BY <3>2 DEF Cancel, Busy, MediaType
    <3> QED
      BY <1>8, <2>1, <3>2, <3>3
  <2> QED
    BY <2>2, <2>3
<1>10. CASE Disturb
  <2>1. ~Busy(media) /\ ~media.dirty => flash' = flash /\ ~Busy(media') /\ ~media'.dirty
    BY <1>10, RestKeepsFlash DEF Disturb
  <2>2. CASE tool.stage = "over"
    <3>1. tool' = tool
      BY <1>10, <2>2 DEF Disturb, Vanished
    <3>2. CASE StaleUpload
      BY <2>2, <3>1, <3>2 DEF UploadInv, StaleUpload, PointerSet
    <3>3. CASE Reading /\ FileFull
      BY <2>1, <2>2, <3>1, <3>3 DEF UploadInv, PointerSet, Reading, FileFull, Busy
    <3> QED
      BY <3>2, <3>3 DEF UploadInv
  <2>3. CASE tool.stage # "over"
    <3>1. PICK r \in {"error", "assumed", "uploaded"} :
            /\ tool' = [Over(tool, r) EXCEPT !.blamed = TRUE]
            /\ r = "uploaded" => tool.stage = "abort"
      BY <1>10, <2>3 DEF Disturb, Vanished
    <3>2. /\ tool'.stage = "over" /\ tool'.result = r /\ tool'.session = tool.session
          /\ tool'.file = tool.file /\ tool'.stale = tool.stale
      BY <1>0, <3>1, OverFacts, BlamedFacts
    <3>3. tool.stage = "abort" /\ ~StaleUpload =>
            flash' = flash /\ ~Busy(media') /\ ~media'.dirty
      BY <2>1, UploadRests DEF UploadInv, FileFull
    <3> QED
      BY <1>8, <3>1, <3>2, <3>3
  <2> QED
    BY <2>2, <2>3
<1>11. CASE StartTool
  <2>1. PICK s \in Sessions : tool' = Started(s)
    BY <1>11 DEF StartTool
  <2>2. dfu' = dfu /\ bind' = bind
    BY <1>11 DEF StartTool, dfuVars, classVars
  <2> QED
    BY <2>1, <2>2, StartKeepsUpload
<1> QED
  BY <1>1, <1>2, <1>3, <1>4, <1>5, <1>6, <1>7, <1>9, <1>10, <1>11 DEF HostNext, ToolStep

\* An upload's file is what the flash holds from the address given up to the
\* end of the application (DFU_PROTOCOL.md:93-97, 177), on a chip in dual-bank
\* mode and unless a standard upload found another session under way.
THEOREM FreshUploadsAreFlash ==
  "cancel" \notin Races /\ DualBank => (HostSpec => []FreshUploadIsFlash)
<1> SUFFICES ASSUME "cancel" \notin Races, DualBank
             PROVE  HostSpec => []FreshUploadIsFlash
  OBVIOUS
<1> DEFINE IInv == SessionInv /\ IdleIsStandard /\ UploadInv
<1>1. HostInit => IInv
  <2> SUFFICES ASSUME HostInit PROVE IInv
    OBVIOUS
  <2>1. SessionInv /\ IdleIsStandard /\ dfu = InitDfu
    BY InitSessionInv, InitIdle DEF HostInit, DfuInit, ClassInit
  <2>2. PICK s \in Sessions : tool = Started(s)
    BY DEF HostInit
  <2>3. /\ tool.session = s /\ tool.k = 0 /\ ~tool.polling /\ tool.result = "none"
        /\ tool.file = <<>>
        /\ tool.stage = IF s.standard THEN IF s.upload THEN "read" ELSE "block"
                        ELSE IF s.erase /\ ~s.upload THEN "erase" ELSE "address"
    BY <2>2, StartedFacts
  <2>4. /\ s.standard \in BOOLEAN /\ (s.standard => s.addr = AppBase) /\ s.addr \in Nat
        /\ AppBase \in Nat /\ AppEnd \in Nat /\ AppBase <= AppEnd /\ tool.k * XferCells = 0
    BY <2>3, SessionFacts, Sizes
  <2>5. FileIs(tool, flash, tool.k * XferCells)
    BY <2>3, <2>4, EmptyFile
  <2>6. Reading
    BY <2>1, <2>3, <2>4, <2>5 DEF Reading, AbortState, InitDfu, IdleIsStandard
  <2> QED
    BY <2>1, <2>3, <2>6 DEF UploadInv, PointerSet, FileFull
<1>2. BaseInv /\ IInv /\ [HostNext]_hostVars => IInv'
  <2> SUFFICES ASSUME BaseInv, IInv, [HostNext]_hostVars PROVE IInv'
    OBVIOUS
  <2>1. SessionInv' /\ IdleIsStandard'
    BY StepKeepsBaseInv, NextKeepsSessionInv, NextKeepsIdle DEF BaseInv
  <2>2. UploadInv'
    BY StepKeepsUpload
  <2> QED
    BY <2>1, <2>2
<1>3. IInv => FreshUploadIsFlash
  BY DEF UploadInv, StaleUpload, FileFull, FileIs, CellsFrom, FullLength, FreshUploadIsFlash,
     UploadIsFlash
<1> HIDE DEF IInv
<1> QED
  BY <1>1, <1>2, <1>3, BaseInvariant, PTL DEF HostSpec

=============================================================================
