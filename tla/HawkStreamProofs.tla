----------------------------- MODULE HawkStreamProofs -----------------------------
(***************************************************************************)
(* For chunks of any length for which the counter of posted writes is wide *)
(* enough, whatever the pages hold, whenever memory delivers lines and     *)
(* answers writes, and however many of them fail: the page writer's count  *)
(* can be trusted; and, for pages whose chunk is the first, a slot holds   *)
(* the chunk behind its metadata, and a page expanded is as it was.        *)
(***************************************************************************)
EXTENDS HawkStream, SequenceTheorems, TLAPS

(* What a line can hold: a page's line, a metadata line, something else.   *)
Contents == Int \cup {ChunkVec(v) : v \in SUBSET Chunks}
Lines == [data : Contents, ok : BOOLEAN]

FifoType(f) ==
  f \in [rd : Nat, addr : Nat, q : Lines, q_valid : BOOLEAN, r : Lines,
         valid : BOOLEAN]
UnitStates ==
  {"IDLE", "COMP_CHECK1", "COMP_CHECK2", "COMPRESS", "LOAD_FIFO_RDPTR",
   "FIFO_READ_TRNSFR", "FIFO_TRNSFR", "METADATA", "EXPAND", "FILL_ZEROS",
   "LD_FIFO_RDPTR", "DONE", "BUS_ERROR"}
UnitType(v) ==
  v \in [state : UnitStates, cnt : Nat, zeros : Nat, prev : Nat, vec : SUBSET Chunks,
         exp : 0 .. 4, rd_req : BOOLEAN, send : BOOLEAN, ld : BOOLEAN, ptr : Nat,
         done : BOOLEAN, incompressible : BOOLEAN]
WriterType(x) ==
  x \in [state : {"IDLE", "TRNSFR", "ZS_PAGE_UPDATE_ADDR", "ZS_PAGE_UPDATE_DATA",
                  "WAIT_BRESP"},
         burst : Nat, pending : Int, owed : Nat]
Types ==
  /\ phase \in {"COMPRESS", "MIGRATE", "DECOMPRESS", "END"}
  /\ source \in Seq(Lines) /\ arrived \in 0 .. Len(source)
  /\ FifoType(fifo) /\ UnitType(u) /\ WriterType(w)
  /\ wfifo \in Seq(Contents) /\ target \in Seq(Contents)

(* While the writer waits for the unit: what the unit has pushed follows   *)
(* from its state and counters, and no write is under way.                 *)
Pushed ==
  /\ u.state \in {"IDLE", "COMP_CHECK1", "COMP_CHECK2", "COMPRESS", "METADATA"}
       => Len(wfifo) = 0
  /\ u.state = "METADATA" => u.exp = 0
  /\ u.state = "COMP_CHECK1" => u.cnt <= PageLen
  /\ u.state = "LOAD_FIFO_RDPTR" => Len(wfifo) = 1
  /\ u.state = "FIFO_TRNSFR" => Len(wfifo) = u.cnt /\ u.cnt <= SlotLen
  /\ u.state = "EXPAND" => Len(wfifo) = u.exp * ChunkLen
  /\ u.state = "LD_FIFO_RDPTR" =>
       Len(wfifo) = u.exp * ChunkLen /\ u.exp < 4 /\ u.cnt = 0
  /\ u.state = "FILL_ZEROS" \/ (u.state = "FIFO_READ_TRNSFR" /\ phase = "DECOMPRESS") =>
       Len(wfifo) = u.exp * ChunkLen + u.cnt /\ u.exp < 4 /\ u.cnt <= ChunkLen
  /\ u.state = "FIFO_READ_TRNSFR" /\ phase = "COMPRESS" =>
       Len(wfifo) = 1 + u.cnt /\ u.cnt <= ChunkLen
  /\ u.state = "DONE" => Len(wfifo) = BurstLen
UnitInv ==
  w.state = "IDLE" /\ phase # "END" =>
    /\ Pushed
    /\ u.done => u.state = "DONE"
    /\ target = << >> /\ w.owed = 0 /\ w.pending = 1

(* While it writes: the writes posted are those addressed so far, in order *)
(* with the lines of the write FIFO; the counter is one above what memory  *)
(* owes, or more if a write failed.                                        *)
posted == Len(target) + w.owed
Addressed ==
  /\ w.state = "TRNSFR" => posted = w.burst /\ w.burst <= BurstLen
  /\ w.state = "ZS_PAGE_UPDATE_ADDR" => posted = BurstLen
  /\ w.state = "ZS_PAGE_UPDATE_DATA" => posted = BurstLen + 1
  /\ w.state # "WAIT_BRESP" => Len(wfifo) = BurstLen
  /\ w.state = "WAIT_BRESP" =>
       posted = Len(wfifo) /\ Len(wfifo) \in BurstLen .. BurstLen + 1
Counted ==
  /\ 1 + w.owed <= w.pending /\ w.pending <= 1 + posted
  /\ w.pending = 1 + w.owed => \A i \in 1 .. Len(target) : target[i] = wfifo[i]
WriterInv ==
  w.state # "IDLE" =>
    /\ phase # "END" /\ u.state = "IDLE" /\ ~ u.done /\ ~ u.incompressible
    /\ Addressed /\ Counted /\ Len(target) <= Len(wfifo)

(* Nothing goes on at the end.                                             *)
EndInv == phase = "END" => ~ u.done /\ w.owed = 0

IInv == Types /\ UnitInv /\ WriterInv /\ EndInv

-----------------------------------------------------------------------------
(* Operators.                                                              *)
LEMMA Lengths ==
  /\ ChunkLen \in Nat /\ ChunkLen >= 1
  /\ PageLen = 4 * ChunkLen /\ SlotLen = ChunkLen + 1
  /\ PageLen \in Nat /\ SlotLen \in Nat
  /\ BurstLen \in Nat /\ SlotLen <= BurstLen /\ BurstLen <= PageLen
BY StreamAssumption DEF PageLen, SlotLen, BurstLen

LEMMA AnswersType ==
  ASSUME NEW lines \in Seq(Contents), NEW bad
  PROVE  Answers(lines, bad) \in Seq(Lines) /\ Len(Answers(lines, bad)) = Len(lines)
<1>1. Len(lines) \in Nat /\ \A i \in 1 .. Len(lines) : lines[i] \in Contents
  OBVIOUS
<1>2. \A i \in 1 .. Len(lines) : Line(lines[i], i # bad) \in Lines
  BY <1>1 DEF Line, Lines
<1> QED BY <1>1, <1>2 DEF Answers

LEMMA IdleTypes ==
  /\ FifoType(EmptyFifo) /\ UnitType(IdleUnit) /\ WriterType(IdleWriter)
  /\ Line(Junk, TRUE) \in Lines
<1>1. Line(Junk, TRUE) \in Lines
  <2>1. Junk \in Contents
    BY DEF Junk, Contents
  <2> QED BY <2>1 DEF Line, Lines
<1>2. FifoType(EmptyFifo)
  BY <1>1 DEF FifoType, EmptyFifo
<1>3. UnitType(IdleUnit)
  <2>1. {} \in SUBSET Chunks /\ 0 \in 0 .. 4
    OBVIOUS
  <2> QED BY <2>1 DEF UnitType, UnitStates, IdleUnit
<1>4. WriterType(IdleWriter)
  BY DEF WriterType, IdleWriter
<1> QED BY <1>1, <1>2, <1>3, <1>4

(* The chunk a count stands at the end of.                                 *)
LEMMA ChunkAt ==
  ASSUME NEW n \in 1 .. PageLen, n % ChunkLen = 0
  PROVE  (n \div ChunkLen) - 1 \in Chunks
<1> DEFINE q == n \div ChunkLen
<1>1. q \in Int /\ n = ChunkLen * q
  BY Lengths
<1>2. q >= 1
  <2>1. SUFFICES ASSUME q <= 0 PROVE FALSE
    BY <1>1
  <2>2. ChunkLen * q <= 0
    BY <1>1, <2>1, Lengths
  <2> QED BY <1>1, <2>2
<1>3. q <= 4
  <2>1. SUFFICES ASSUME q >= 5 PROVE FALSE
    BY <1>1
  <2>2. ChunkLen * q >= ChunkLen * 5
    BY <1>1, <2>1, Lengths
  <2> QED BY <1>1, <2>2, Lengths
<1> QED BY <1>1, <1>2, <1>3 DEF Chunks

LEMMA RdptrType ==
  ASSUME NEW vec \in SUBSET Chunks
  PROVE  rdptr_of(vec) \in Nat
<1>1. CASE vec = Chunks
  BY <1>1 DEF rdptr_of
<1>2. CASE vec # Chunks
  <2> DEFINE P(c) == c \in Chunks \ vec /\ \A d \in Chunks \ vec : c <= d
             k == CHOOSE c \in Chunks \ vec : \A d \in Chunks \ vec : c <= d
  <2>1. \E c : P(c)
    <3>1. CASE 0 \notin vec
      BY <3>1 DEF Chunks
    <3>2. CASE 0 \in vec /\ 1 \notin vec
      <4>1. P(1) BY <3>2 DEF Chunks
      <4> QED BY <4>1
    <3>3. CASE 0 \in vec /\ 1 \in vec /\ 2 \notin vec
      <4>1. P(2) BY <3>3 DEF Chunks
      <4> QED BY <4>1
    <3>4. CASE 0 \in vec /\ 1 \in vec /\ 2 \in vec
      <4>1. 3 \notin vec
        <5>1. SUFFICES ASSUME 3 \in vec PROVE Chunks \subseteq vec
          BY <1>2
        <5> QED BY <5>1, <3>4 DEF Chunks
      <4>2. P(3) BY <4>1, <3>4 DEF Chunks
      <4> QED BY <4>2
    <3> QED BY <3>1, <3>2, <3>3, <3>4
  <2>2. k \in {0, 1, 2, 3}
    BY <2>1 DEF Chunks
  <2>3. rdptr_of(vec) = IF k = 0 THEN 0 ELSE (k * ChunkLen) - 1
    BY <1>2 DEF rdptr_of
  <2> HIDE DEF k
  <2>4. CASE k = 0  BY <2>3, <2>4
  <2>5. CASE k = 1  BY <2>3, <2>5, Lengths
  <2>6. CASE k = 2  BY <2>3, <2>6, Lengths
  <2>7. CASE k = 3  BY <2>3, <2>7, Lengths
  <2> QED BY <2>2, <2>4, <2>5, <2>6, <2>7
<1> QED BY <1>1, <1>2

-----------------------------------------------------------------------------
(* Initially and in every step.                                            *)
LEMMA InitStep == Init => IInv
<1> SUFFICES ASSUME Init PROVE IInv
  OBVIOUS
<1>1. page \in Seq(Contents) /\ Len(page) = PageLen
  BY StreamAssumption, Lengths DEF Init, Contents
<1>2. source \in Seq(Lines) /\ Len(source) = PageLen
  BY <1>1, AnswersType DEF Init
<1>3. Types
  BY <1>2, IdleTypes, Lengths DEF Init, Types
<1>4. UnitInv
  BY DEF Init, UnitInv, Pushed, IdleUnit, IdleWriter
<1> QED BY <1>3, <1>4 DEF Init, IInv, WriterInv, EndInv, IdleWriter, IdleUnit

-----------------------------------------------------------------------------
(* A cycle.  FIFO and memory.                                              *)
LEMMA FifoStep ==
  ASSUME Types, FifoCycle
  PROVE  FifoType(fifo')
<1>1. \A addr \in Nat : Stored(addr) \in Lines
  <2> SUFFICES ASSUME NEW addr \in Nat PROVE Stored(addr) \in Lines
    OBVIOUS
  <2>1. addr % PageLen \in Nat
    BY Lengths
  <2>2. CASE addr % PageLen < arrived
    <3>1. (addr % PageLen) + 1 \in 1 .. Len(source)
      BY <2>1, <2>2 DEF Types
    <3> QED BY <2>2, <3>1 DEF Types, Stored
  <2>3. CASE ~ (addr % PageLen < arrived)
    BY <2>3, IdleTypes DEF Stored
  <2> QED BY <2>2, <2>3
<1>2. /\ fifo.rd \in Nat /\ fifo.addr \in Nat /\ fifo.q \in Lines /\ fifo.r \in Lines
      /\ fifo.q_valid \in BOOLEAN
  BY DEF Types, FifoType
<1>3. u.ptr \in Nat /\ u.rd_req \in BOOLEAN /\ u.ld \in BOOLEAN
  BY DEF Types, UnitType
<1> DEFINE pop == u.rd_req /\ ~ rdfifo_empty
           next == IF pop THEN fifo.rd + 1 ELSE fifo.rd
<1>4. next \in Nat
  BY <1>2
<1>5. (IF pop THEN Stored(fifo.addr) ELSE fifo.q) \in Lines
  BY <1>1, <1>2
<1> QED BY <1>2, <1>3, <1>4, <1>5 DEF FifoCycle, FifoType

LEMMA BeatStep ==
  ASSUME Types, Beat \/ NoBeat, UNCHANGED source
  PROVE  arrived' \in 0 .. Len(source')
<1>1. Len(source) \in Nat
  BY DEF Types
<1> QED BY <1>1 DEF Types, Beat, NoBeat

(* What the units share.                                                   *)
SameBut(v, s) ==
  /\ UnitType(v) /\ v.state = s /\ v.cnt = u.cnt /\ v.zeros = u.zeros
  /\ v.prev = u.prev /\ v.vec = u.vec /\ v.exp = u.exp
  /\ v.done = FALSE

LEMMA StepFields ==
  ASSUME UnitType(u), NEW s \in UnitStates
  PROVE  SameBut(Step(s), s) /\ SameBut(Reading(s), s)
<1>1. SameBut(Step(s), s)
  <2> DEFINE send == IF ~ fifo.valid THEN TRUE ELSE u.send /\ u.rd_req
  <2>1. send \in BOOLEAN
    BY DEF UnitType
  <2> QED BY <2>1 DEF Step, SameBut, UnitType
<1>2. SameBut(Reading(s), s)
  <2>1. (~ rdfifo_empty /\ u.send) \in BOOLEAN
    OBVIOUS
  <2> QED BY <1>1, <2>1 DEF Reading, SameBut, UnitType
<1> QED BY <1>1, <1>2

LEMMA PutStep ==
  ASSUME Types, NEW line \in Contents, Put(line)
  PROVE  wfifo' \in Seq(Contents) /\ Len(wfifo') = Len(wfifo) + 1
BY DEF Types, Put

(* What has to be shown of a cycle of the unit.                            *)
UnitKept ==
  /\ UnitType(u') /\ wfifo' \in Seq(Contents)
  /\ Pushed' /\ (u'.done => u'.state = "DONE")

LEMMA TransferStep ==
  ASSUME Types, Pushed, UNCHANGED phase,
         NEW n \in Nat, NEW s \in UnitStates, Transfer(s, n),
         \/ s = "FIFO_READ_TRNSFR" /\ n = ChunkLen /\ phase \in {"COMPRESS", "DECOMPRESS"}
         \/ s = "FIFO_TRNSFR" /\ n = SlotLen
  PROVE  UnitKept
<1>1. u.state = s /\ u.cnt < n /\ u.cnt \in Nat /\ UnitType(u)
  BY DEF Transfer, Types, UnitType
<1>2. CASE u' = Reading(s) /\ PutNothing
  <2>1. SameBut(u', s)
    BY <1>1, <1>2, StepFields
  <2> QED BY <1>1, <1>2, <2>1 DEF UnitKept, SameBut, Pushed, PutNothing, Types
<1>3. CASE u' = [Reading(s) EXCEPT !.cnt = @ + 1] /\ Put(fifo.r.data)
  <2>1. SameBut(Reading(s), s)
    BY <1>1, StepFields
  <2>2. /\ UnitType(u') /\ u'.state = s /\ u'.cnt = u.cnt + 1
        /\ u'.exp = u.exp /\ u'.done = FALSE
    BY <1>3, <2>1 DEF SameBut, UnitType
  <2>3. fifo.r.data \in Contents
    BY DEF Types, FifoType, Lines
  <2>4. wfifo' \in Seq(Contents) /\ Len(wfifo') = Len(wfifo) + 1
    BY <1>3, <2>3, PutStep
  <2>5. u.exp \in 0 .. 4 /\ Len(wfifo) \in Nat /\ u.exp * ChunkLen \in Int
    BY Lengths DEF Types, UnitType
  <2>6. CASE s = "FIFO_READ_TRNSFR" /\ phase = "COMPRESS"
    BY <1>1, <2>2, <2>4, <2>5, <2>6, Lengths DEF UnitKept, Pushed
  <2>7. CASE s = "FIFO_READ_TRNSFR" /\ phase = "DECOMPRESS"
    BY <1>1, <2>2, <2>4, <2>5, <2>7, Lengths DEF UnitKept, Pushed
  <2>8. CASE s = "FIFO_TRNSFR"
    BY <1>1, <2>2, <2>4, <2>5, <2>8, Lengths DEF UnitKept, Pushed
  <2> QED BY <2>6, <2>7, <2>8
<1>4. CASE u' = Reading("BUS_ERROR") /\ PutNothing
  <2>1. SameBut(u', "BUS_ERROR")
    BY <1>1, <1>4, StepFields DEF UnitStates
  <2> QED BY <1>4, <2>1 DEF UnitKept, SameBut, Pushed, PutNothing, Types
<1> QED BY <1>2, <1>3, <1>4 DEF Transfer

(* A state the unit can go to with nothing pushed yet, or all.             *)
LEMMA FinishedStep ==
  ASSUME Types, Pushed, UNCHANGED phase, Finished
  PROVE  UnitKept
<1>1. SameBut(Step("DONE"), "DONE")
  BY StepFields DEF Types, UnitStates
<1>2. UnitType(u') /\ u'.state = "DONE"
  BY <1>1 DEF Finished, SameBut, UnitType
<1> QED BY <1>2 DEF Finished, UnitKept, Pushed, PutNothing, Types, BurstLen

LEMMA CheckChunkType ==
  ASSUME Types, u.cnt <= PageLen, NEW n, UnitType(n)
  PROVE  /\ UnitType(CheckChunk(n)) /\ CheckChunk(n).state = n.state
         /\ CheckChunk(n).cnt = n.cnt /\ CheckChunk(n).done = n.done
<1>1. u.cnt \in Nat /\ u.zeros \in Nat
  BY DEF Types, UnitType
<1>2. CASE u.cnt = 0 \/ u.cnt % ChunkLen # 0
  BY <1>2 DEF CheckChunk
<1>3. CASE ~ (u.cnt = 0 \/ u.cnt % ChunkLen # 0)
  <2> DEFINE k == (u.cnt \div ChunkLen) - 1
             vec == IF u.zeros - u.prev = ChunkLen THEN n.vec \cup {k}
                    ELSE n.vec \ {k}
  <2>1. k \in Chunks
    BY <1>1, <1>3, ChunkAt, Lengths
  <2>2. vec \in SUBSET Chunks
    BY <2>1 DEF UnitType
  <2>3. CheckChunk(n) = [n EXCEPT !.vec = vec, !.prev = u.zeros]
    BY <1>3 DEF CheckChunk
  <2> HIDE DEF vec
  <2> QED BY <1>1, <2>2, <2>3 DEF UnitType
<1> QED BY <1>2, <1>3

LEMMA CompressorStep ==
  ASSUME Types, Pushed, UNCHANGED phase, phase = "COMPRESS", CompCycle
  PROVE  UnitKept
<1>1. /\ UnitType(u) /\ u.cnt \in Nat /\ u.zeros \in Nat /\ u.vec \in SUBSET Chunks
      /\ wfifo \in Seq(Contents) /\ Len(wfifo) \in Nat
  BY DEF Types, UnitType
<1>2. CASE CompStart
  <2>1. SameBut(Step("COMP_CHECK1"), "COMP_CHECK1")
    BY <1>1, StepFields DEF UnitStates
  <2>2. /\ UnitType(u') /\ u'.state = "COMP_CHECK1" /\ u'.cnt = 0 /\ u'.done = FALSE
    BY <1>2, <2>1 DEF CompStart, SameBut, UnitType
  <2> QED BY <1>1, <1>2, <2>2, Lengths DEF CompStart, PutNothing, UnitKept, Pushed
<1>3. CASE CompCheck1
  <2> DEFINE n == IF u.cnt = PageLen THEN Reading("COMP_CHECK2")
                  ELSE IF ~ take THEN Reading("COMP_CHECK1")
                  ELSE IF ~ fifo.r.ok THEN Reading("BUS_ERROR")
                  ELSE [Reading("COMP_CHECK1") EXCEPT
                          !.cnt = @ + 1,
                          !.zeros = IF fifo.r.data = 0 THEN @ + 1 ELSE @]
  <2>1. /\ u.state = "COMP_CHECK1" /\ u.cnt <= PageLen
        /\ u' = CheckChunk(n) /\ wfifo' = wfifo /\ Len(wfifo) = 0
    BY <1>3 DEF CompCheck1, Pushed, PutNothing
  <2>2. /\ UnitType(n) /\ n.done = FALSE
        /\ \/ n.state = "COMP_CHECK1" /\ n.cnt <= PageLen
           \/ n.state \in {"COMP_CHECK2", "BUS_ERROR"}
    <3>1. CASE u.cnt = PageLen
      BY <1>1, <3>1, StepFields DEF UnitStates, SameBut
    <3>2. CASE u.cnt # PageLen /\ ~ take
      BY <1>1, <2>1, <3>2, StepFields DEF UnitStates, SameBut
    <3>3. CASE u.cnt # PageLen /\ take /\ ~ fifo.r.ok
      BY <1>1, <3>3, StepFields DEF UnitStates, SameBut
    <3>4. CASE u.cnt # PageLen /\ take /\ fifo.r.ok
      <4>1. n = [Reading("COMP_CHECK1") EXCEPT
                   !.cnt = @ + 1,
                   !.zeros = IF fifo.r.data = 0 THEN @ + 1 ELSE @]
        BY <3>4
      <4> DEFINE r == Reading("COMP_CHECK1")
                 z == IF fifo.r.data = 0 THEN r.zeros + 1 ELSE r.zeros
      <4>2. SameBut(r, "COMP_CHECK1")
        BY <1>1, StepFields DEF UnitStates
      <4> HIDE DEF r
      <4>3. z \in Nat
        BY <1>1, <4>2 DEF SameBut
      <4>4. n = [r EXCEPT !.cnt = r.cnt + 1, !.zeros = z]
        BY <4>1 DEF r
      <4> HIDE DEF n, z
      <4>5. UnitType(n) /\ n.state = "COMP_CHECK1" /\ n.cnt = u.cnt + 1 /\ n.done = FALSE
        <5>1. r.cnt + 1 \in Nat
          BY <1>1, <4>2 DEF SameBut
        <5>2. UnitType(n)
          BY <4>2, <4>3, <4>4, <5>1 DEF SameBut, UnitType
        <5> QED BY <4>2, <4>4, <5>2 DEF SameBut, UnitType
      <4> QED BY <1>1, <2>1, <3>4, <4>5, Lengths
    <3> QED BY <3>1, <3>2, <3>3, <3>4
  <2> HIDE DEF n
  <2>3. UnitType(u') /\ u'.state = n.state /\ u'.cnt = n.cnt /\ u'.done = FALSE
    BY <2>1, <2>2, CheckChunkType
  <2> QED BY <1>1, <2>1, <2>2, <2>3 DEF UnitKept, Pushed
<1>4. CASE CompCheck2
  <2>1. SameBut(Step("COMPRESS"), "COMPRESS") /\ SameBut(Step("IDLE"), "IDLE")
    BY <1>1, StepFields DEF UnitStates
  <2>2. /\ UnitType(u') /\ u'.state \in {"COMPRESS", "IDLE"} /\ u'.done = FALSE
    BY <1>4, <2>1 DEF CompCheck2, SameBut, UnitType
  <2> QED BY <1>1, <1>4, <2>2 DEF CompCheck2, PutNothing, UnitKept, Pushed
<1>5. CASE Compress
  <2>1. SameBut(u', "LOAD_FIFO_RDPTR")
    BY <1>1, <1>5, StepFields DEF Compress, UnitStates
  <2>2. wfifo' \in Seq(Contents) /\ Len(wfifo') = Len(wfifo) + 1
    <3>1. ChunkVec(u.vec) \in Contents
      BY <1>1 DEF Contents
    <3> QED BY <1>5, <3>1, PutStep DEF Compress
  <2> QED BY <1>1, <1>5, <2>1, <2>2 DEF Compress, SameBut, UnitKept, Pushed
<1>6. CASE LoadRdptr
  <2>1. SameBut(Step("FIFO_READ_TRNSFR"), "FIFO_READ_TRNSFR")
    BY <1>1, StepFields DEF UnitStates
  <2>2. rdptr_of(u.vec) \in Nat
    BY <1>1, RdptrType
  <2>3. UnitType(u') /\ u'.state = "FIFO_READ_TRNSFR" /\ u'.cnt = 0 /\ u'.done = FALSE
    BY <1>6, <2>1, <2>2 DEF LoadRdptr, SameBut, UnitType
  <2> QED BY <1>1, <1>6, <2>3, Lengths DEF LoadRdptr, PutNothing, UnitKept, Pushed
<1>7. CASE Transfer("FIFO_READ_TRNSFR", ChunkLen)
  BY <1>7, TransferStep, Lengths DEF UnitStates
<1>8. CASE CompDone
  <2>1. SameBut(u', "DONE")
    BY <1>1, <1>8, StepFields DEF CompDone, UnitStates
  <2> QED BY <1>1, <1>8, <2>1, Lengths
          DEF CompDone, PutNothing, SameBut, UnitKept, Pushed, BurstLen
<1>9. CASE Finished
  BY <1>9, FinishedStep
<1> QED BY <1>2, <1>3, <1>4, <1>5, <1>6, <1>7, <1>8, <1>9 DEF CompCycle

LEMMA MigratorStep ==
  ASSUME Types, Pushed, UNCHANGED phase, phase = "MIGRATE", MigrateCycle
  PROVE  UnitKept
<1>1. UnitType(u) /\ wfifo \in Seq(Contents) /\ Len(wfifo) \in Nat
  BY DEF Types
<1>2. CASE MigrateStart
  <2>1. /\ SameBut(Step("IDLE"), "IDLE") /\ SameBut(Step("FIFO_TRNSFR"), "FIFO_TRNSFR")
    BY <1>1, StepFields DEF UnitStates
  <2>2. /\ UnitType(u') /\ u'.done = FALSE
        /\ u'.state = "IDLE" \/ (u'.state = "FIFO_TRNSFR" /\ u'.cnt = 0)
    <3>1. CASE rdfifo_empty
      BY <1>2, <2>1, <3>1 DEF MigrateStart, SameBut
    <3>2. CASE ~ rdfifo_empty
      <4>1. u' = [Step("FIFO_TRNSFR") EXCEPT !.cnt = 0]
        BY <1>2, <3>2 DEF MigrateStart
      <4> QED BY <2>1, <4>1 DEF SameBut, UnitType
    <3> QED BY <3>1, <3>2
  <2> QED BY <1>1, <1>2, <2>2, Lengths DEF MigrateStart, PutNothing, UnitKept, Pushed
<1>3. CASE Transfer("FIFO_TRNSFR", SlotLen)
  BY <1>3, TransferStep, Lengths DEF UnitStates
<1>4. CASE MigrateDone
  <2>1. SameBut(u', "DONE")
    BY <1>1, <1>4, StepFields DEF MigrateDone, UnitStates
  <2> QED BY <1>1, <1>4, <2>1, Lengths
          DEF MigrateDone, PutNothing, SameBut, UnitKept, Pushed, BurstLen
<1>5. CASE Finished
  BY <1>5, FinishedStep
<1> QED BY <1>2, <1>3, <1>4, <1>5 DEF MigrateCycle

LEMMA DecompressorStep ==
  ASSUME Types, Pushed, UNCHANGED phase, phase = "DECOMPRESS", DecompCycle
  PROVE  UnitKept
<1>1. /\ UnitType(u) /\ u.cnt \in Nat /\ u.exp \in 0 .. 4
      /\ wfifo \in Seq(Contents) /\ Len(wfifo) \in Nat /\ u.exp * ChunkLen \in Int
  BY Lengths DEF Types, UnitType
<1>2. CASE DecompStart
  <2>1. SameBut(Step("IDLE"), "IDLE") /\ SameBut(Step("METADATA"), "METADATA")
    BY <1>1, StepFields DEF UnitStates
  <2>2. /\ UnitType(u') /\ u'.done = FALSE
        /\ u'.state = "IDLE" \/ (u'.state = "METADATA" /\ u'.exp = 0)
    <3>1. CASE rdfifo_empty
      BY <1>2, <2>1, <3>1 DEF DecompStart, SameBut
    <3>2. CASE ~ rdfifo_empty
      <4>1. u' = [Step("METADATA") EXCEPT !.exp = 0]
        BY <1>2, <3>2 DEF DecompStart
      <4> QED BY <2>1, <4>1 DEF SameBut, UnitType
    <3> QED BY <3>1, <3>2
  <2> QED BY <1>1, <1>2, <2>2 DEF DecompStart, PutNothing, UnitKept, Pushed
<1>3. CASE Metadata
  <2>1. /\ SameBut(Reading("METADATA"), "METADATA")
        /\ SameBut(Reading("BUS_ERROR"), "BUS_ERROR")
        /\ SameBut(Reading("EXPAND"), "EXPAND")
    BY <1>1, StepFields DEF UnitStates
  <2>2. Bits(fifo.r.data) \in SUBSET Chunks
    BY DEF Bits
  <2>3. /\ u.state = "METADATA" /\ u.exp = 0 /\ Len(wfifo) = 0 /\ wfifo' = wfifo
    BY <1>3 DEF Metadata, Pushed, PutNothing
  <2>4. /\ UnitType(u') /\ u'.done = FALSE /\ u'.exp = 0
        /\ u'.state \in {"METADATA", "BUS_ERROR", "EXPAND"}
    BY <1>3, <2>1, <2>2, <2>3 DEF Metadata, SameBut, UnitType
  <2> QED BY <1>1, <2>3, <2>4, Lengths DEF UnitKept, Pushed
<1>4. CASE Expand
  <2>1. /\ SameBut(Step("DONE"), "DONE") /\ SameBut(Step("FILL_ZEROS"), "FILL_ZEROS")
        /\ SameBut(Step("LD_FIFO_RDPTR"), "LD_FIFO_RDPTR")
    BY <1>1, StepFields DEF UnitStates
  <2>2. /\ UnitType(u') /\ u'.done = FALSE /\ u'.exp = u.exp /\ u'.cnt = 0
        /\ \/ u.exp = 4 /\ u'.state = "DONE"
           \/ u.exp # 4 /\ u'.state \in {"FILL_ZEROS", "LD_FIFO_RDPTR"}
    <3>1. CASE u.exp = 4
      BY <1>1, <1>4, <2>1, <3>1 DEF Expand, SameBut, UnitType
    <3>2. CASE u.exp # 4 /\ u.exp \in u.vec
      BY <1>1, <1>4, <2>1, <3>2 DEF Expand, SameBut, UnitType
    <3>3. CASE u.exp # 4 /\ u.exp \notin u.vec
      BY <1>1, <1>4, <2>1, <3>3 DEF Expand, SameBut, UnitType
    <3> QED BY <3>1, <3>2, <3>3
  <2>3. Len(wfifo) = u.exp * ChunkLen /\ wfifo' = wfifo
    BY <1>4 DEF Expand, Pushed, PutNothing
  <2> QED BY <1>1, <2>2, <2>3, Lengths DEF UnitKept, Pushed, BurstLen
<1>5. CASE FillZeros
  <2>1. SameBut(Step("FILL_ZEROS"), "FILL_ZEROS")
    BY <1>1, StepFields DEF UnitStates
  <2>2. /\ UnitType(u') /\ u'.done = FALSE /\ u'.exp = u.exp /\ u'.cnt = u.cnt + 1
        /\ u'.state = "FILL_ZEROS"
    BY <1>1, <1>5, <2>1 DEF FillZeros, SameBut, UnitType
  <2>3. wfifo' \in Seq(Contents) /\ Len(wfifo') = Len(wfifo) + 1
    <3>1. 0 \in Contents
      BY DEF Contents
    <3> QED BY <1>5, <3>1, PutStep DEF FillZeros
  <2>4. u.cnt < ChunkLen /\ u.exp < 4 /\ Len(wfifo) = u.exp * ChunkLen + u.cnt
    BY <1>5 DEF FillZeros, Pushed
  <2> QED BY <1>1, <2>2, <2>3, <2>4, Lengths DEF UnitKept, Pushed
<1>6. CASE ChunkDone
  <2>1. /\ SameBut(Step("EXPAND"), "EXPAND") /\ SameBut(Reading("EXPAND"), "EXPAND")
    BY <1>1, StepFields DEF UnitStates
  <2>2. /\ u.exp < 4 /\ u.cnt = ChunkLen /\ wfifo' = wfifo
        /\ Len(wfifo) = u.exp * ChunkLen + ChunkLen
    BY <1>6 DEF ChunkDone, Pushed, PutNothing
  <2>3. /\ UnitType(u') /\ u'.done = FALSE /\ u'.exp = u.exp + 1 /\ u'.state = "EXPAND"
    <3>1. u.exp + 1 \in 0 .. 4
      BY <1>1, <2>2
    <3>2. CASE u' = [Step("EXPAND") EXCEPT !.exp = u.exp + 1]
      BY <2>1, <3>1, <3>2 DEF SameBut, UnitType
    <3>3. CASE u' = [Reading("EXPAND") EXCEPT !.exp = u.exp + 1]
      BY <2>1, <3>1, <3>3 DEF SameBut, UnitType
    <3> QED BY <1>6, <2>1, <3>2, <3>3 DEF ChunkDone, SameBut
  <2>4. (u.exp + 1) * ChunkLen = u.exp * ChunkLen + ChunkLen
    BY <1>1, Lengths
  <2> QED BY <1>1, <2>2, <2>3, <2>4 DEF UnitKept, Pushed
<1>7. CASE LdRdptr
  <2>1. /\ SameBut(Step("LD_FIFO_RDPTR"), "LD_FIFO_RDPTR")
        /\ SameBut(Step("FIFO_READ_TRNSFR"), "FIFO_READ_TRNSFR")
    BY <1>1, StepFields DEF UnitStates
  <2>2. /\ UnitType(u') /\ u'.done = FALSE /\ u'.exp = u.exp /\ u'.cnt = u.cnt
        /\ u'.state \in {"LD_FIFO_RDPTR", "FIFO_READ_TRNSFR"}
    BY <1>7, <2>1 DEF LdRdptr, SameBut, UnitType
  <2>3. /\ u.exp < 4 /\ u.cnt = 0 /\ wfifo' = wfifo /\ Len(wfifo) = u.exp * ChunkLen
    BY <1>7 DEF LdRdptr, Pushed, PutNothing
  <2> QED BY <1>1, <2>2, <2>3, Lengths DEF UnitKept, Pushed
<1>8. CASE Transfer("FIFO_READ_TRNSFR", ChunkLen)
  BY <1>8, TransferStep, Lengths DEF UnitStates
<1>9. CASE Finished
  BY <1>9, FinishedStep
<1> QED BY <1>2, <1>3, <1>4, <1>5, <1>6, <1>7, <1>8, <1>9 DEF DecompCycle

LEMMA CycleStep ==
  ASSUME IInv, Cycle
  PROVE  IInv'
<1>1. /\ Types /\ w.state = "IDLE" /\ ~ u.done
      /\ UNCHANGED <<phase, page, source, w, target>>
      /\ FifoCycle /\ (Beat \/ NoBeat) /\ UnitCycle
  BY DEF IInv, Cycle
<1>2. phase # "END" /\ Pushed /\ target = << >> /\ w.owed = 0 /\ w.pending = 1
  BY <1>1 DEF IInv, UnitInv, UnitCycle
<1>3. UnitKept
  BY <1>1, <1>2, CompressorStep, MigratorStep, DecompressorStep DEF UnitCycle
<1>4. FifoType(fifo') /\ arrived' \in 0 .. Len(source')
  BY <1>1, FifoStep, BeatStep
<1>5. Types'
  BY <1>1, <1>3, <1>4 DEF Types, UnitKept, FifoType, UnitType, WriterType
<1> QED BY <1>1, <1>2, <1>3, <1>5 DEF IInv, UnitInv, WriterInv, EndInv, UnitKept

-----------------------------------------------------------------------------
(* A step of the writer, if its counter can hold a page's writes.          *)
Fits == PageLen + 2 < 128

LEMMA PostFields ==
  ASSUME Types, Fits, Counted, posted <= PageLen,
         NEW s \in {"TRNSFR", "ZS_PAGE_UPDATE_DATA"}
  PROVE  /\ WriterType(Post(s)) /\ Post(s).state = s /\ Post(s).burst = w.burst
         /\ Post(s).pending = w.pending + 1 /\ Post(s).owed = w.owed + 1
<1>1. w.pending \in Int /\ w.owed \in Nat /\ w.burst \in Nat /\ Len(target) \in Nat
  BY DEF Types, WriterType
<1>2. 0 <= w.pending + 1 /\ w.pending + 1 < 128
  BY <1>1, Lengths DEF Fits, Counted, posted
<1>3. (w.pending + 1) % 128 = w.pending + 1
  BY <1>1, <1>2
<1>4. Post(s) = [w EXCEPT !.state = s, !.pending = w.pending + 1, !.owed = w.owed + 1]
  BY <1>3 DEF Post
<1>5. w.owed + 1 \in Nat /\ w.pending + 1 \in Int
  BY <1>1
<1> QED BY <1>1, <1>4, <1>5 DEF Types, WriterType

(* What has to be shown of a step of the writer.                           *)
WriterKept ==
  /\ UnitType(u') /\ WriterType(w') /\ wfifo' \in Seq(Contents)
  /\ target' \in Seq(Contents)
  /\ w'.state # "IDLE" /\ phase # "END"
  /\ u'.state = "IDLE" /\ ~ u'.done /\ ~ u'.incompressible
  /\ Addressed' /\ Counted' /\ Len(target') <= Len(wfifo')

LEMMA StartStep ==
  ASSUME IInv, StartWriter, UNCHANGED phase
  PROVE  WriterKept
<1>1. /\ phase # "END" /\ Len(wfifo) = BurstLen /\ target = << >> /\ w.owed = 0
      /\ w.pending = 1 /\ WriterType(w) /\ Types
  BY DEF IInv, StartWriter, UnitInv, EndInv, Pushed, Types
<1>2. /\ WriterType(w') /\ w'.state = "TRNSFR" /\ w'.burst = 0
      /\ w'.owed = 0 /\ w'.pending = 1
  BY <1>1 DEF StartWriter, WriterType
<1>3. Len(target) = 0 /\ target' = target /\ wfifo' = wfifo /\ BurstLen' = BurstLen
  BY <1>1 DEF StartWriter, BurstLen
<1>4. UnitType(u') /\ u'.state = "IDLE" /\ ~ u'.done /\ ~ u'.incompressible
  BY IdleTypes DEF StartWriter, IdleUnit
<1> QED BY <1>1, <1>2, <1>3, <1>4, Lengths
        DEF WriterKept, Types, Addressed, Counted, posted

LEMMA WritingStep ==
  ASSUME IInv, Fits, UNCHANGED phase,
         SendAddr \/ BurstSent \/ SendMdAddr \/ SendMd
  PROVE  WriterKept
<1>1. /\ phase # "END" /\ u.state = "IDLE" /\ ~ u.done /\ ~ u.incompressible
      /\ w.state # "IDLE" /\ Addressed /\ Counted /\ Len(target) <= Len(wfifo) /\ Types
  BY DEF IInv, WriterInv, SendAddr, BurstSent, SendMdAddr, SendMd
<1>2. /\ u' = u /\ target' = target /\ BurstLen' = BurstLen
  BY DEF SendAddr, BurstSent, SendMdAddr, SendMd, BurstLen
<1>3. /\ w.pending \in Int /\ w.owed \in Nat /\ w.burst \in Nat
      /\ Len(target) \in Nat /\ Len(wfifo) \in Nat
      /\ wfifo \in Seq(Contents) /\ target \in Seq(Contents)
      /\ UnitType(u) /\ WriterType(w)
  BY <1>1 DEF Types, WriterType
<1>4. CASE SendAddr
  <2>1. w.state = "TRNSFR" /\ w.burst < BurstLen /\ posted = w.burst
    BY <1>1, <1>4 DEF SendAddr, Addressed
  <2>2. posted <= PageLen
    BY <1>3, <2>1, Lengths
  <2>3. /\ WriterType(w') /\ w'.state = "TRNSFR" /\ w'.burst = w.burst + 1
        /\ w'.pending = w.pending + 1 /\ w'.owed = w.owed + 1
    <3>1. /\ WriterType(Post("TRNSFR")) /\ Post("TRNSFR").state = "TRNSFR"
          /\ Post("TRNSFR").burst = w.burst
          /\ Post("TRNSFR").pending = w.pending + 1 /\ Post("TRNSFR").owed = w.owed + 1
      BY <1>1, <2>2, PostFields
    <3>2. w.burst + 1 \in Nat
      BY <1>3
    <3> QED BY <1>4, <3>1, <3>2 DEF SendAddr, WriterType
  <2>4. wfifo' = wfifo
    BY <1>4 DEF SendAddr
  <2>5. Addressed' /\ Len(target') <= Len(wfifo')
    <3>1. w'.burst <= BurstLen'
      BY <1>2, <1>3, <2>1, <2>3, Lengths
    <3>2. posted' = w'.burst
      BY <1>2, <1>3, <2>1, <2>3 DEF posted
    <3>3. Len(wfifo') = BurstLen' /\ Len(target') <= Len(wfifo')
      BY <1>1, <1>2, <2>1, <2>4 DEF Addressed
    <3> QED BY <2>3, <3>1, <3>2, <3>3 DEF Addressed
  <2>6. Counted'
    BY <1>1, <1>2, <1>3, <2>3, <2>4 DEF Counted, posted
  <2> QED BY <1>1, <1>2, <1>3, <2>3, <2>4, <2>5, <2>6 DEF WriterKept
<1>5. CASE BurstSent
  <2>1. w.state = "TRNSFR" /\ w.burst = BurstLen /\ wfifo' = wfifo
    BY <1>5 DEF BurstSent
  <2>2. /\ WriterType(w') /\ w'.state \in {"WAIT_BRESP", "ZS_PAGE_UPDATE_ADDR"}
        /\ w'.burst = w.burst /\ w'.pending = w.pending /\ w'.owed = w.owed
    BY <1>3, <1>5 DEF BurstSent, WriterType
  <2> QED BY <1>1, <1>2, <1>3, <2>1, <2>2, Lengths
          DEF WriterKept, Addressed, Counted, posted
<1>6. CASE SendMdAddr
  <2>1. w.state = "ZS_PAGE_UPDATE_ADDR" /\ posted = BurstLen /\ wfifo' = wfifo
    BY <1>1, <1>6 DEF SendMdAddr, Addressed
  <2>2. /\ WriterType(w') /\ w'.state = "ZS_PAGE_UPDATE_DATA"
        /\ w'.pending = w.pending + 1 /\ w'.owed = w.owed + 1
    BY <1>1, <1>6, <2>1, PostFields, Lengths DEF SendMdAddr
  <2> QED BY <1>1, <1>2, <1>3, <2>1, <2>2, Lengths
          DEF WriterKept, Addressed, Counted, posted
<1>7. CASE SendMd
  <2>1. w.state = "ZS_PAGE_UPDATE_DATA" /\ Len(wfifo) = BurstLen
    BY <1>1, <1>7 DEF SendMd, Addressed
  <2>2. /\ WriterType(w') /\ w'.state = "WAIT_BRESP"
        /\ w'.pending = w.pending /\ w'.owed = w.owed
    BY <1>3, <1>7 DEF SendMd, WriterType
  <2>3. /\ wfifo' = Append(wfifo, Md) /\ wfifo' \in Seq(Contents)
        /\ Len(wfifo') = Len(wfifo) + 1
    <3>1. Md \in Contents
      BY DEF Md, Contents
    <3> QED BY <1>3, <1>7, <3>1 DEF SendMd, Put
  <2>4. \A i \in 1 .. Len(target) : wfifo'[i] = wfifo[i]
    BY <1>1, <1>3, <2>3
  <2>5. Addressed' /\ Len(target') <= Len(wfifo')
    BY <1>1, <1>2, <1>3, <2>1, <2>2, <2>3, Lengths DEF Addressed, posted
  <2>6. Counted'
    BY <1>1, <1>2, <1>3, <2>2, <2>4 DEF Counted, posted
  <2> QED BY <1>1, <1>2, <1>3, <2>2, <2>3, <2>5, <2>6 DEF WriterKept
<1> QED BY <1>4, <1>5, <1>6, <1>7

LEMMA ResponseStep ==
  ASSUME IInv, Fits, UNCHANGED phase, NEW good \in BOOLEAN, Response(good)
  PROVE  WriterKept
<1>1. /\ w.owed > 0 /\ Len(target) < Len(wfifo) /\ u' = u /\ wfifo' = wfifo
      /\ w' = [w EXCEPT !.owed = @ - 1, !.pending = IF good THEN (@ - 1) % 128 ELSE @]
      /\ target' = Append(target, IF good THEN wfifo[Len(target) + 1] ELSE Junk)
      /\ BurstLen' = BurstLen
  BY DEF Response, BurstLen
<1>2. /\ Types /\ w.pending \in Int /\ w.owed \in Nat /\ w.burst \in Nat
      /\ Len(target) \in Nat /\ Len(wfifo) \in Nat
      /\ wfifo \in Seq(Contents) /\ target \in Seq(Contents)
      /\ UnitType(u) /\ WriterType(w)
  BY DEF IInv, Types, WriterType
<1>3. /\ w.state # "IDLE" /\ phase # "END"
      /\ u.state = "IDLE" /\ ~ u.done /\ ~ u.incompressible
      /\ Addressed /\ Counted
  BY <1>1, <1>2 DEF IInv, UnitInv, EndInv, WriterInv
<1>4. w.pending <= 2 + PageLen /\ posted = Len(target) + w.owed
  <2>1. w.state \in {"TRNSFR", "ZS_PAGE_UPDATE_ADDR", "ZS_PAGE_UPDATE_DATA", "WAIT_BRESP"}
    BY <1>2, <1>3 DEF WriterType
  <2>2. posted <= BurstLen + 1
    BY <1>2, <1>3, <2>1, Lengths DEF Addressed, posted
  <2> QED BY <1>2, <1>3, <2>2, Lengths DEF Counted, posted
<1> DEFINE line == IF good THEN wfifo[Len(target) + 1] ELSE Junk
           pending == IF good THEN w.pending - 1 ELSE w.pending
<1>5. /\ WriterType(w') /\ w'.state = w.state /\ w'.burst = w.burst
      /\ w'.owed = w.owed - 1 /\ w'.pending = pending
  <2>1. (w.pending - 1) % 128 = w.pending - 1
    <3>1. w.pending - 1 \in Int /\ 0 <= w.pending - 1 /\ w.pending - 1 < 128
      <4>1. 1 <= w.owed /\ 1 + w.owed <= w.pending /\ PageLen + 2 < 128
        BY <1>1, <1>2, <1>3 DEF Counted, Fits
      <4> QED BY <1>2, <1>4, <4>1, Lengths
    <3> QED BY <3>1
  <2>2. w' = [w EXCEPT !.owed = w.owed - 1, !.pending = pending]
    <3>1. CASE good
      BY <1>1, <2>1, <3>1
    <3>2. CASE ~ good
      <4>1. w' = [w EXCEPT !.owed = @ - 1, !.pending = @]
        BY <1>1, <3>2
      <4> QED BY <3>2, <4>1
    <3> QED BY <3>1, <3>2
  <2>3. w.owed - 1 \in Nat /\ pending \in Int
    BY <1>1, <1>2
  <2> HIDE DEF pending
  <2> QED BY <1>2, <2>2, <2>3 DEF WriterType
<1>6. /\ target' = Append(target, line) /\ target' \in Seq(Contents)
      /\ Len(target') = Len(target) + 1
  <2>1. line \in Contents
    BY <1>1, <1>2 DEF Junk, Contents
  <2>2. target' = Append(target, line)
    BY <1>1
  <2> HIDE DEF line
  <2> QED BY <1>2, <2>1, <2>2
<1> HIDE DEF line, pending
<1>7. posted' = posted
  <2>1. posted' = (Len(target) + 1) + (w.owed - 1)
    BY <1>5, <1>6 DEF posted
  <2>2. \A a, b \in Int : (a + 1) + (b - 1) = a + b
    OBVIOUS
  <2>3. Len(target) \in Int /\ w.owed \in Int
    BY <1>2
  <2> QED BY <2>1, <2>2, <2>3 DEF posted
<1>8. Addressed'
  <2>1. /\ w.state = "TRNSFR" => posted' = w'.burst /\ w'.burst <= BurstLen'
        /\ w.state = "ZS_PAGE_UPDATE_ADDR" => posted' = BurstLen'
        /\ w.state = "ZS_PAGE_UPDATE_DATA" => posted' = BurstLen' + 1
        /\ w.state = "WAIT_BRESP" => posted' = Len(wfifo')
    BY <1>1, <1>3, <1>5, <1>7 DEF Addressed
  <2> QED BY <1>1, <1>3, <1>5, <2>1 DEF Addressed
<1>9. Counted'
  <2>1. 1 + w'.owed <= w'.pending /\ w'.pending <= 1 + posted'
    BY <1>1, <1>2, <1>3, <1>4, <1>5, <1>7 DEF Counted, pending
  <2>2. ASSUME w'.pending = 1 + w'.owed, NEW i \in 1 .. Len(target')
        PROVE  target'[i] = wfifo'[i]
    <3>1. good
      BY <1>1, <1>2, <1>3, <1>5, <2>2 DEF Counted, pending
    <3>2. w.pending = 1 + w.owed
      BY <1>2, <1>5, <2>2, <3>1 DEF pending
    <3>3. CASE i \in 1 .. Len(target)
      BY <1>1, <1>2, <1>3, <1>6, <3>2, <3>3 DEF Counted
    <3>4. CASE i = Len(target) + 1
      BY <1>1, <1>2, <1>6, <3>1, <3>4 DEF line
    <3> QED BY <1>2, <1>6, <2>2, <3>3, <3>4
  <2> QED BY <2>1, <2>2 DEF Counted
<1> QED BY <1>1, <1>2, <1>3, <1>5, <1>6, <1>8, <1>9 DEF WriterKept

LEMMA WriterStepKeeps ==
  ASSUME IInv, Fits, WriterStep
  PROVE  IInv'
<1>1. UNCHANGED <<phase, page, source, arrived, since, fifo>> /\ Types
  BY DEF WriterStep, IInv
<1>2. WriterKept
  BY <1>1, StartStep, WritingStep, ResponseStep DEF WriterStep
<1>3. Types'
  BY <1>1, <1>2 DEF Types, WriterKept, FifoType
<1> QED BY <1>1, <1>2, <1>3 DEF WriterKept, IInv, UnitInv, WriterInv, EndInv

(* When its count is back at one, all that was pushed is in memory.        *)
LEMMA Written == IInv => DoneMeansWritten
<1> SUFFICES ASSUME IInv, w.state = "WAIT_BRESP", w.pending = 1
             PROVE  w.owed = 0 /\ target = wfifo
  BY DEF DoneMeansWritten
<1>1. /\ w.owed \in Nat /\ Len(target) \in Nat /\ Len(wfifo) \in Nat
      /\ wfifo \in Seq(Contents) /\ target \in Seq(Contents)
  BY DEF IInv, Types, WriterType
<1>2. Counted /\ posted = Len(wfifo)
  BY DEF IInv, WriterInv, Addressed
<1>3. w.owed = 0 /\ Len(target) = Len(wfifo)
  BY <1>1, <1>2 DEF Counted, posted
<1>4. \A i \in 1 .. Len(target) : target[i] = wfifo[i]
  BY <1>2, <1>3 DEF Counted
<1> QED BY <1>1, <1>3, <1>4

LEMMA ManagerStepKeeps ==
  ASSUME IInv, ManagerStep
  PROVE  IInv'
<1>1. Types
  BY DEF IInv
<1>2. CASE Incompressible
  <2>1. Types'
    BY <1>1, <1>2, IdleTypes DEF Incompressible, Types, FifoType, WriterType
  <2>2. /\ phase' = "END" /\ ~ u'.done /\ u'.state = "IDLE" /\ wfifo' = wfifo
        /\ w' = w /\ target' = target
    BY <1>2 DEF Incompressible, IdleUnit
  <2>3. w.state = "IDLE" /\ w.owed = 0
    BY <1>2 DEF Incompressible, IInv, UnitInv, WriterInv, EndInv
  <2> QED BY <2>1, <2>2, <2>3 DEF IInv, UnitInv, WriterInv, EndInv
<1>3. ASSUME NEW next \in {"MIGRATE", "DECOMPRESS", "END"}, NextTransfer(next)
      PROVE  IInv'
  <2>1. /\ w.state = "WAIT_BRESP" /\ w.pending = 1 /\ phase' = next
        /\ w' = IdleWriter /\ wfifo' = << >> /\ u' = u
    BY <1>3 DEF NextTransfer
  <2>2. /\ u.state = "IDLE" /\ ~ u.done /\ target = wfifo
        /\ Len(wfifo) >= SlotLen /\ target \in Seq(Contents)
    BY <2>1, Written, Lengths DEF IInv, WriterInv, Addressed, DoneMeansWritten, Types
  <2>3. /\ WriterType(w') /\ w'.state = "IDLE" /\ w'.owed = 0 /\ w'.pending = 1
        /\ wfifo' \in Seq(Contents) /\ Len(wfifo') = 0
    BY <2>1, IdleTypes DEF IdleWriter
  <2>4. CASE next = "END"
    <3>1. Types'
      BY <1>1, <1>3, <2>1, <2>3, <2>4 DEF NextTransfer, Types, FifoType, UnitType
    <3> QED BY <2>1, <2>2, <2>3, <2>4, <3>1 DEF IInv, UnitInv, WriterInv, EndInv
  <2>5. CASE next # "END"
    <3> DEFINE slot == SubSeq(target, 1, SlotLen)
    <3>1. slot \in Seq(Contents) /\ Len(slot) = SlotLen
      <4>1. \A i \in 1 .. SlotLen : target[i] \in Contents
        BY <2>2, Lengths
      <4> QED BY <4>1, SubSeqProperties, Lengths
    <3>2. PICK bad \in BadLine(slot) : source' = Answers(slot, bad)
      BY <1>3, <2>5 DEF NextTransfer
    <3>3. /\ arrived' \in Early .. SlotLen - 1 /\ fifo' = EmptyFifo /\ target' = << >>
      BY <1>3, <2>5 DEF NextTransfer
    <3>4. source' \in Seq(Lines) /\ Len(source') = SlotLen
      BY <3>1, <3>2, AnswersType
    <3>5. arrived' \in 0 .. Len(source')
      BY <3>3, <3>4, StreamAssumption, Lengths
    <3>6. Types'
      BY <1>1, <2>1, <2>3, <3>3, <3>4, <3>5, IdleTypes DEF Types, FifoType, UnitType
    <3>7. Pushed'
      BY <2>1, <2>2, <2>3 DEF Pushed
    <3> QED BY <2>1, <2>2, <2>3, <2>5, <3>3, <3>6, <3>7
            DEF IInv, UnitInv, WriterInv, EndInv
  <2> QED BY <2>4, <2>5
<1> QED BY <1>2, <1>3 DEF ManagerStep

-----------------------------------------------------------------------------
LEMMA StepKeeps ==
  ASSUME IInv, Fits, [Next]_vars
  PROVE  IInv'
<1>1. CASE Cycle
  BY <1>1, CycleStep
<1>2. CASE WriterStep
  BY <1>2, WriterStepKeeps
<1>3. CASE ManagerStep
  BY <1>3, ManagerStepKeeps
<1>4. CASE Stopped \/ UNCHANGED vars
  <2>1. UNCHANGED vars
    BY <1>4 DEF Stopped
  <2> QED BY <2>1 DEF vars, IInv, Types, FifoType, UnitType, WriterType, UnitInv,
                      Pushed, WriterInv, Addressed, Counted, posted, EndInv, BurstLen
<1> QED BY <1>1, <1>2, <1>3, <1>4 DEF Next

(* When the page writer tells the managers that a transfer is written, all *)
(* of it is in memory, if the counter of posted writes can hold a page's   *)
(* lines and two more, as seven bits do with pages of 64 lines.            *)
THEOREM WritesAreCounted ==
  ASSUME Fits
  PROVE  Spec => []DoneMeansWritten
<1>1. Init => IInv
  BY InitStep
<1>2. IInv /\ [Next]_vars => IInv'
  BY StepKeeps
<1>3. IInv => DoneMeansWritten
  BY Written
<1> QED BY <1>1, <1>2, <1>3, PTL DEF Spec

(* A unit that says it is done has pushed as many lines as the writer, who *)
(* is told nothing of their number, sends addresses for.                   *)
BurstIsFilled == u.done => Len(wfifo) = BurstLen

THEOREM BurstsAreFilled ==
  ASSUME Fits
  PROVE  Spec => []BurstIsFilled
<1>1. Init => IInv
  BY InitStep
<1>2. IInv /\ [Next]_vars => IInv'
  BY StepKeeps
<1>3. IInv => BurstIsFilled
  BY DEF IInv, UnitInv, WriterInv, EndInv, Pushed, BurstIsFilled
<1> QED BY <1>1, <1>2, <1>3, PTL DEF Spec

-----------------------------------------------------------------------------
(* What the lines are.  A page that fits one chunk fits the first: for any *)
(* other the pointer of the compressor's second pass is a line short.      *)
FirstOnly ==
  \A p \in Pages :
    (\E k \in Chunks : \A i \in 1 .. PageLen :
        i <= k * ChunkLen \/ i > (k + 1) * ChunkLen => p[i] = 0)
      => \A i \in ChunkLen + 1 .. PageLen : p[i] = 0

(* The page fits the first chunk.                                          *)
Small == {1, 2, 3} \subseteq ZeroChunks

(* Between a unit that has taken c lines since the pointer was where it    *)
(* counts from, and the pointer: the lines in q and r, and no others; or   *)
(* a line was popped that nobody asked for any longer.                     *)
B(b) == IF b THEN 1 ELSE 0
Exact(c) ==
  /\ fifo.rd = c + B(fifo.q_valid) + B(fifo.valid)
  /\ fifo.q_valid => fifo.q = source[fifo.rd]
  /\ fifo.valid => fifo.r = source[c + 1]
Short(c) == fifo.rd > c + B(fifo.q_valid) + B(fifo.valid)
Tracks ==
  /\ ~ u.ld /\ fifo.rd <= arrived /\ (fifo.valid => u.send)
  /\ u.rd_req => fifo.addr = fifo.rd
Quiet == ~ u.rd_req /\ ~ fifo.q_valid /\ ~ fifo.valid
Fresh == Quiet /\ ~ u.ld /\ u.send /\ fifo.rd = 0

(* What has been pushed: the first n lines of the slot, or of the page.    *)
Filled(n) == \A i \in 1 .. n : wfifo[i] = Compressed[i]
Restored == \A i \in 1 .. Len(wfifo) : wfifo[i] = page[i]

(* The compressor's first pass finds all lines there and so never stops    *)
(* asking: the pipeline fills, runs, and is empty at the end.              *)
Streaming ==
  /\ ~ u.ld
  /\ \/ /\ u.cnt = 0 /\ fifo.rd = 0 /\ u.send /\ ~ fifo.q_valid /\ ~ fifo.valid
        /\ u.rd_req => fifo.addr = 0
     \/ /\ u.cnt = 0 /\ fifo.rd = 1 /\ fifo.addr = 1 /\ u.send /\ u.rd_req
        /\ fifo.q_valid /\ fifo.q = source[1] /\ ~ fifo.valid
     \/ /\ u.cnt <= PageLen - 2 /\ fifo.rd = u.cnt + 2 /\ fifo.addr = fifo.rd
        /\ u.send /\ u.rd_req /\ fifo.q_valid /\ fifo.q = source[u.cnt + 2]
        /\ fifo.valid /\ fifo.r = source[u.cnt + 1]
     \/ /\ u.cnt = PageLen - 1 /\ fifo.rd = PageLen /\ u.send /\ ~ u.rd_req
        /\ ~ fifo.q_valid /\ fifo.valid /\ fifo.r = source[PageLen]
     \/ u.cnt = PageLen /\ fifo.rd = PageLen /\ Quiet
Drained == fifo.rd = PageLen /\ Quiet /\ u.send /\ ~ u.ld

(* It counts in chunk m: z - p of the c lines so far in it are zero, and   *)
(* vec has the chunks before it that are.                                  *)
CountsTo(m, c, z, p, vec) ==
  /\ m * ChunkLen <= c /\ c <= (m + 1) * ChunkLen
  /\ 0 <= z - p /\ z - p <= c - m * ChunkLen
  /\ z - p = c - m * ChunkLen <=> \A i \in m * ChunkLen + 1 .. c : page[i] = 0
  /\ vec = {k \in ZeroChunks : k < m}
Counts ==
  \E m \in Chunks : /\ m = 0 \/ m * ChunkLen < u.cnt
                    /\ CountsTo(m, u.cnt, u.zeros, u.prev, u.vec)

(* Compressor, migrator and decompressor, place by place.                  *)
CompPlaces ==
  /\ u.state = "IDLE" => u.incompressible \/ Fresh
  /\ u.state = "COMP_CHECK1" => Streaming /\ Counts
  /\ u.state \in {"COMP_CHECK2", "COMPRESS", "LOAD_FIFO_RDPTR"} =>
       Drained /\ u.vec = ZeroChunks
  /\ u.state \in {"COMPRESS", "LOAD_FIFO_RDPTR", "FIFO_READ_TRNSFR"} => Small
  /\ u.state = "LOAD_FIFO_RDPTR" => Filled(1)
  /\ u.state = "FIFO_READ_TRNSFR" =>
       /\ Filled(1 + u.cnt)
       /\ \/ u.cnt = 0 /\ u.ld /\ u.ptr = 0 /\ fifo.rd = PageLen /\ Quiet /\ u.send
          \/ /\ ~ u.ld /\ u.send /\ Exact(u.cnt) /\ (u.rd_req => fifo.addr = fifo.rd)
             /\ u.rd_req \/ Quiet
  /\ u.state = "DONE" => Small /\ Filled(SlotLen)

(* While the page is compressed.                                           *)
CompInv ==
  /\ page \in Pages
  /\ phase = "COMPRESS" =>
       /\ Len(source) = PageLen /\ arrived = PageLen
       /\ \A i \in 1 .. PageLen : source[i].data = page[i]
       /\ w.state = "IDLE" => CompPlaces
       /\ w.state # "IDLE" => Small /\ Filled(SlotLen)

MigPlaces ==
  /\ u.state = "IDLE" => Fresh
  /\ u.state = "FIFO_TRNSFR" =>
       Tracks /\ ((Exact(u.cnt) /\ Filled(u.cnt)) \/ Short(u.cnt))
  /\ u.state = "DONE" => Filled(SlotLen)

DecPlaces ==
  /\ u.state = "IDLE" => Fresh
  /\ u.state = "METADATA" =>
       /\ ~ u.ld /\ u.send /\ (u.rd_req => fifo.addr = fifo.rd)
       /\ \/ Quiet /\ fifo.rd = 0
          \/ u.rd_req /\ Exact(0) /\ (fifo.valid => fifo.q_valid)
  /\ u.state \in {"EXPAND", "LD_FIFO_RDPTR", "FILL_ZEROS", "FIFO_READ_TRNSFR"} =>
       u.vec = ZeroChunks
  /\ u.state \in {"EXPAND", "FILL_ZEROS", "DONE"} => Restored
  /\ u.state = "EXPAND" /\ u.exp = 0 =>
       fifo.valid /\ fifo.q_valid /\ u.rd_req /\ ~ u.ld /\ u.send
  /\ u.state = "FILL_ZEROS" => u.exp \in ZeroChunks
  /\ u.state = "LD_FIFO_RDPTR" =>
       /\ u.exp = 0 /\ ~ u.rd_req
       /\ fifo.valid \/ (~ fifo.q_valid /\ u.ld /\ u.ptr = 1)
  /\ u.state = "FIFO_READ_TRNSFR" =>
       /\ u.exp = 0
       /\ \/ u.cnt = 0 /\ u.ld /\ u.ptr = 1 /\ fifo.rd = 1 /\ Quiet
          \/ Tracks /\ ((Exact(1 + u.cnt) /\ Restored) \/ Short(1 + u.cnt))

(* What the other transfers read is the compressed page, three lines of it *)
(* or more from the start; what they write is the slot, and the page.      *)
FlowInv ==
  /\ w.state # "IDLE" => u = IdleUnit
  /\ phase \in {"MIGRATE", "DECOMPRESS"} =>
       /\ Small /\ Len(source) = SlotLen /\ arrived >= 3
       /\ \A i \in 1 .. SlotLen : source[i].data = Compressed[i]
  /\ phase = "MIGRATE" => IF w.state = "IDLE" THEN MigPlaces ELSE Filled(SlotLen)
  /\ phase = "DECOMPRESS" =>
       IF w.state = "IDLE" THEN DecPlaces
       ELSE \A i \in 1 .. PageLen : wfifo[i] = page[i]
  /\ phase = "END" => PageRestored

-----------------------------------------------------------------------------
LEMMA PageLines ==
  ASSUME page \in Pages
  PROVE  /\ page \in Seq(Nat) /\ Len(page) = PageLen
         /\ \A i \in 1 .. PageLen : page[i] \in Nat
BY StreamAssumption, Lengths

LEMMA ChunkLines ==
  ASSUME page \in Pages, NEW k \in Chunks
  PROVE  /\ ChunkOf(k) \in Seq(Nat) /\ Len(ChunkOf(k)) = ChunkLen
         /\ \A i \in 1 .. ChunkLen : ChunkOf(k)[i] = page[k * ChunkLen + i]
         /\ k \in ZeroChunks <=>
              \A i \in k * ChunkLen + 1 .. (k + 1) * ChunkLen : page[i] = 0
<1> DEFINE lo == k * ChunkLen + 1
           hi == (k + 1) * ChunkLen
<1>1. /\ lo \in Int /\ hi \in Int /\ 1 <= lo /\ hi <= PageLen /\ hi - lo + 1 = ChunkLen
      /\ lo <= hi
  <2>1. k \in {0, 1, 2, 3}
    BY DEF Chunks
  <2>2. CASE k = 0  BY <2>2, Lengths
  <2>3. CASE k = 1  BY <2>3, Lengths
  <2>4. CASE k = 2  BY <2>4, Lengths
  <2>5. CASE k = 3  BY <2>5, Lengths
  <2> QED BY <2>1, <2>2, <2>3, <2>4, <2>5
<1>2. ChunkOf(k) = SubSeq(page, lo, hi)
  BY DEF ChunkOf
<1>3. lo = k * ChunkLen + 1 /\ k * ChunkLen \in Int
  BY Lengths DEF Chunks
<1> HIDE DEF lo, hi
<1>4. \A i \in lo .. hi : page[i] \in Nat
  BY <1>1, PageLines, Lengths
<1>5. /\ SubSeq(page, lo, hi) \in Seq(Nat)
      /\ Len(SubSeq(page, lo, hi)) = ChunkLen
      /\ \A i \in 1 .. hi - lo + 1 : SubSeq(page, lo, hi)[i] = page[lo + i - 1]
  BY <1>1, <1>4, SubSeqProperties
<1>6. \A i \in 1 .. ChunkLen : ChunkOf(k)[i] = page[k * ChunkLen + i]
  BY <1>1, <1>2, <1>3, <1>5, Lengths
<1>7. k \in ZeroChunks <=> \A i \in 1 .. ChunkLen : page[k * ChunkLen + i] = 0
  BY <1>6 DEF ZeroChunks
<1>8. (\A i \in 1 .. ChunkLen : page[k * ChunkLen + i] = 0)
        <=> \A i \in lo .. hi : page[i] = 0
  <2>1. ASSUME \A i \in 1 .. ChunkLen : page[k * ChunkLen + i] = 0, NEW i \in lo .. hi
        PROVE  page[i] = 0
    <3>1. i - k * ChunkLen \in 1 .. ChunkLen /\ k * ChunkLen + (i - k * ChunkLen) = i
      BY <1>1, <1>3, Lengths
    <3> QED BY <2>1, <3>1
  <2>2. ASSUME \A i \in lo .. hi : page[i] = 0, NEW i \in 1 .. ChunkLen
        PROVE  page[k * ChunkLen + i] = 0
    <3>1. k * ChunkLen + i \in lo .. hi
      BY <1>1, <1>3, Lengths
    <3> QED BY <2>2, <3>1
  <2> QED BY <2>1, <2>2
<1> QED BY <1>2, <1>5, <1>6, <1>7, <1>8 DEF lo, hi

LEMMA CompressedLines ==
  ASSUME page \in Pages, Small
  PROVE  /\ Compressed \in Seq(Contents) /\ Len(Compressed) = SlotLen
         /\ Compressed[1] = ChunkVec(ZeroChunks)
         /\ \A i \in 1 .. ChunkLen : Compressed[i + 1] = page[i]
<1> DEFINE k == IF ZeroChunks = Chunks THEN 0
                ELSE CHOOSE c \in Chunks \ ZeroChunks : TRUE
<1>1. ZeroChunks \subseteq Chunks /\ 0 \in Chunks
  BY DEF ZeroChunks, Chunks
<1>2. k = 0
  <2>1. CASE ZeroChunks = Chunks
    BY <2>1
  <2>2. CASE ZeroChunks # Chunks
    <3>1. Chunks = {0, 1, 2, 3}
      BY DEF Chunks
    <3>2. 1 \in ZeroChunks /\ 2 \in ZeroChunks /\ 3 \in ZeroChunks
      BY DEF Small
    <3>3. 0 \notin ZeroChunks
      BY <1>1, <2>2, <3>1, <3>2
    <3>4. Chunks \ ZeroChunks = {0}
      BY <3>1, <3>2, <3>3
    <3> QED BY <2>2, <3>4
  <2> QED BY <2>1, <2>2
<1> DEFINE v == ChunkVec(ZeroChunks)
           s == ChunkOf(k)
<1>3. Compressed = <<v>> \o s
  BY DEF Compressed
<1>4. v \in Contents
  BY <1>1 DEF Contents
<1>5. /\ s \in Seq(Nat) /\ Len(s) = ChunkLen
      /\ \A i \in 1 .. ChunkLen : s[i] = page[i]
  <2>1. \A i \in 1 .. ChunkLen : 0 * ChunkLen + i = i
    BY Lengths
  <2>2. /\ s \in Seq(Nat) /\ Len(s) = ChunkLen
        /\ \A i \in 1 .. ChunkLen : s[i] = page[0 * ChunkLen + i]
    <3>1. s = ChunkOf(0)
      BY <1>2
    <3> HIDE DEF k, s
    <3> QED BY <1>1, <3>1, ChunkLines
  <2> HIDE DEF k, s
  <2> QED BY <2>1, <2>2
<1> HIDE DEF v, s, k
<1>6. s \in Seq(Contents)
  <2>1. \A i \in 1 .. Len(s) : s[i] \in Contents
    BY <1>5 DEF Contents
  <2> QED BY <1>5, <2>1
<1>7. <<v>> \in Seq(Contents) /\ Len(<<v>>) = 1 /\ <<v>>[1] = v
  BY <1>4
<1>8. /\ Compressed \in Seq(Contents) /\ Len(Compressed) = 1 + Len(s)
      /\ \A i \in 1 .. 1 + Len(s) : Compressed[i] = IF i <= 1 THEN <<v>>[i] ELSE s[i - 1]
  BY <1>3, <1>6, <1>7, ConcatProperties
<1>9. Compressed[1] = v
  BY <1>5, <1>7, <1>8, Lengths
<1>10. ASSUME NEW i \in 1 .. ChunkLen PROVE Compressed[i + 1] = page[i]
  <2>1. i + 1 \in 1 .. 1 + Len(s) /\ ~ (i + 1 <= 1) /\ (i + 1) - 1 = i
    BY <1>5, Lengths
  <2>2. s[i] = page[i]
    BY <1>5, Lengths
  <2> QED BY <1>8, <2>1, <2>2
<1> QED BY <1>5, <1>8, <1>9, <1>10, Lengths DEF v

LEMMA MetadataBits ==
  ASSUME Small
  PROVE  Bits(ChunkVec(ZeroChunks)) = ZeroChunks
<1>1. 2 ^ 0 = 1 /\ 2 ^ 1 = 2 /\ 2 ^ 2 = 4 /\ 2 ^ 3 = 8
  OBVIOUS
<1>2. \A n \in 0 .. 15 : \A k \in Chunks : k \in Bits(n) <=> (n \div 2 ^ k) % 2 = 1
  BY DEF Bits
<1>3. Bits(14) = {1, 2, 3}
  <2>1. 0 \notin Bits(14) /\ 1 \in Bits(14) /\ 2 \in Bits(14) /\ 3 \in Bits(14)
    BY <1>1, <1>2 DEF Chunks
  <2>2. Bits(14) \subseteq {0, 1, 2, 3} /\ Chunks = {0, 1, 2, 3}
    BY DEF Bits, Chunks
  <2> QED BY <2>1, <2>2
<1>4. Bits(15) = Chunks
  <2>1. 0 \in Bits(15) /\ 1 \in Bits(15) /\ 2 \in Bits(15) /\ 3 \in Bits(15)
    BY <1>1, <1>2 DEF Chunks
  <2>2. Bits(15) \subseteq {0, 1, 2, 3} /\ Chunks = {0, 1, 2, 3}
    BY DEF Bits, Chunks
  <2> QED BY <2>1, <2>2
<1>5. ZeroChunks = {1, 2, 3} \/ ZeroChunks = Chunks
  BY DEF Small, ZeroChunks, Chunks
<1>6. \E n \in 0 .. 15 : Bits(n) = ZeroChunks
  BY <1>3, <1>4, <1>5
<1> QED BY <1>6 DEF ChunkVec

-----------------------------------------------------------------------------
(* A cycle, field by field.                                                *)
Pop == u.rd_req /\ arrived # fifo.rd

LEMMA FifoFields ==
  ASSUME Types, FifoCycle
  PROVE  /\ fifo'.rd = IF u.ld THEN u.ptr ELSE IF Pop THEN fifo.rd + 1 ELSE fifo.rd
         /\ fifo'.addr = IF Pop THEN fifo.rd + 1 ELSE fifo.rd
         /\ fifo'.q_valid <=> Pop /\ ~ u.ld
         /\ fifo'.valid <=> u.rd_req /\ fifo.q_valid
         /\ fifo'.q = IF Pop THEN Stored(fifo.addr) ELSE fifo.q
         /\ fifo'.r = IF u.rd_req THEN fifo.q ELSE fifo.r
<1>1. rdfifo_empty <=> arrived = fifo.rd
  BY DEF rdfifo_empty
<1> QED BY <1>1 DEF FifoCycle, Pop

LEMMA StoredAt ==
  ASSUME Types, NEW a \in Nat, a < arrived, a < PageLen
  PROVE  Stored(a) = source[a + 1]
<1>1. a % PageLen = a
  BY Lengths
<1> QED BY <1>1 DEF Stored

LEMMA BeatFields ==
  ASSUME Types, Beat \/ NoBeat, UNCHANGED source
  PROVE  /\ arrived' \in {arrived, arrived + 1} /\ arrived' <= Len(source)
         /\ arrived \in Nat /\ Len(source) \in Nat /\ arrived <= Len(source)
BY DEF Types, Beat, NoBeat

(* A line more is taken if the FIFO offers one; the lines behind it follow *)
(* in order, or one of them was dropped.                                   *)
LEMMA PipeStep ==
  ASSUME Types, Len(source) <= PageLen, FifoCycle, Beat \/ NoBeat, UNCHANGED source,
         Tracks, NEW c \in Nat, NEW d \in Nat, d = c + B(fifo.valid)
  PROVE  /\ Exact(c) => Exact(d)' \/ Short(d)'
         /\ Short(c) => Short(d)'
         /\ Exact(c) /\ (fifo.q_valid => u.rd_req) => Exact(d)'
         /\ fifo'.rd <= arrived' /\ fifo'.addr = fifo'.rd
<1>1. /\ arrived' \in {arrived, arrived + 1} /\ arrived' <= Len(source)
      /\ arrived \in Nat /\ Len(source) \in Nat /\ arrived <= Len(source)
  BY BeatFields
<1>2. /\ fifo.rd \in Nat /\ fifo.q_valid \in BOOLEAN /\ fifo.valid \in BOOLEAN
      /\ u.rd_req \in BOOLEAN
  BY DEF Types, FifoType, UnitType
<1>3. ~ u.ld /\ fifo.rd <= arrived /\ (u.rd_req => fifo.addr = fifo.rd)
  BY DEF Tracks
<1>4. /\ fifo'.rd = IF Pop THEN fifo.rd + 1 ELSE fifo.rd
      /\ fifo'.addr = fifo'.rd
      /\ fifo'.q_valid <=> Pop
      /\ fifo'.valid <=> u.rd_req /\ fifo.q_valid
      /\ fifo'.q = IF Pop THEN Stored(fifo.addr) ELSE fifo.q
      /\ fifo'.r = IF u.rd_req THEN fifo.q ELSE fifo.r
  BY <1>3, FifoFields
<1>5. Pop => /\ fifo.rd < arrived /\ fifo'.rd = fifo.rd + 1
             /\ fifo'.q = source[fifo'.rd]
  <2> SUFFICES ASSUME Pop PROVE fifo.rd < arrived /\ fifo'.q = source[fifo.rd + 1]
    BY <1>4
  <2>1. u.rd_req /\ fifo.rd < arrived /\ fifo.addr = fifo.rd /\ fifo.rd < PageLen
    BY <1>1, <1>2, <1>3, Lengths DEF Pop
  <2> QED BY <1>2, <1>4, <2>1, StoredAt
<1>6. fifo'.rd <= arrived'
  BY <1>1, <1>2, <1>3, <1>4, <1>5
<1>7. Pop => u.rd_req
  BY DEF Pop
<1>8. Short(c) => Short(d)'
  BY <1>1, <1>2, <1>4, <1>5, <1>7 DEF Short, B
<1>9. ASSUME Exact(c), fifo.q_valid => u.rd_req PROVE Exact(d)'
  <2>1. fifo'.rd = d + B(fifo'.q_valid) + B(fifo'.valid)
    BY <1>2, <1>4, <1>5, <1>7, <1>9 DEF Exact, B
  <2>2. fifo'.q_valid => fifo'.q = source[fifo'.rd]
    BY <1>4, <1>5
  <2>3. fifo'.valid => fifo'.r = source[d + 1]
    BY <1>2, <1>4, <1>9 DEF Exact, B
  <2> QED BY <2>1, <2>2, <2>3 DEF Exact
<1>10. ASSUME Exact(c), fifo.q_valid, ~ u.rd_req PROVE Short(d)'
  <2>1. fifo.rd = d + 1 /\ fifo.rd \in Nat
    BY <1>2, <1>10 DEF Exact, B
  <2>2. fifo'.rd = fifo.rd /\ ~ fifo'.q_valid /\ ~ fifo'.valid
    BY <1>4, <1>7, <1>10
  <2> QED BY <2>1, <2>2 DEF Short, B
<1> QED BY <1>4, <1>6, <1>8, <1>9, <1>10

(* What Step and Reading set, next to what SameBut says they keep.         *)
Sends == IF ~ fifo.valid THEN TRUE ELSE u.send /\ u.rd_req
LEMMA StepSignals ==
  ASSUME UnitType(u), NEW s \in UnitStates
  PROVE  /\ Step(s).rd_req = FALSE /\ Step(s).ld = FALSE
         /\ Step(s).incompressible = FALSE /\ Step(s).send = Sends
         /\ Reading(s).rd_req = (arrived # fifo.rd /\ u.send)
         /\ Reading(s).ld = FALSE /\ Reading(s).incompressible = FALSE
         /\ Reading(s).send = Sends
<1>1. DOMAIN u = {"state", "cnt", "zeros", "prev", "vec", "exp", "rd_req", "send", "ld",
                  "ptr", "done", "incompressible"}
  BY DEF UnitType
<1> HIDE DEF UnitType
<1> QED BY <1>1 DEF Step, Reading, Sends, rdfifo_empty

LEMMA TransferFields ==
  ASSUME Types, NEW s \in UnitStates, NEW n, Transfer(s, n)
  PROVE  /\ u.state = s /\ u.cnt < n /\ u.cnt \in Nat /\ u'.incompressible = FALSE
         /\ \/ u'.state = "BUS_ERROR"
            \/ /\ u'.state = s /\ u'.vec = u.vec /\ u'.exp = u.exp /\ u'.ld = FALSE
               /\ u'.rd_req = (arrived # fifo.rd /\ u.send) /\ u'.send = Sends
               /\ \/ ~ take /\ u'.cnt = u.cnt /\ wfifo' = wfifo
                  \/ /\ take /\ u'.cnt = u.cnt + 1
                     /\ wfifo' = Append(wfifo, fifo.r.data)
<1>1. UnitType(u) /\ u.cnt \in Nat /\ "BUS_ERROR" \in UnitStates
  BY DEF Types, UnitType, UnitStates
<1>2. u.state = s /\ u.cnt < n
  BY DEF Transfer
<1>3. SameBut(Reading(s), s) /\ SameBut(Reading("BUS_ERROR"), "BUS_ERROR")
  BY <1>1, StepFields
<1>4. /\ Reading(s).rd_req = (arrived # fifo.rd /\ u.send)
      /\ Reading(s).ld = FALSE /\ Reading(s).incompressible = FALSE
      /\ Reading(s).send = Sends /\ Reading("BUS_ERROR").incompressible = FALSE
  BY <1>1, StepSignals
<1>5. CASE ~ take /\ u' = Reading(s) /\ PutNothing
  BY <1>1, <1>2, <1>3, <1>4, <1>5 DEF SameBut, PutNothing
<1>6. CASE take /\ u' = [Reading(s) EXCEPT !.cnt = @ + 1] /\ Put(fifo.r.data)
  <2> DEFINE r == Reading(s)
  <2> HIDE DEF r
  <2>1. r = Reading(s) BY DEF r
  <2>2. UnitType(r) /\ u' = [r EXCEPT !.cnt = r.cnt + 1]
    BY <1>3, <1>6, <2>1 DEF SameBut
  <2>3. /\ u'.state = r.state /\ u'.vec = r.vec /\ u'.exp = r.exp /\ u'.ld = r.ld
        /\ u'.rd_req = r.rd_req /\ u'.send = r.send /\ u'.cnt = r.cnt + 1
        /\ u'.incompressible = r.incompressible
    BY <2>2 DEF UnitType
  <2> QED BY <1>1, <1>2, <1>3, <1>4, <1>6, <2>1, <2>3 DEF SameBut, Put
<1>7. CASE u' = Reading("BUS_ERROR")
  BY <1>1, <1>2, <1>3, <1>4, <1>7 DEF SameBut
<1> QED BY <1>5, <1>6, <1>7 DEF Transfer

-----------------------------------------------------------------------------
(* The compressor's first pass.                                            *)
LEMMA ChunkBounds ==
  ASSUME NEW m \in Chunks
  PROVE  /\ m * ChunkLen \in Nat /\ (m + 1) * ChunkLen \in Nat
         /\ (m + 1) * ChunkLen = m * ChunkLen + ChunkLen /\ (m + 1) * ChunkLen <= PageLen
         /\ m = 3 => (m + 1) * ChunkLen = PageLen
         /\ m # 3 => m + 1 \in Chunks
<1>1. m \in {0, 1, 2, 3}
  BY DEF Chunks
<1>2. CASE m = 0  BY <1>2, Lengths DEF Chunks
<1>3. CASE m = 1  BY <1>3, Lengths DEF Chunks
<1>4. CASE m = 2  BY <1>4, Lengths DEF Chunks
<1>5. CASE m = 3  BY <1>5, Lengths DEF Chunks
<1> QED BY <1>1, <1>2, <1>3, <1>4, <1>5

LEMMA AtChunkEnd ==
  ASSUME NEW m \in Chunks, NEW c \in Nat,
         m * ChunkLen <= c, c <= (m + 1) * ChunkLen, m = 0 \/ m * ChunkLen < c
  PROVE  /\ c = (m + 1) * ChunkLen =>
              c # 0 /\ c % ChunkLen = 0 /\ (c \div ChunkLen) - 1 = m
         /\ c # (m + 1) * ChunkLen => c = 0 \/ c % ChunkLen # 0
<1> DEFINE q == c \div ChunkLen
           r == c % ChunkLen
<1>1. q \in Int /\ r \in Int /\ 0 <= r /\ r < ChunkLen /\ c = ChunkLen * q + r
  BY Lengths
<1> HIDE DEF q, r
<1>2. q \in Nat
  <2>1. SUFFICES ASSUME q <= -1 PROVE FALSE
    BY <1>1
  <2>2. ChunkLen * q <= ChunkLen * (-1)
    BY <1>1, <2>1, Lengths
  <2> QED BY <1>1, <2>2, Lengths
<1>3. q <= m + 1
  <2>1. SUFFICES ASSUME q >= m + 2 PROVE FALSE
    BY <1>1 DEF Chunks
  <2>2. ChunkLen * q >= ChunkLen * (m + 2)
    BY <1>1, <2>1, Lengths DEF Chunks
  <2>3. ChunkLen * (m + 2) = (m + 1) * ChunkLen + ChunkLen
    BY Lengths DEF Chunks
  <2> QED BY <1>1, <2>2, <2>3, ChunkBounds, Lengths
<1>4. q >= m
  <2>1. SUFFICES ASSUME q <= m - 1 PROVE FALSE
    BY <1>1 DEF Chunks
  <2>2. ChunkLen * q <= ChunkLen * (m - 1)
    BY <1>1, <2>1, Lengths DEF Chunks
  <2>3. ChunkLen * (m - 1) = m * ChunkLen - ChunkLen
    BY Lengths DEF Chunks
  <2> QED BY <1>1, <2>2, <2>3, ChunkBounds, Lengths
<1>5. CASE q = m + 1
  <2>1. ChunkLen * q = (m + 1) * ChunkLen
    BY <1>5, Lengths DEF Chunks
  <2>2. c = (m + 1) * ChunkLen /\ r = 0
    BY <1>1, <2>1, ChunkBounds
  <2>3. c # 0
    BY <2>2, ChunkBounds, Lengths
  <2>4. q - 1 = m
    BY <1>5 DEF Chunks
  <2> QED BY <2>2, <2>3, <2>4 DEF q, r
<1>6. CASE q = m
  <2>1. ChunkLen * q = m * ChunkLen
    BY <1>6, Lengths DEF Chunks
  <2>2. c = m * ChunkLen + r /\ c # (m + 1) * ChunkLen
    <3>1. c = m * ChunkLen + r
      BY <1>1, <2>1
    <3>2. (m + 1) * ChunkLen = m * ChunkLen + ChunkLen /\ m * ChunkLen \in Nat
      BY ChunkBounds
    <3> QED BY <1>1, <3>1, <3>2, Lengths
  <2>3. m = 0 /\ r = 0 => c = 0
    BY <1>1, <1>6, <2>1, Lengths
  <2>4. r = 0 => c = m * ChunkLen
    BY <2>2, ChunkBounds
  <2> QED BY <2>2, <2>3, <2>4, ChunkBounds DEF r
<1> QED BY <1>2, <1>3, <1>4, <1>5, <1>6 DEF Chunks

LEMMA CountLine ==
  ASSUME page \in Pages, NEW m \in Chunks, NEW c \in Nat, NEW z \in Nat, NEW p \in Nat,
         NEW vec, CountsTo(m, c, z, p, vec), c < (m + 1) * ChunkLen,
         NEW y, y = IF page[c + 1] = 0 THEN z + 1 ELSE z
  PROVE  CountsTo(m, c + 1, y, p, vec)
<1> DEFINE lo == m * ChunkLen
<1>0. lo = m * ChunkLen
  OBVIOUS
<1>1. lo \in Nat /\ lo <= c /\ (m + 1) * ChunkLen \in Nat
  BY ChunkBounds DEF CountsTo
<1>2. /\ 0 <= z - p /\ z - p <= c - lo
      /\ z - p = c - lo <=> \A i \in lo + 1 .. c : page[i] = 0
      /\ vec = {k \in ZeroChunks : k < m}
  BY DEF CountsTo
<1> HIDE DEF lo
<1>3. (\A i \in lo + 1 .. c + 1 : page[i] = 0)
        <=> page[c + 1] = 0 /\ \A i \in lo + 1 .. c : page[i] = 0
  <2>1. c + 1 \in lo + 1 .. c + 1 /\ \A i \in lo + 1 .. c : i \in lo + 1 .. c + 1
    BY <1>1
  <2>2. \A i \in lo + 1 .. c + 1 : i \in lo + 1 .. c \/ i = c + 1
    BY <1>1
  <2> QED BY <2>1, <2>2
<1>4. /\ 0 <= y - p /\ y - p <= c + 1 - lo
      /\ y - p = c + 1 - lo <=> page[c + 1] = 0 /\ z - p = c - lo
  <2>1. CASE page[c + 1] = 0
    <3>1. y = z + 1
      BY <2>1
    <3>2. 0 <= y - p /\ y - p <= c + 1 - lo /\ (y - p = c + 1 - lo <=> z - p = c - lo)
      BY <1>1, <1>2, <3>1
    <3> QED BY <2>1, <3>2
  <2>2. CASE page[c + 1] # 0
    <3>1. y = z
      BY <2>2
    <3>2. 0 <= y - p /\ y - p <= c + 1 - lo /\ y - p # c + 1 - lo
      BY <1>1, <1>2, <3>1
    <3> QED BY <2>2, <3>2
  <2> QED BY <2>1, <2>2
<1>5. c + 1 <= (m + 1) * ChunkLen /\ lo <= c + 1
  BY <1>1
<1>6. y - p = c + 1 - lo <=> \A i \in lo + 1 .. c + 1 : page[i] = 0
  <2>1. z - p = c - lo <=> \A i \in lo + 1 .. c : page[i] = 0
    BY <1>2
  <2> QED BY <1>3, <1>4, <2>1
<1>7. CountsTo(m, c + 1, y, p, vec) <=>
        /\ lo <= c + 1 /\ c + 1 <= (m + 1) * ChunkLen
        /\ 0 <= y - p /\ y - p <= c + 1 - lo
        /\ y - p = c + 1 - lo <=> \A i \in lo + 1 .. c + 1 : page[i] = 0
        /\ vec = {k \in ZeroChunks : k < m}
  BY <1>0 DEF CountsTo
<1> QED BY <1>2, <1>4, <1>5, <1>6, <1>7

LEMMA CountChunk ==
  ASSUME page \in Pages, NEW m \in Chunks, NEW c \in Nat, NEW z \in Nat, NEW p \in Nat,
         NEW vec, CountsTo(m, c, z, p, vec), c = (m + 1) * ChunkLen,
         NEW vec2, vec2 = IF z - p = ChunkLen THEN vec \cup {m} ELSE vec \ {m}
  PROVE  /\ m = 3 => c = PageLen /\ vec2 = ZeroChunks
         /\ m # 3 => m + 1 \in Chunks /\ CountsTo(m + 1, c, z, z, vec2)
<1>1. /\ m * ChunkLen \in Nat /\ c = m * ChunkLen + ChunkLen
      /\ m = 3 => c = PageLen
      /\ m # 3 => m + 1 \in Chunks /\ (m + 1) * ChunkLen <= (m + 1 + 1) * ChunkLen
  <2>1. m # 3 => m + 1 \in Chunks
    BY ChunkBounds
  <2>2. m # 3 => (m + 1) * ChunkLen <= (m + 1 + 1) * ChunkLen
    <3> SUFFICES ASSUME m # 3 PROVE (m + 1) * ChunkLen <= (m + 1 + 1) * ChunkLen
      OBVIOUS
    <3>1. /\ (m + 1) * ChunkLen \in Nat
          /\ (m + 1 + 1) * ChunkLen = (m + 1) * ChunkLen + ChunkLen
      BY <2>1, ChunkBounds
    <3> QED BY <3>1, Lengths
  <2> QED BY <2>1, <2>2, ChunkBounds
<1>2. m \in ZeroChunks <=> z - p = ChunkLen
  <2>1. z - p = ChunkLen <=> \A i \in m * ChunkLen + 1 .. c : page[i] = 0
    <3>1. c - m * ChunkLen = ChunkLen
      BY <1>1, Lengths
    <3>2. z - p = c - m * ChunkLen <=> \A i \in m * ChunkLen + 1 .. c : page[i] = 0
      BY DEF CountsTo
    <3> QED BY <3>1, <3>2
  <2> QED BY <2>1, ChunkLines
<1>3. vec = {k \in ZeroChunks : k < m} /\ ZeroChunks \subseteq Chunks
  BY DEF CountsTo, ZeroChunks
<1>4. vec2 = {k \in ZeroChunks : k < m + 1}
  <2>1. \A k \in Chunks : k < m + 1 <=> k < m \/ k = m
    BY DEF Chunks
  <2> QED BY <1>2, <1>3, <2>1
<1>5. m = 3 => vec2 = ZeroChunks
  <2>1. \A k \in Chunks : k < 3 + 1
    BY DEF Chunks
  <2> QED BY <1>3, <1>4, <2>1
<1>6. ASSUME m # 3 PROVE CountsTo(m + 1, c, z, z, vec2)
  <2>1. z - z = 0 /\ c - (m + 1) * ChunkLen = 0 /\ (m + 1) * ChunkLen + 1 .. c = {}
    BY <1>1, Lengths DEF Chunks
  <2>2. (m + 1) * ChunkLen <= c /\ c <= (m + 1 + 1) * ChunkLen
    BY <1>1, <1>6, Lengths
  <2> QED BY <1>4, <2>1, <2>2 DEF CountsTo
<1> QED BY <1>1, <1>5, <1>6

(* What COMP_CHECK1 does, field by field.                                  *)
ChunkEnd == u.cnt # 0 /\ u.cnt % ChunkLen = 0
CheckedVec ==
  IF ~ ChunkEnd THEN u.vec
  ELSE IF u.zeros - u.prev = ChunkLen THEN u.vec \cup {(u.cnt \div ChunkLen) - 1}
  ELSE u.vec \ {(u.cnt \div ChunkLen) - 1}
CheckedPrev == IF ChunkEnd THEN u.zeros ELSE u.prev
Signals ==
  /\ u'.rd_req = (arrived # fifo.rd /\ u.send) /\ u'.ld = FALSE /\ u'.send = Sends
  /\ u'.incompressible = FALSE

LEMMA CheckChunkFields ==
  ASSUME Types, u.cnt <= PageLen, NEW n, UnitType(n), n.vec = u.vec, n.prev = u.prev
  PROVE  /\ CheckChunk(n).vec = CheckedVec /\ CheckChunk(n).prev = CheckedPrev
         /\ CheckChunk(n).state = n.state /\ CheckChunk(n).cnt = n.cnt
         /\ CheckChunk(n).zeros = n.zeros /\ CheckChunk(n).rd_req = n.rd_req
         /\ CheckChunk(n).send = n.send /\ CheckChunk(n).ld = n.ld
         /\ CheckChunk(n).incompressible = n.incompressible
<1>1. CASE u.cnt = 0 \/ u.cnt % ChunkLen # 0
  BY <1>1 DEF CheckChunk, CheckedVec, CheckedPrev, ChunkEnd
<1>2. CASE ~ (u.cnt = 0 \/ u.cnt % ChunkLen # 0)
  <2> DEFINE k == (u.cnt \div ChunkLen) - 1
             vec == IF u.zeros - u.prev = ChunkLen THEN n.vec \cup {k}
                    ELSE n.vec \ {k}
  <2>1. CheckChunk(n) = [n EXCEPT !.vec = vec, !.prev = u.zeros]
    BY <1>2 DEF CheckChunk
  <2>2. vec = CheckedVec /\ u.zeros = CheckedPrev
    BY <1>2 DEF CheckedVec, CheckedPrev, ChunkEnd
  <2> HIDE DEF vec
  <2> QED BY <2>1, <2>2 DEF UnitType
<1> QED BY <1>1, <1>2

LEMMA CheckFields ==
  ASSUME Types, Pushed, CompCheck1
  PROVE  /\ u.state = "COMP_CHECK1" /\ u.cnt <= PageLen /\ wfifo' = wfifo
         /\ \/ u'.state = "BUS_ERROR"
            \/ /\ u'.vec = CheckedVec /\ u'.prev = CheckedPrev /\ Signals
               /\ \/ u.cnt = PageLen /\ u'.state = "COMP_CHECK2"
                  \/ /\ u.cnt # PageLen /\ ~ take /\ u'.state = "COMP_CHECK1"
                     /\ u'.cnt = u.cnt /\ u'.zeros = u.zeros
                  \/ /\ u.cnt # PageLen /\ take /\ u'.state = "COMP_CHECK1"
                     /\ u'.cnt = u.cnt + 1
                     /\ u'.zeros = IF fifo.r.data = 0 THEN u.zeros + 1 ELSE u.zeros
<1> DEFINE n == IF u.cnt = PageLen THEN Reading("COMP_CHECK2")
                ELSE IF ~ take THEN Reading("COMP_CHECK1")
                ELSE IF ~ fifo.r.ok THEN Reading("BUS_ERROR")
                ELSE [Reading("COMP_CHECK1") EXCEPT
                        !.cnt = @ + 1,
                        !.zeros = IF fifo.r.data = 0 THEN @ + 1 ELSE @]
<1>1. /\ u.state = "COMP_CHECK1" /\ u.cnt <= PageLen
      /\ u' = CheckChunk(n) /\ wfifo' = wfifo
  BY DEF CompCheck1, Pushed, PutNothing
<1>2. UnitType(u) /\ u.cnt \in Nat /\ u.zeros \in Nat
  BY DEF Types, UnitType
<1> DEFINE Set(v) ==
      /\ UnitType(v) /\ v.vec = u.vec /\ v.prev = u.prev
      /\ v.rd_req = (arrived # fifo.rd /\ u.send) /\ v.ld = FALSE /\ v.send = Sends
      /\ v.incompressible = FALSE
<1>3. /\ Set(Reading("COMP_CHECK2")) /\ Reading("COMP_CHECK2").state = "COMP_CHECK2"
      /\ Set(Reading("COMP_CHECK1")) /\ Reading("COMP_CHECK1").state = "COMP_CHECK1"
      /\ Reading("COMP_CHECK1").cnt = u.cnt /\ Reading("COMP_CHECK1").zeros = u.zeros
      /\ Set(Reading("BUS_ERROR")) /\ Reading("BUS_ERROR").state = "BUS_ERROR"
  <2>1. ASSUME NEW s \in UnitStates
        PROVE  /\ Set(Reading(s)) /\ Reading(s).state = s
               /\ Reading(s).cnt = u.cnt /\ Reading(s).zeros = u.zeros
    <3>1. SameBut(Reading(s), s)
      BY <1>2, StepFields
    <3>2. /\ Reading(s).rd_req = (arrived # fifo.rd /\ u.send)
          /\ Reading(s).ld = FALSE /\ Reading(s).incompressible = FALSE
          /\ Reading(s).send = Sends
      BY <1>2, StepSignals
    <3> QED BY <3>1, <3>2 DEF SameBut
  <2>2. "COMP_CHECK1" \in UnitStates /\ "COMP_CHECK2" \in UnitStates
        /\ "BUS_ERROR" \in UnitStates
    BY DEF UnitStates
  <2> QED BY <2>1, <2>2
<1>4. /\ Set(n)
      /\ \/ n.state = "BUS_ERROR"
         \/ u.cnt = PageLen /\ n.state = "COMP_CHECK2"
         \/ /\ u.cnt # PageLen /\ ~ take /\ n.state = "COMP_CHECK1"
            /\ n.cnt = u.cnt /\ n.zeros = u.zeros
         \/ /\ u.cnt # PageLen /\ take /\ n.state = "COMP_CHECK1"
            /\ n.cnt = u.cnt + 1
            /\ n.zeros = IF fifo.r.data = 0 THEN u.zeros + 1 ELSE u.zeros
  <2>1. CASE u.cnt = PageLen
    BY <1>3, <2>1
  <2>2. CASE u.cnt # PageLen /\ ~ take
    BY <1>3, <2>2
  <2>3. CASE u.cnt # PageLen /\ take /\ ~ fifo.r.ok
    BY <1>3, <2>3
  <2>4. CASE u.cnt # PageLen /\ take /\ fifo.r.ok
    <3> DEFINE r == Reading("COMP_CHECK1")
               z == IF fifo.r.data = 0 THEN r.zeros + 1 ELSE r.zeros
    <3>1. n = [r EXCEPT !.cnt = r.cnt + 1, !.zeros = z]
      BY <2>4
    <3>2. Set(r) /\ r.state = "COMP_CHECK1" /\ r.cnt = u.cnt /\ r.zeros = u.zeros
      BY <1>3
    <3>3. z = IF fifo.r.data = 0 THEN u.zeros + 1 ELSE u.zeros
      BY <3>2
    <3> HIDE DEF n, r, z
    <3>4. z \in Nat /\ r.cnt + 1 \in Nat
      BY <1>2, <3>2, <3>3
    <3>5. UnitType(n)
      BY <3>1, <3>2, <3>4 DEF UnitType
    <3> QED BY <2>4, <3>1, <3>2, <3>3, <3>5 DEF UnitType
  <2> QED BY <2>1, <2>2, <2>3, <2>4
<1> HIDE DEF n
<1>5. /\ u'.vec = CheckedVec /\ u'.prev = CheckedPrev
      /\ u'.state = n.state /\ u'.cnt = n.cnt
      /\ u'.zeros = n.zeros /\ u'.rd_req = n.rd_req
      /\ u'.send = n.send /\ u'.ld = n.ld
      /\ u'.incompressible = n.incompressible
  BY <1>1, <1>4, CheckChunkFields
<1>6. Signals
  BY <1>4, <1>5 DEF Signals
<1> QED BY <1>1, <1>4, <1>5, <1>6

(* What holds before and in a cycle of the compressor.                     *)
Compressing ==
  /\ Types /\ Pushed /\ CompPlaces /\ page \in Pages /\ ~ u.incompressible
  /\ FifoCycle /\ (Beat \/ NoBeat) /\ UNCHANGED <<phase, page, source>>
  /\ phase = "COMPRESS" /\ Len(source) = PageLen /\ arrived = PageLen
  /\ \A i \in 1 .. PageLen : source[i].data = page[i]

LEMMA CompressingFacts ==
  ASSUME Compressing
  PROVE  /\ UnitType(u) /\ u.cnt \in Nat /\ u.zeros \in Nat /\ u.prev \in Nat
         /\ u.rd_req \in BOOLEAN /\ u.send \in BOOLEAN /\ u.ld \in BOOLEAN
         /\ fifo.rd \in Nat /\ fifo.valid \in BOOLEAN /\ fifo.q_valid \in BOOLEAN
         /\ arrived' = PageLen /\ Types /\ FifoCycle
         /\ Small' = Small /\ ZeroChunks' = ZeroChunks /\ Compressed' = Compressed
<1>1. arrived' = PageLen
  BY BeatFields DEF Compressing
<1>2. page' = page
  BY DEF Compressing
<1>3. ZeroChunks' = ZeroChunks /\ Compressed' = Compressed /\ Small' = Small
  BY <1>2 DEF ZeroChunks, Compressed, ChunkOf, Small
<1> QED BY <1>1, <1>3 DEF Compressing, Types, UnitType, FifoType

(* The store is full, so a line comes out in every cycle from the third.   *)
LEMMA StreamsOn ==
  ASSUME Compressing, CompCheck1, u'.state # "BUS_ERROR"
  PROVE  /\ u'.state = "COMP_CHECK1" => Streaming'
         /\ u'.state = "COMP_CHECK2" => Drained'
         /\ take => fifo.r.data = page[u.cnt + 1]
         /\ ~ take => u.cnt = 0 \/ u.cnt = PageLen
<1>1. /\ u.state = "COMP_CHECK1" /\ u.cnt <= PageLen /\ Signals
      /\ \/ u.cnt = PageLen /\ u'.state = "COMP_CHECK2"
         \/ u.cnt # PageLen /\ ~ take /\ u'.state = "COMP_CHECK1" /\ u'.cnt = u.cnt
         \/ u.cnt # PageLen /\ take /\ u'.state = "COMP_CHECK1" /\ u'.cnt = u.cnt + 1
  BY CheckFields DEF Compressing
<1>2. Streaming
  BY <1>1 DEF Compressing, CompPlaces
<1>3. /\ u.cnt \in Nat /\ fifo.rd \in Nat /\ PageLen \in Nat /\ PageLen >= 4
      /\ u.rd_req \in BOOLEAN /\ u.send \in BOOLEAN
      /\ fifo.valid \in BOOLEAN /\ fifo.q_valid \in BOOLEAN
      /\ arrived = PageLen /\ arrived' = PageLen /\ source' = source /\ ~ u.ld
  BY <1>2, CompressingFacts, Lengths DEF Compressing, Streaming
<1>4. /\ fifo'.rd = IF Pop THEN fifo.rd + 1 ELSE fifo.rd
      /\ fifo'.addr = fifo'.rd
      /\ fifo'.q_valid <=> Pop
      /\ fifo'.valid <=> u.rd_req /\ fifo.q_valid
      /\ fifo'.q = IF Pop THEN Stored(fifo.addr) ELSE fifo.q
      /\ fifo'.r = IF u.rd_req THEN fifo.q ELSE fifo.r
  BY <1>3, FifoFields, CompressingFacts
<1>5. /\ u'.rd_req <=> PageLen # fifo.rd /\ u.send
      /\ ~ u'.ld /\ u'.send = Sends
  BY <1>1, <1>3 DEF Signals
<1>6. Pop <=> u.rd_req /\ fifo.rd # PageLen
  BY <1>3 DEF Pop
<1>7. ASSUME u.rd_req, fifo.addr = fifo.rd, fifo.rd < PageLen
      PROVE  fifo'.q = source[fifo.rd + 1] /\ Pop /\ fifo'.rd = fifo.rd + 1
  BY <1>3, <1>4, <1>6, <1>7, StoredAt, CompressingFacts
<1>8. CASE /\ u.cnt = 0 /\ fifo.rd = 0 /\ u.send /\ ~ fifo.q_valid /\ ~ fifo.valid
           /\ u.rd_req => fifo.addr = 0
  <2>1. /\ ~ take /\ u'.state = "COMP_CHECK1" /\ u'.cnt = 0 /\ u'.send /\ u'.rd_req
        /\ ~ fifo'.valid
    BY <1>1, <1>3, <1>4, <1>5, <1>8 DEF take, Sends
  <2>2. CASE u.rd_req
    BY <1>3, <1>4, <1>5, <1>7, <1>8, <2>1, <2>2 DEF Streaming
  <2>3. CASE ~ u.rd_req
    BY <1>3, <1>4, <1>5, <1>6, <1>8, <2>1, <2>3 DEF Streaming
  <2> QED BY <1>8, <2>1, <2>2, <2>3
<1>9. CASE /\ u.cnt = 0 /\ fifo.rd = 1 /\ fifo.addr = 1 /\ u.send /\ u.rd_req
           /\ fifo.q_valid /\ fifo.q = source[1] /\ ~ fifo.valid
  <2>1. /\ ~ take /\ u'.state = "COMP_CHECK1" /\ u'.cnt = 0 /\ u'.send /\ u'.rd_req
        /\ fifo'.valid /\ fifo'.r = source[1]
    BY <1>1, <1>3, <1>4, <1>5, <1>9 DEF take, Sends
  <2>2. fifo'.q = source[2] /\ fifo'.q_valid /\ fifo'.rd = 2 /\ fifo'.addr = 2
    BY <1>3, <1>4, <1>7, <1>9
  <2> QED BY <1>3, <1>5, <1>9, <2>1, <2>2 DEF Streaming
<1>10. CASE /\ u.cnt <= PageLen - 2 /\ fifo.rd = u.cnt + 2 /\ fifo.addr = fifo.rd
            /\ u.send /\ u.rd_req /\ fifo.q_valid /\ fifo.q = source[u.cnt + 2]
            /\ fifo.valid /\ fifo.r = source[u.cnt + 1]
  <2>1. /\ take /\ u'.state = "COMP_CHECK1" /\ u'.cnt = u.cnt + 1 /\ u'.send
        /\ fifo'.valid /\ fifo'.r = source[u'.cnt + 1]
    <3>1. take /\ u.cnt # PageLen
      BY <1>3, <1>10 DEF take
    <3>2. u'.state = "COMP_CHECK1" /\ u'.cnt = u.cnt + 1
      BY <1>1, <3>1
    <3>3. u'.send /\ fifo'.valid /\ fifo'.r = source[u.cnt + 2]
      BY <1>4, <1>5, <1>10 DEF Sends
    <3>4. u.cnt + 2 = u'.cnt + 1
      BY <1>3, <3>2
    <3> QED BY <3>1, <3>2, <3>3, <3>4
  <2>2. fifo.r.data = page[u.cnt + 1]
    <3>1. u.cnt + 1 \in 1 .. PageLen
      BY <1>3, <1>10
    <3> QED BY <1>10, <3>1 DEF Compressing
  <2>3. CASE u.cnt = PageLen - 2
    <3>1. ~ u'.rd_req /\ ~ fifo'.q_valid /\ fifo'.rd = PageLen /\ u'.cnt = PageLen - 1
          /\ u'.cnt + 1 = PageLen
      BY <1>3, <1>4, <1>5, <1>6, <1>10, <2>1, <2>3
    <3> QED BY <1>3, <1>5, <2>1, <2>2, <3>1 DEF Streaming
  <2>4. CASE u.cnt # PageLen - 2
    <3>1. /\ u'.rd_req /\ fifo'.q_valid /\ fifo'.rd = u'.cnt + 2 /\ u'.cnt <= PageLen - 2
          /\ fifo'.q = source[u'.cnt + 2]
      <4>1. fifo.rd < PageLen
        BY <1>3, <1>10, <2>4
      <4>2. Pop /\ fifo'.rd = fifo.rd + 1 /\ fifo'.q = source[fifo.rd + 1]
        BY <1>7, <1>10, <4>1
      <4> QED BY <1>3, <1>4, <1>5, <1>10, <2>1, <2>4, <4>1, <4>2
    <3> QED BY <1>3, <1>4, <1>5, <2>1, <2>2, <3>1 DEF Streaming
  <2> QED BY <2>3, <2>4
<1>11. CASE /\ u.cnt = PageLen - 1 /\ fifo.rd = PageLen /\ u.send /\ ~ u.rd_req
            /\ ~ fifo.q_valid /\ fifo.valid /\ fifo.r = source[PageLen]
  <2>1. /\ take /\ u'.state = "COMP_CHECK1" /\ u'.cnt = PageLen
        /\ ~ fifo'.valid /\ ~ fifo'.q_valid /\ ~ u'.rd_req /\ fifo'.rd = PageLen
    BY <1>1, <1>3, <1>4, <1>5, <1>6, <1>11 DEF take
  <2>2. fifo.r.data = page[u.cnt + 1]
    BY <1>3, <1>11 DEF Compressing
  <2> QED BY <1>3, <1>5, <2>1, <2>2 DEF Streaming, Quiet
<1>12. CASE u.cnt = PageLen /\ fifo.rd = PageLen /\ Quiet
  <2>1. /\ ~ take /\ u'.state = "COMP_CHECK2" /\ u'.send /\ ~ u'.rd_req
        /\ ~ fifo'.valid /\ ~ fifo'.q_valid /\ fifo'.rd = PageLen
    BY <1>1, <1>3, <1>4, <1>5, <1>6, <1>12 DEF take, Sends, Quiet
  <2> QED BY <1>5, <1>12, <2>1 DEF Drained, Quiet
<1> QED BY <1>2, <1>8, <1>9, <1>10, <1>11, <1>12 DEF Streaming

(* Behind the last line of a chunk it is known whether the chunk is zero.  *)
LEMMA CountsOn ==
  ASSUME Compressing, CompCheck1, u'.state # "BUS_ERROR"
  PROVE  /\ u'.state = "COMP_CHECK1" => Counts'
         /\ u'.state = "COMP_CHECK2" => u'.vec = ZeroChunks
<1>1. /\ u.state = "COMP_CHECK1" /\ u.cnt <= PageLen
      /\ u'.vec = CheckedVec /\ u'.prev = CheckedPrev
      /\ \/ u.cnt = PageLen /\ u'.state = "COMP_CHECK2"
         \/ /\ u.cnt # PageLen /\ ~ take /\ u'.state = "COMP_CHECK1"
            /\ u'.cnt = u.cnt /\ u'.zeros = u.zeros
         \/ /\ u.cnt # PageLen /\ take /\ u'.state = "COMP_CHECK1"
            /\ u'.cnt = u.cnt + 1
            /\ u'.zeros = IF fifo.r.data = 0 THEN u.zeros + 1 ELSE u.zeros
  BY CheckFields DEF Compressing
<1>2. page' = page /\ page \in Pages /\ ZeroChunks' = ZeroChunks
  BY CompressingFacts DEF Compressing
<1>3. u.cnt \in Nat /\ u.zeros \in Nat /\ u.prev \in Nat
  BY CompressingFacts
<1>4. PICK m \in Chunks : /\ m = 0 \/ m * ChunkLen < u.cnt
                          /\ CountsTo(m, u.cnt, u.zeros, u.prev, u.vec)
  BY <1>1 DEF Compressing, CompPlaces, Counts
<1>5. m * ChunkLen <= u.cnt /\ u.cnt <= (m + 1) * ChunkLen
  BY <1>4 DEF CountsTo
<1>6. /\ u.cnt = (m + 1) * ChunkLen <=> ChunkEnd
      /\ ChunkEnd => (u.cnt \div ChunkLen) - 1 = m
  BY <1>3, <1>4, <1>5, AtChunkEnd DEF ChunkEnd
<1>7. \A k, c, z, p, v : CountsTo(k, c, z, p, v)' <=> CountsTo(k, c, z, p, v)
  BY <1>2 DEF CountsTo
<1>8. /\ (m + 1) * ChunkLen \in Nat /\ (m + 1) * ChunkLen <= PageLen
      /\ m * ChunkLen \in Nat
  BY ChunkBounds
<1>9. /\ take => fifo.r.data = page[u.cnt + 1]
      /\ ~ take => u.cnt = 0 \/ u.cnt = PageLen
  BY StreamsOn
<1>10. CASE ChunkEnd
  <2>1. CheckedPrev = u.zeros
        /\ CheckedVec = IF u.zeros - u.prev = ChunkLen THEN u.vec \cup {m}
                        ELSE u.vec \ {m}
    BY <1>6, <1>10 DEF CheckedVec, CheckedPrev
  <2>2. /\ m = 3 => u.cnt = PageLen /\ u'.vec = ZeroChunks
        /\ m # 3 => m + 1 \in Chunks /\ CountsTo(m + 1, u.cnt, u.zeros, u.zeros, u'.vec)
    BY <1>1, <1>2, <1>3, <1>4, <1>6, <1>10, <2>1, CountChunk
  <2>3. CASE m = 3
    BY <1>1, <2>2, <2>3
  <2>4. CASE m # 3
    <3>1. u.cnt = (m + 1) * ChunkLen /\ (m + 1 + 1) * ChunkLen = u.cnt + ChunkLen
          /\ (m + 1 + 1) * ChunkLen <= PageLen
      BY <1>6, <1>10, <2>2, <2>4, ChunkBounds
    <3>2. u.cnt < (m + 1 + 1) * ChunkLen /\ u.cnt # PageLen /\ u.cnt # 0
      BY <1>3, <1>10, <3>1, Lengths DEF ChunkEnd
    <3>3. take /\ u'.state = "COMP_CHECK1" /\ u'.cnt = u.cnt + 1
          /\ u'.zeros = IF page[u.cnt + 1] = 0 THEN u.zeros + 1 ELSE u.zeros
      BY <1>1, <1>9, <3>2
    <3>4. CountsTo(m + 1, u.cnt + 1, u'.zeros, u.zeros, u'.vec)
      BY <1>2, <1>3, <2>2, <2>4, <3>2, <3>3, CountLine
    <3>5. (m + 1) * ChunkLen < u'.cnt
      BY <1>3, <3>1, <3>3
    <3>6. u'.prev = u.zeros
      BY <1>1, <2>1
    <3> QED BY <1>7, <2>2, <2>4, <3>3, <3>4, <3>5, <3>6 DEF Counts
  <2> QED BY <2>3, <2>4
<1>11. CASE ~ ChunkEnd
  <2>1. u'.prev = u.prev /\ u'.vec = u.vec
    BY <1>1, <1>11 DEF CheckedPrev, CheckedVec
  <2>2. u.cnt < (m + 1) * ChunkLen /\ u.cnt # PageLen
    BY <1>3, <1>5, <1>6, <1>8, <1>11, Lengths
  <2>3. CASE ~ take
    <3>1. u'.state = "COMP_CHECK1" /\ u'.cnt = u.cnt /\ u'.zeros = u.zeros
      BY <1>1, <2>2, <2>3
    <3> QED BY <1>4, <1>7, <2>1, <3>1 DEF Counts
  <2>4. CASE take
    <3>1. /\ u'.state = "COMP_CHECK1" /\ u'.cnt = u.cnt + 1
          /\ u'.zeros = IF page[u.cnt + 1] = 0 THEN u.zeros + 1 ELSE u.zeros
      BY <1>1, <1>9, <2>2, <2>4
    <3>2. CountsTo(m, u.cnt + 1, u'.zeros, u.prev, u.vec)
      BY <1>2, <1>3, <1>4, <2>2, <3>1, CountLine
    <3>3. m = 0 \/ m * ChunkLen < u'.cnt
      BY <1>3, <1>4, <1>8, <3>1
    <3> QED BY <1>7, <2>1, <3>1, <3>2, <3>3 DEF Counts
  <2> QED BY <2>3, <2>4
<1> QED BY <1>10, <1>11

-----------------------------------------------------------------------------
(* The compressor's second pass.                                           *)
LEMMA CompressibleSmall ==
  ASSUME FirstOnly, page \in Pages, NEW k \in Chunks, Chunks \ {k} \subseteq ZeroChunks
  PROVE  Small
<1>1. /\ ChunkLen \in Nat /\ PageLen = 4 * ChunkLen
      /\ \A j \in Chunks : /\ j * ChunkLen \in Nat
                           /\ (j + 1) * ChunkLen = j * ChunkLen + ChunkLen
  BY ChunkBounds, Lengths
<1>2. \A j \in ZeroChunks :
        \A i \in j * ChunkLen + 1 .. (j + 1) * ChunkLen : page[i] = 0
  BY ChunkLines DEF ZeroChunks
<1>3. ASSUME NEW i \in 1 .. PageLen PROVE
        \E j \in Chunks : i \in j * ChunkLen + 1 .. (j + 1) * ChunkLen
  <2>1. CASE i <= ChunkLen
    <3>1. i \in 0 * ChunkLen + 1 .. (0 + 1) * ChunkLen
      BY <1>1, <2>1
    <3> QED BY <3>1 DEF Chunks
  <2>2. CASE ChunkLen < i /\ i <= 2 * ChunkLen
    <3>1. i \in 1 * ChunkLen + 1 .. (1 + 1) * ChunkLen
      BY <1>1, <2>2
    <3> QED BY <3>1 DEF Chunks
  <2>3. CASE 2 * ChunkLen < i /\ i <= 3 * ChunkLen
    <3>1. i \in 2 * ChunkLen + 1 .. (2 + 1) * ChunkLen
      BY <1>1, <2>3
    <3> QED BY <3>1 DEF Chunks
  <2>4. CASE 3 * ChunkLen < i
    <3>1. i \in 3 * ChunkLen + 1 .. (3 + 1) * ChunkLen
      BY <1>1, <2>4
    <3> QED BY <3>1 DEF Chunks
  <2> QED BY <1>1, <2>1, <2>2, <2>3, <2>4
<1>4. ASSUME NEW i \in 1 .. PageLen, i <= k * ChunkLen \/ i > (k + 1) * ChunkLen
      PROVE  page[i] = 0
  <2>1. PICK j \in Chunks : i \in j * ChunkLen + 1 .. (j + 1) * ChunkLen
    BY <1>3
  <2>2. j # k
    BY <1>1, <1>4, <2>1
  <2> QED BY <1>2, <2>1, <2>2
<1>5. \A i \in ChunkLen + 1 .. PageLen : page[i] = 0
  BY <1>4 DEF FirstOnly
<1>6. ASSUME NEW j \in {1, 2, 3} PROVE j \in ZeroChunks
  <2>1. j \in Chunks /\ ChunkLen + 1 <= j * ChunkLen + 1 /\ (j + 1) * ChunkLen <= PageLen
    <3>1. CASE j = 1  BY <1>1, <3>1 DEF Chunks
    <3>2. CASE j = 2  BY <1>1, <3>2 DEF Chunks
    <3>3. CASE j = 3  BY <1>1, <3>3 DEF Chunks
    <3> QED BY <3>1, <3>2, <3>3
  <2>2. \A i \in j * ChunkLen + 1 .. (j + 1) * ChunkLen : i \in ChunkLen + 1 .. PageLen
    BY <1>1, <2>1
  <2> QED BY <1>5, <2>1, <2>2, ChunkLines
<1> QED BY <1>6 DEF Small

LEMMA SmallRdptr ==
  ASSUME Small
  PROVE  rdptr_of(ZeroChunks) = 0
<1>1. CASE ZeroChunks = Chunks
  BY <1>1 DEF rdptr_of
<1>2. CASE ZeroChunks # Chunks
  <2> DEFINE k == CHOOSE c \in Chunks \ ZeroChunks :
                    \A d \in Chunks \ ZeroChunks : c <= d
  <2>1. Chunks \ ZeroChunks = {0}
    <3>1. Chunks = {0, 1, 2, 3} /\ ZeroChunks \subseteq Chunks
      BY DEF Chunks, ZeroChunks
    <3>2. 1 \in ZeroChunks /\ 2 \in ZeroChunks /\ 3 \in ZeroChunks
      BY DEF Small
    <3>3. 0 \notin ZeroChunks
      BY <1>2, <3>1, <3>2
    <3> QED BY <3>1, <3>2, <3>3
  <2>2. \E c \in Chunks \ ZeroChunks : \A d \in Chunks \ ZeroChunks : c <= d
    BY <2>1
  <2>3. k = 0
    BY <2>1, <2>2
  <2> QED BY <1>2, <2>3 DEF rdptr_of
<1> QED BY <1>1, <1>2

LEMMA FilledOn ==
  ASSUME Types, NEW n \in Nat, Filled(n), Len(wfifo) = n, Compressed' = Compressed,
         NEW x, wfifo' = Append(wfifo, x), x = Compressed[n + 1]
  PROVE  \A i \in 1 .. n + 1 : wfifo'[i] = Compressed'[i]
<1>1. wfifo \in Seq(Contents)
  BY DEF Types
<1>2. \A i \in 1 .. n : wfifo'[i] = wfifo[i]
  BY <1>1
<1>3. wfifo'[n + 1] = x
  BY <1>1
<1> QED BY <1>2, <1>3 DEF Filled

(* What a state's update and that of a record field leave.                 *)
LEMMA StepTo ==
  ASSUME UnitType(u), NEW s \in UnitStates, u' = Step(s) \/ u' = Reading(s)
  PROVE  /\ u'.state = s /\ u'.cnt = u.cnt /\ u'.vec = u.vec /\ u'.exp = u.exp
         /\ u'.ld = FALSE /\ u'.send = Sends /\ u'.incompressible = FALSE
         /\ u' = Step(s) => u'.rd_req = FALSE
         /\ u' = Reading(s) => u'.rd_req = (arrived # fifo.rd /\ u.send)
BY StepFields, StepSignals DEF SameBut

LEMMA CompFlow ==
  ASSUME Compressing, CompCycle, FirstOnly
  PROVE  CompPlaces'
<1>1. /\ UnitType(u) /\ u.cnt \in Nat /\ u.rd_req \in BOOLEAN /\ u.send \in BOOLEAN
      /\ u.ld \in BOOLEAN /\ fifo.rd \in Nat /\ fifo.valid \in BOOLEAN
      /\ fifo.q_valid \in BOOLEAN /\ arrived' = PageLen /\ Types /\ FifoCycle
      /\ Small' = Small /\ ZeroChunks' = ZeroChunks /\ Compressed' = Compressed
  BY CompressingFacts
<1>2. /\ CompPlaces /\ Pushed /\ page \in Pages /\ arrived = PageLen
      /\ page' = page /\ source' = source /\ phase' = phase /\ phase = "COMPRESS"
      /\ Len(source) = PageLen /\ ~ u.incompressible
  BY DEF Compressing
<1>3. /\ fifo'.rd = IF u.ld THEN u.ptr ELSE IF Pop THEN fifo.rd + 1 ELSE fifo.rd
      /\ fifo'.addr = IF Pop THEN fifo.rd + 1 ELSE fifo.rd
      /\ fifo'.q_valid <=> Pop /\ ~ u.ld
      /\ fifo'.valid <=> u.rd_req /\ fifo.q_valid
      /\ Pop => u.rd_req
  BY <1>1, FifoFields DEF Pop
<1>4. Quiet => /\ ~ fifo'.q_valid /\ ~ fifo'.valid
               /\ fifo'.rd = IF u.ld THEN u.ptr ELSE fifo.rd
  BY <1>3 DEF Quiet
<1>5. CASE CompStart
  <2>1. Fresh /\ u'.state = "COMP_CHECK1" /\ u'.cnt = 0 /\ u'.zeros = 0 /\ u'.prev = 0
        /\ u'.vec = {} /\ ~ u'.rd_req /\ ~ u'.ld /\ u'.send = Sends
    <3>1. SameBut(Step("COMP_CHECK1"), "COMP_CHECK1")
          /\ Step("COMP_CHECK1").rd_req = FALSE /\ Step("COMP_CHECK1").ld = FALSE
          /\ Step("COMP_CHECK1").send = Sends
      BY <1>1, StepFields, StepSignals DEF UnitStates
    <3> QED BY <1>2, <1>5, <3>1 DEF CompStart, CompPlaces, SameBut, UnitType
  <2>2. u'.send /\ ~ fifo'.q_valid /\ ~ fifo'.valid /\ fifo'.rd = 0
    BY <1>4, <2>1 DEF Fresh, Quiet, Sends
  <2>3. Streaming'
    BY <2>1, <2>2 DEF Streaming
  <2>4. CountsTo(0, 0, 0, 0, {})'
    <3>1. 0 * ChunkLen = 0 /\ (0 + 1) * ChunkLen = ChunkLen /\ 0 \in Chunks
      BY Lengths DEF Chunks
    <3>2. {k \in ZeroChunks' : k < 0} = {}
      BY DEF ZeroChunks, Chunks
    <3> QED BY <3>1, <3>2, Lengths DEF CountsTo
  <2>5. Counts'
    BY <2>1, <2>4 DEF Counts, Chunks
  <2> QED BY <2>1, <2>3, <2>5 DEF CompPlaces
<1>6. CASE CompCheck1
  <2>1. CASE u'.state = "BUS_ERROR"
    BY <2>1 DEF CompPlaces
  <2>2. CASE u'.state # "BUS_ERROR"
    <3>1. u'.state \in {"COMP_CHECK1", "COMP_CHECK2"}
      BY <1>1, <1>2, <1>6, <2>2, CheckFields
    <3> QED BY <1>1, <1>6, <2>2, <3>1, StreamsOn, CountsOn DEF CompPlaces
  <2> QED BY <2>1, <2>2
<1>7. CASE CompCheck2
  <2>1. u.state = "COMP_CHECK2" /\ Drained /\ u.vec = ZeroChunks
    BY <1>2, <1>7 DEF CompCheck2, CompPlaces
  <2>2. CASE \E k \in Chunks : Chunks \ {k} \subseteq u.vec
    <3>1. Small
      BY <1>2, <2>1, <2>2, CompressibleSmall
    <3>2. u' = Step("COMPRESS")
      BY <1>7, <2>2 DEF CompCheck2
    <3>3. /\ u'.state = "COMPRESS" /\ u'.vec = u.vec /\ ~ u'.ld /\ u'.send = Sends
          /\ ~ u'.rd_req
      BY <1>1, <3>2, StepTo DEF UnitStates
    <3>4. Drained'
      BY <1>4, <2>1, <3>3 DEF Drained, Quiet, Sends
    <3> QED BY <1>1, <2>1, <3>1, <3>3, <3>4 DEF CompPlaces
  <2>3. CASE ~ \E k \in Chunks : Chunks \ {k} \subseteq u.vec
    <3>1. u'.incompressible /\ u'.state = "IDLE"
      <4>1. SameBut(Step("IDLE"), "IDLE")
        BY <1>1, StepFields DEF UnitStates
      <4> QED BY <1>7, <2>3, <4>1 DEF CompCheck2, SameBut, UnitType
    <3> QED BY <3>1 DEF CompPlaces
  <2> QED BY <2>2, <2>3
<1>8. CASE Compress
  <2>1. u.state = "COMPRESS" /\ Drained /\ u.vec = ZeroChunks /\ Small /\ Len(wfifo) = 0
    BY <1>2, <1>8 DEF Compress, CompPlaces, Pushed
  <2>2. /\ u'.state = "LOAD_FIFO_RDPTR" /\ u'.vec = u.vec /\ ~ u'.ld /\ u'.send = Sends
        /\ ~ u'.rd_req
    BY <1>1, <1>8, StepTo DEF Compress, UnitStates
  <2>3. Drained'
    BY <1>4, <2>1, <2>2 DEF Drained, Quiet, Sends
  <2>4. wfifo' = Append(wfifo, ChunkVec(ZeroChunks))
    BY <1>8, <2>1 DEF Compress, Put
  <2>5. Filled(0) /\ ChunkVec(ZeroChunks) = Compressed[0 + 1]
    BY <1>2, <2>1, CompressedLines DEF Filled
  <2>6. \A i \in 1 .. 0 + 1 : wfifo'[i] = Compressed'[i]
    BY <1>1, <2>1, <2>4, <2>5, FilledOn
  <2>7. Filled(1)'
    BY <2>6 DEF Filled
  <2> QED BY <1>1, <2>1, <2>2, <2>3, <2>7 DEF CompPlaces
<1>9. CASE LoadRdptr
  <2>1. /\ u.state = "LOAD_FIFO_RDPTR" /\ Drained /\ u.vec = ZeroChunks /\ Small
        /\ Filled(1) /\ wfifo' = wfifo
    BY <1>2, <1>9 DEF LoadRdptr, CompPlaces, PutNothing
  <2>2. /\ u'.state = "FIFO_READ_TRNSFR" /\ u'.cnt = 0 /\ u'.ld /\ u'.ptr = 0
        /\ ~ u'.rd_req /\ u'.send = Sends
    <3>1. SameBut(Step("FIFO_READ_TRNSFR"), "FIFO_READ_TRNSFR")
          /\ Step("FIFO_READ_TRNSFR").rd_req = FALSE
          /\ Step("FIFO_READ_TRNSFR").send = Sends
      BY <1>1, StepFields, StepSignals DEF UnitStates
    <3>2. rdptr_of(u.vec) = 0
      BY <2>1, SmallRdptr
    <3> QED BY <1>9, <3>1, <3>2 DEF LoadRdptr, SameBut, UnitType
  <2>3. fifo'.rd = PageLen /\ Quiet' /\ u'.send
    BY <1>4, <2>1, <2>2 DEF Drained, Quiet, Sends
  <2>5. Filled(1 + u.cnt)'
    <3>1. 1 + u'.cnt = 1
      BY <2>2
    <3> QED BY <1>1, <2>1, <3>1 DEF Filled
  <2> QED BY <1>1, <2>1, <2>2, <2>3, <2>5 DEF CompPlaces
<1>10. CASE Transfer("FIFO_READ_TRNSFR", ChunkLen)
  <2>1. /\ u.state = "FIFO_READ_TRNSFR" /\ u.cnt < ChunkLen
        /\ \/ u'.state = "BUS_ERROR"
           \/ /\ u'.state = "FIFO_READ_TRNSFR" /\ u'.ld = FALSE /\ u'.send = Sends
              /\ u'.rd_req = (arrived # fifo.rd /\ u.send)
              /\ \/ ~ take /\ u'.cnt = u.cnt /\ wfifo' = wfifo
                 \/ /\ take /\ u'.cnt = u.cnt + 1
                    /\ wfifo' = Append(wfifo, fifo.r.data)
    BY <1>1, <1>10, TransferFields DEF UnitStates
  <2>2. CASE u'.state = "BUS_ERROR"
    BY <2>2 DEF CompPlaces
  <2>3. CASE u'.state = "FIFO_READ_TRNSFR"
    <3>1. Small /\ Filled(1 + u.cnt) /\ Len(wfifo) = 1 + u.cnt
      BY <1>2, <2>1 DEF CompPlaces, Pushed
    <3>2. CASE u.cnt = 0 /\ u.ld /\ u.ptr = 0 /\ fifo.rd = PageLen /\ Quiet /\ u.send
      <4>1. /\ ~ take /\ u'.cnt = u.cnt /\ wfifo' = wfifo /\ u'.send /\ ~ u'.rd_req /\ ~ u'.ld
        BY <1>2, <2>1, <2>3, <3>2 DEF take, Quiet, Sends
      <4>2. fifo'.rd = 0 /\ Quiet'
        BY <1>4, <3>2, <4>1 DEF Quiet
      <4>3. Exact(u.cnt)'
        <5>1. u'.cnt = 0
          BY <3>2, <4>1
        <5> QED BY <4>2, <5>1 DEF Exact, Quiet, B
      <4>4. Filled(1 + u.cnt)'
        BY <1>1, <3>1, <4>1 DEF Filled
      <4> QED BY <1>1, <2>3, <3>1, <4>1, <4>2, <4>3, <4>4 DEF CompPlaces
    <3>3. CASE /\ ~ u.ld /\ u.send /\ Exact(u.cnt) /\ (u.rd_req => fifo.addr = fifo.rd)
               /\ u.rd_req \/ Quiet
      <4>0. PICK d \in Nat : d = u.cnt + B(fifo.valid)
        BY <1>1 DEF B
      <4>1. fifo.rd < PageLen
        <5>1. u.cnt + 2 < PageLen
          BY <1>1, <2>1, Lengths
        <5> QED BY <1>1, <3>3, <5>1, Lengths DEF Exact, B
      <4>2. Tracks /\ (fifo.q_valid => u.rd_req)
        BY <1>1, <1>2, <3>3, <4>1, Lengths DEF Tracks, Quiet
      <4>3. (take <=> fifo.valid) /\ u'.cnt = d
        BY <1>1, <2>1, <2>3, <3>3, <4>0 DEF take, B
      <4>4. u'.send /\ u'.rd_req /\ ~ u'.ld
        <5>1. arrived # fifo.rd
          BY <1>1, <1>2, <4>1, Lengths
        <5>2. u'.rd_req /\ ~ u'.ld /\ u'.send = Sends
          BY <2>1, <2>3, <3>3, <5>1
        <5>3. Sends
          BY <3>3 DEF Sends, Quiet
        <5> QED BY <5>2, <5>3
      <4>5. Beat \/ NoBeat
        BY DEF Compressing
      <4>6. Exact(d)' /\ fifo'.addr = fifo'.rd
        <5>1. Len(source) <= PageLen
          BY <1>2, Lengths
        <5> QED BY <1>1, <1>2, <3>3, <4>0, <4>2, <4>5, <5>1, PipeStep
      <4>7. Exact(u.cnt)'
        BY <4>3, <4>6 DEF Exact
      <4>8. Filled(1 + u.cnt)'
        <5>1. CASE ~ take
          BY <1>1, <2>1, <2>3, <3>1, <5>1 DEF Filled
        <5>2. CASE take
          <6>1. fifo.r.data = page[u.cnt + 1] /\ u.cnt + 1 \in 1 .. ChunkLen
            <7>1. u.cnt + 1 \in 1 .. ChunkLen /\ u.cnt + 1 \in 1 .. PageLen
              BY <1>1, <2>1, Lengths
            <7>2. fifo.r = source[u.cnt + 1]
              BY <3>3, <4>3, <5>2 DEF Exact
            <7> QED BY <7>1, <7>2 DEF Compressing
          <6>2. fifo.r.data = Compressed[(1 + u.cnt) + 1]
            <7>1. (1 + u.cnt) + 1 = (u.cnt + 1) + 1
              BY <1>1
            <7> QED BY <1>2, <3>1, <6>1, <7>1, CompressedLines
          <6>3. u'.cnt = u.cnt + 1 /\ wfifo' = Append(wfifo, fifo.r.data)
            BY <2>1, <2>3, <5>2
          <6>4. 1 + u.cnt \in Nat /\ 1 + u'.cnt = (1 + u.cnt) + 1
            BY <1>1, <6>3
          <6>5. \A i \in 1 .. (1 + u.cnt) + 1 : wfifo'[i] = Compressed'[i]
            BY <1>1, <3>1, <6>2, <6>3, <6>4, FilledOn
          <6> QED BY <6>4, <6>5 DEF Filled
        <5> QED BY <5>1, <5>2
      <4> QED BY <1>1, <2>3, <3>1, <4>4, <4>6, <4>7, <4>8 DEF CompPlaces
    <3> QED BY <1>2, <2>1, <3>2, <3>3 DEF CompPlaces
  <2> QED BY <2>1, <2>2, <2>3
<1>11. CASE CompDone
  <2>1. /\ u.state = "FIFO_READ_TRNSFR" /\ u.cnt = ChunkLen /\ Small
        /\ Filled(1 + u.cnt) /\ wfifo' = wfifo
    BY <1>2, <1>11 DEF CompDone, CompPlaces, PutNothing
  <2>2. u'.state = "DONE"
    BY <1>1, <1>11, StepTo DEF CompDone, UnitStates
  <2>3. Filled(SlotLen)'
    <3>1. 1 + u.cnt = SlotLen
      BY <2>1, Lengths
    <3> QED BY <1>1, <2>1, <3>1 DEF Filled, SlotLen
  <2> QED BY <1>1, <2>1, <2>2, <2>3 DEF CompPlaces
<1>12. CASE Finished
  <2>1. Small /\ Filled(SlotLen) /\ wfifo' = wfifo
    BY <1>2, <1>12 DEF Finished, CompPlaces, PutNothing
  <2>2. u'.state = "DONE"
    <3>1. SameBut(Step("DONE"), "DONE")
      BY <1>1, StepFields DEF UnitStates
    <3> QED BY <1>12, <3>1 DEF Finished, SameBut, UnitType
  <2>3. Filled(SlotLen)'
    BY <1>1, <2>1 DEF Filled, SlotLen
  <2> QED BY <1>1, <2>1, <2>2, <2>3 DEF CompPlaces
<1> QED BY <1>5, <1>6, <1>7, <1>8, <1>9, <1>10, <1>11, <1>12 DEF CompCycle

-----------------------------------------------------------------------------
(* The writer, once started, stays at work until all is written, and only  *)
(* adds to what the unit has pushed.                                       *)
LEMMA WriterGoesOn ==
  ASSUME IInv, WriterStep
  PROVE  /\ phase # "END" /\ w'.state # "IDLE"
         /\ w.state = "IDLE" => u.state = "DONE"
         /\ IF w.state = "IDLE" THEN u' = IdleUnit ELSE u' = u
         /\ wfifo \in Seq(Contents) /\ Len(wfifo) \in Nat /\ Len(wfifo) >= BurstLen
         /\ \A i \in 1 .. Len(wfifo) : wfifo'[i] = wfifo[i]
<1>1. /\ WriterType(w) /\ wfifo \in Seq(Contents) /\ Len(wfifo) \in Nat
      /\ DOMAIN w = {"state", "burst", "pending", "owed"}
  BY DEF IInv, Types, WriterType
<1>2. ASSUME NEW s PROVE Post(s).state = s
  BY <1>1 DEF Post
<1>3. CASE StartWriter
  <2>1. phase # "END" /\ u.state = "DONE" /\ Len(wfifo) = BurstLen
    BY <1>3 DEF StartWriter, IInv, UnitInv, EndInv, Pushed
  <2>2. w'.state = "TRNSFR" /\ u' = IdleUnit /\ wfifo' = wfifo /\ w.state = "IDLE"
    BY <1>1, <1>3 DEF StartWriter, WriterType
  <2> QED BY <1>1, <2>1, <2>2, Lengths
<1>4. ASSUME w.state # "IDLE"
      PROVE  phase # "END" /\ Len(wfifo) >= BurstLen
  BY <1>1, <1>4, Lengths DEF IInv, WriterInv, Addressed
<1>5. CASE SendAddr \/ BurstSent \/ SendMdAddr
  <2>1. w.state # "IDLE" /\ u' = u /\ wfifo' = wfifo
    BY <1>5 DEF SendAddr, BurstSent, SendMdAddr
  <2>2. w'.state # "IDLE"
    <3>1. CASE SendAddr
      <4>1. w' = [Post("TRNSFR") EXCEPT !.burst = @ + 1]
        BY <3>1 DEF SendAddr
      <4>2. Post("TRNSFR").state = "TRNSFR"
        BY <1>2
      <4> QED BY <4>1, <4>2
    <3>2. CASE SendMdAddr
      BY <1>2, <3>2 DEF SendMdAddr
    <3>3. CASE BurstSent
      BY <1>1, <3>3 DEF BurstSent
    <3> QED BY <1>5, <3>1, <3>2, <3>3
  <2> QED BY <1>1, <1>4, <2>1, <2>2
<1>6. CASE SendMd
  <2>1. w.state # "IDLE" /\ u' = u /\ wfifo' = Append(wfifo, Md)
    BY <1>6 DEF SendMd, Put
  <2>2. w'.state = "WAIT_BRESP"
    BY <1>1, <1>6 DEF SendMd, WriterType
  <2> QED BY <1>1, <1>4, <2>1, <2>2
<1>7. ASSUME NEW good \in BOOLEAN, Response(good)
      PROVE  w.state # "IDLE" /\ w'.state = w.state /\ u' = u /\ wfifo' = wfifo
  BY <1>1, <1>7 DEF Response, IInv, UnitInv, EndInv, WriterType
<1> QED BY <1>1, <1>3, <1>4, <1>5, <1>6, <1>7 DEF WriterStep

LEMMA CompInit ==
  Init => CompInv
<1> SUFFICES ASSUME Init PROVE CompInv
  OBVIOUS
<1>1. /\ page \in Pages /\ page \in Seq(Nat) /\ Len(page) = PageLen
      /\ phase = "COMPRESS" /\ arrived = PageLen
  BY PageLines DEF Init
<1>2. PICK bad : source = Answers(page, bad)
  BY DEF Init
<1>3. Len(source) = PageLen /\ \A i \in 1 .. PageLen : source[i].data = page[i]
  BY <1>1, <1>2, Lengths DEF Answers, Line
<1>4. CompPlaces
  BY DEF Init, CompPlaces, IdleUnit, EmptyFifo, Fresh, Quiet
<1> QED BY <1>1, <1>3, <1>4 DEF Init, CompInv, IdleWriter

LEMMA CompStep ==
  ASSUME IInv, CompInv, [Next]_vars, FirstOnly
  PROVE  CompInv'
<1>1. /\ Types /\ page \in Pages
  BY DEF IInv, CompInv
<1>2. CASE Cycle
  <2>1. /\ w.state = "IDLE" /\ ~ u.incompressible /\ FifoCycle /\ (Beat \/ NoBeat)
        /\ UNCHANGED <<phase, page, source, w>> /\ UnitCycle
    BY <1>2 DEF Cycle
  <2>2. CASE phase = "COMPRESS"
    <3>1. Compressing
      BY <1>1, <2>1, <2>2 DEF IInv, UnitInv, CompInv, Compressing
    <3>2. CompCycle
      BY <2>1, <2>2 DEF UnitCycle
    <3>3. arrived' = PageLen
      BY <3>1, CompressingFacts
    <3> QED BY <1>1, <2>1, <3>1, <3>2, <3>3, CompFlow DEF CompInv
  <2> QED BY <1>1, <2>1, <2>2 DEF CompInv
<1>3. CASE WriterStep
  <2>1. UNCHANGED <<phase, page, source, arrived, fifo>>
    BY <1>3 DEF WriterStep
  <2>2. CASE phase = "COMPRESS"
    <3>1. Small' = Small /\ Compressed' = Compressed
      BY <2>1 DEF Small, ZeroChunks, ChunkOf, Compressed
    <3>2. /\ w'.state # "IDLE" /\ Len(wfifo) >= SlotLen /\ Len(wfifo) \in Nat
          /\ \A i \in 1 .. Len(wfifo) : wfifo'[i] = wfifo[i]
      BY <1>3, <2>2, WriterGoesOn DEF BurstLen
    <3>3. Small /\ Filled(SlotLen)
      <4>1. w.state = "IDLE" => u.state = "DONE"
        BY <1>3, WriterGoesOn
      <4> QED BY <2>2, <4>1 DEF CompInv, CompPlaces
    <3>4. \A i \in 1 .. SlotLen : wfifo'[i] = wfifo[i]
      BY <3>2, Lengths
    <3>5. Filled(SlotLen)'
      BY <3>1, <3>3, <3>4 DEF Filled, SlotLen
    <3> QED BY <1>1, <2>1, <2>2, <3>1, <3>2, <3>3, <3>5 DEF CompInv
  <2> QED BY <1>1, <2>1, <2>2 DEF CompInv
<1>4. CASE ManagerStep
  BY <1>1, <1>4 DEF ManagerStep, NextTransfer, Incompressible, CompInv
<1>5. CASE Stopped \/ UNCHANGED vars
  <2>1. UNCHANGED vars
    BY <1>5 DEF Stopped
  <2>2. CompPlaces' = CompPlaces /\ Small' = Small /\ Filled(SlotLen)' = Filled(SlotLen)
    BY <2>1 DEF vars, CompPlaces, Fresh, Quiet, Streaming, Counts, CountsTo, Drained,
                ZeroChunks, ChunkOf, Small, Filled, Compressed, Exact, SlotLen
  <2> QED BY <1>1, <2>1, <2>2 DEF CompInv, vars
<1> QED BY <1>2, <1>3, <1>4, <1>5 DEF Next

(* For pages that fit one chunk only if it is the first: the slot of a     *)
(* compressed page holds its metadata and then that chunk, in order.       *)
THEOREM ChunksFollowMetadata ==
  ASSUME Fits, FirstOnly
  PROVE  Spec => []ChunkFollowsMetadata
<1>1. Init => IInv /\ CompInv
  BY InitStep, CompInit
<1>2. IInv /\ CompInv /\ [Next]_vars => IInv' /\ CompInv'
  BY StepKeeps, CompStep
<1>3. IInv /\ CompInv => ChunkFollowsMetadata
  <2> SUFFICES ASSUME IInv, CompInv, phase = "COMPRESS", u.done
               PROVE  wfifo = Compressed
    BY DEF ChunkFollowsMetadata
  <2>1. w.state = "IDLE"
    BY DEF IInv, WriterInv
  <2>2. u.state = "DONE" /\ Len(wfifo) = SlotLen /\ wfifo \in Seq(Contents)
    BY <2>1 DEF IInv, UnitInv, Pushed, BurstLen, Types
  <2>3. Small /\ Filled(SlotLen) /\ page \in Pages
    BY <2>1, <2>2 DEF CompInv, CompPlaces
  <2>4. Compressed \in Seq(Contents) /\ Len(Compressed) = SlotLen
    BY <2>3, CompressedLines
  <2> QED BY <2>2, <2>3, <2>4, SeqEqual DEF Filled
<1> QED BY <1>1, <1>2, <1>3, PTL DEF Spec

-----------------------------------------------------------------------------
(* Migrator and decompressor read a slot while its lines come in.          *)
Slotted ==
  /\ Types /\ Pushed /\ page \in Pages /\ Small
  /\ FifoCycle /\ (Beat \/ NoBeat) /\ UNCHANGED <<phase, page, source>>
  /\ Len(source) = SlotLen /\ arrived >= 3
  /\ \A i \in 1 .. SlotLen : source[i].data = Compressed[i]

LEMMA SlottedFacts ==
  ASSUME Slotted
  PROVE  /\ Types /\ UnitType(u) /\ u.cnt \in Nat /\ u.exp \in 0 .. 4
         /\ u.rd_req \in BOOLEAN /\ u.send \in BOOLEAN /\ u.ld \in BOOLEAN
         /\ fifo.rd \in Nat /\ fifo.valid \in BOOLEAN /\ fifo.q_valid \in BOOLEAN
         /\ arrived \in Nat /\ arrived <= SlotLen /\ SlotLen <= PageLen
         /\ wfifo \in Seq(Contents) /\ Len(wfifo) \in Nat
         /\ Small' = Small /\ ZeroChunks' = ZeroChunks /\ Compressed' = Compressed
         /\ Compressed[1] = ChunkVec(ZeroChunks)
         /\ \A i \in 1 .. ChunkLen : Compressed[i + 1] = page[i]
<1>1. page' = page
  BY DEF Slotted
<1>2. ZeroChunks' = ZeroChunks /\ Compressed' = Compressed /\ Small' = Small
  BY <1>1 DEF ZeroChunks, Compressed, ChunkOf, Small
<1>3. arrived \in Nat /\ arrived <= SlotLen
  BY BeatFields DEF Slotted
<1>4. /\ Compressed[1] = ChunkVec(ZeroChunks)
      /\ \A i \in 1 .. ChunkLen : Compressed[i + 1] = page[i]
  BY CompressedLines DEF Slotted
<1> QED BY <1>2, <1>3, <1>4, Lengths DEF Slotted, Types, UnitType, FifoType

(* A cycle of a transfer, if the unit is in step with the FIFO.            *)
LEMMA TransferTracks ==
  ASSUME Slotted, NEW s \in UnitStates, NEW n, Transfer(s, n), u'.state = s,
         s # "BUS_ERROR", Tracks, NEW c \in Nat, NEW d \in Nat, d = c + B(fifo.valid)
  PROVE  /\ Tracks' /\ u'.vec = u.vec /\ u'.exp = u.exp
         /\ u'.cnt = u.cnt + B(fifo.valid)
         /\ Exact(c) => Exact(d)' \/ Short(d)'
         /\ Short(c) => Short(d)'
         /\ fifo.valid => wfifo' = Append(wfifo, fifo.r.data)
         /\ ~ fifo.valid => wfifo' = wfifo
<1>1. /\ u.cnt \in Nat /\ u.rd_req \in BOOLEAN /\ u.send \in BOOLEAN /\ fifo.valid \in BOOLEAN
      /\ Len(source) <= PageLen /\ Types /\ FifoCycle /\ (Beat \/ NoBeat)
      /\ UNCHANGED source
  BY SlottedFacts DEF Slotted
<1>2. /\ u'.vec = u.vec /\ u'.exp = u.exp /\ u'.ld = FALSE /\ u'.send = Sends
      /\ \/ ~ take /\ u'.cnt = u.cnt /\ wfifo' = wfifo
         \/ /\ take /\ u'.cnt = u.cnt + 1
            /\ wfifo' = Append(wfifo, fifo.r.data)
  BY <1>1, TransferFields
<1>3. take <=> fifo.valid
  BY DEF take, Tracks
<1>4. /\ Exact(c) => Exact(d)' \/ Short(d)'
      /\ Short(c) => Short(d)'
      /\ fifo'.rd <= arrived' /\ fifo'.addr = fifo'.rd
  BY <1>1, PipeStep
<1>5. fifo'.valid => u'.send
  <2>1. fifo'.valid => u.rd_req
    BY <1>1, FifoFields
  <2> QED BY <1>2, <2>1 DEF Sends, Tracks
<1>6. Tracks'
  BY <1>2, <1>4, <1>5 DEF Tracks
<1> QED BY <1>1, <1>2, <1>3, <1>4, <1>6 DEF B

LEMMA MigFlow ==
  ASSUME Slotted, MigPlaces, phase = "MIGRATE", MigrateCycle
  PROVE  MigPlaces'
<1>1. /\ Types /\ UnitType(u) /\ u.cnt \in Nat /\ fifo.rd \in Nat
      /\ arrived \in Nat /\ arrived <= SlotLen /\ SlotLen \in Nat
      /\ fifo.valid \in BOOLEAN /\ fifo.q_valid \in BOOLEAN
      /\ Compressed' = Compressed /\ source' = source /\ FifoCycle /\ Pushed
  BY SlottedFacts, Lengths DEF Slotted
<1>2. CASE MigrateStart
  <2>1. Fresh /\ wfifo' = wfifo
    BY <1>2 DEF MigrateStart, MigPlaces, PutNothing
  <2>2. /\ fifo'.rd = 0 /\ fifo'.addr = 0 /\ ~ fifo'.q_valid /\ ~ fifo'.valid
    BY <1>1, <2>1, FifoFields DEF Fresh, Quiet, Pop
  <2>3. CASE rdfifo_empty
    <3>1. u' = Step("IDLE")
      BY <1>2, <2>3 DEF MigrateStart
    <3>2. u'.state = "IDLE" /\ ~ u'.ld /\ u'.send = Sends /\ ~ u'.rd_req
      BY <1>1, <3>1, StepTo DEF UnitStates
    <3> QED BY <2>1, <2>2, <3>2 DEF MigPlaces, Fresh, Quiet, Sends
  <2>4. CASE ~ rdfifo_empty
    <3>1. u'.state = "FIFO_TRNSFR" /\ u'.cnt = 0 /\ ~ u'.ld /\ ~ u'.rd_req
      <4>1. /\ SameBut(Step("FIFO_TRNSFR"), "FIFO_TRNSFR")
            /\ Step("FIFO_TRNSFR").rd_req = FALSE /\ Step("FIFO_TRNSFR").ld = FALSE
        BY <1>1, StepFields, StepSignals DEF UnitStates
      <4>2. u' = [Step("FIFO_TRNSFR") EXCEPT !.cnt = 0]
        BY <1>2, <2>4 DEF MigrateStart
      <4> QED BY <4>1, <4>2 DEF SameBut, UnitType
    <3>2. arrived' \in Nat
      BY <1>1, BeatFields DEF Slotted
    <3>3. Tracks' /\ Exact(u.cnt)' /\ Filled(u.cnt)'
      BY <2>2, <3>1, <3>2 DEF Tracks, Exact, B, Filled
    <3> QED BY <3>1, <3>3 DEF MigPlaces
  <2> QED BY <2>3, <2>4
<1>3. CASE Transfer("FIFO_TRNSFR", SlotLen)
  <2>1. /\ u.state = "FIFO_TRNSFR" /\ u.cnt < SlotLen
        /\ u'.state \in {"FIFO_TRNSFR", "BUS_ERROR"}
    BY <1>1, <1>3, TransferFields DEF UnitStates
  <2>2. CASE u'.state = "BUS_ERROR"
    BY <2>2 DEF MigPlaces
  <2>3. CASE u'.state = "FIFO_TRNSFR"
    <3>1. /\ Tracks /\ Len(wfifo) = u.cnt
          /\ (Exact(u.cnt) /\ Filled(u.cnt)) \/ Short(u.cnt)
      BY <1>1, <2>1 DEF MigPlaces, Pushed
    <3>2. PICK c \in Nat, d \in Nat : c = u.cnt /\ d = c + B(fifo.valid)
      BY <1>1 DEF B
    <3>3. /\ Tracks' /\ u'.cnt = d
          /\ Exact(c) => Exact(d)' \/ Short(d)'
          /\ Short(c) => Short(d)'
          /\ fifo.valid => wfifo' = Append(wfifo, fifo.r.data)
          /\ ~ fifo.valid => wfifo' = wfifo
      BY <1>3, <2>3, <3>1, <3>2, TransferTracks DEF UnitStates
    <3>4. (Exact(d)' => Exact(u.cnt)') /\ (Short(d)' => Short(u.cnt)')
      BY <3>3 DEF Exact, Short
    <3>5. CASE Short(u.cnt)
      <4>1. Short(u.cnt)'
        BY <3>2, <3>3, <3>4, <3>5
      <4> QED BY <2>3, <3>3, <4>1 DEF MigPlaces
    <3>6. CASE Exact(u.cnt) /\ Filled(u.cnt)
      <4>1. Exact(u.cnt)' \/ Short(u.cnt)'
        BY <3>2, <3>3, <3>4, <3>6
      <4>2. Filled(u.cnt)'
        <5>1. CASE fifo.valid
          <6>1. u.cnt + 1 \in 1 .. SlotLen /\ u'.cnt = u.cnt + 1
            BY <1>1, <2>1, <3>2, <3>3, <5>1 DEF B
          <6>2. fifo.r.data = Compressed[u.cnt + 1]
            BY <3>6, <5>1, <6>1 DEF Exact, Slotted
          <6>3. \A i \in 1 .. u.cnt + 1 : wfifo'[i] = Compressed'[i]
            BY <1>1, <3>1, <3>3, <3>6, <5>1, <6>2, FilledOn
          <6> QED BY <6>1, <6>3 DEF Filled
        <5>2. CASE ~ fifo.valid
          <6>1. u'.cnt = u.cnt
            BY <1>1, <3>2, <3>3, <5>2 DEF B
          <6> QED BY <1>1, <3>3, <3>6, <5>2, <6>1 DEF Filled
        <5> QED BY <5>1, <5>2
      <4> QED BY <2>3, <3>3, <4>1, <4>2 DEF MigPlaces
    <3> QED BY <3>1, <3>5, <3>6
  <2> QED BY <2>1, <2>2, <2>3
<1>4. CASE MigrateDone
  <2>1. /\ u.cnt = SlotLen /\ Tracks /\ wfifo' = wfifo
        /\ (Exact(u.cnt) /\ Filled(u.cnt)) \/ Short(u.cnt)
    BY <1>4 DEF MigrateDone, MigPlaces, PutNothing
  <2>2. ~ Short(u.cnt)
    BY <1>1, <2>1 DEF Short, Tracks, B
  <2>3. u'.state = "DONE"
    BY <1>1, <1>4, StepTo DEF MigrateDone, UnitStates
  <2>4. Filled(SlotLen)'
    BY <1>1, <2>1, <2>2 DEF Filled, SlotLen
  <2> QED BY <2>3, <2>4 DEF MigPlaces
<1>5. CASE Finished
  <2>1. Filled(SlotLen) /\ wfifo' = wfifo
    BY <1>5 DEF Finished, MigPlaces, PutNothing
  <2>2. u'.state = "DONE"
    <3>1. SameBut(Step("DONE"), "DONE")
      BY <1>1, StepFields DEF UnitStates
    <3> QED BY <1>5, <3>1 DEF Finished, SameBut, UnitType
  <2>3. Filled(SlotLen)'
    BY <1>1, <2>1 DEF Filled, SlotLen
  <2> QED BY <2>2, <2>3 DEF MigPlaces
<1> QED BY <1>2, <1>3, <1>4, <1>5 DEF MigrateCycle

(* One line more of the page.                                              *)
LEMMA RestoredOn ==
  ASSUME Types, Restored, page' = page,
         NEW x, wfifo' = Append(wfifo, x), x = page[Len(wfifo) + 1]
  PROVE  Restored'
<1>1. wfifo \in Seq(Contents) /\ Len(wfifo) \in Nat
  BY DEF Types
<1>2. Len(wfifo') = Len(wfifo) + 1 /\ wfifo'[Len(wfifo) + 1] = x
  BY <1>1
<1>3. \A i \in 1 .. Len(wfifo) : wfifo'[i] = wfifo[i]
  BY <1>1
<1> QED BY <1>1, <1>2, <1>3 DEF Restored

LEMMA DecStart ==
  ASSUME Slotted, DecPlaces, DecompStart
  PROVE  DecPlaces'
<1>1. Types /\ UnitType(u) /\ FifoCycle
  BY SlottedFacts DEF Slotted
<1>2. Fresh
  BY DEF DecompStart, DecPlaces
<1>3. fifo'.rd = 0 /\ fifo'.addr = 0 /\ ~ fifo'.q_valid /\ ~ fifo'.valid
  BY <1>1, <1>2, FifoFields DEF Fresh, Quiet, Pop
<1>4. CASE rdfifo_empty
  <2>1. u' = Step("IDLE")
    BY <1>4 DEF DecompStart
  <2>2. u'.state = "IDLE" /\ ~ u'.ld /\ u'.send = Sends /\ ~ u'.rd_req
    BY <1>1, <2>1, StepTo DEF UnitStates
  <2> QED BY <1>2, <1>3, <2>2 DEF DecPlaces, Fresh, Quiet, Sends
<1>5. CASE ~ rdfifo_empty
  <2>1. /\ SameBut(Step("METADATA"), "METADATA") /\ Step("METADATA").ld = FALSE
        /\ Step("METADATA").rd_req = FALSE /\ Step("METADATA").send = Sends
    BY <1>1, StepFields, StepSignals DEF UnitStates
  <2>2. u' = [Step("METADATA") EXCEPT !.exp = 0]
    BY <1>5 DEF DecompStart
  <2>3. u'.state = "METADATA" /\ ~ u'.ld /\ ~ u'.rd_req /\ u'.send = Sends
    BY <2>1, <2>2 DEF SameBut, UnitType
  <2> QED BY <1>2, <1>3, <2>3 DEF DecPlaces, Fresh, Quiet, Sends
<1> QED BY <1>4, <1>5

LEMMA DecMetadata ==
  ASSUME Slotted, DecPlaces, Metadata
  PROVE  DecPlaces'
<1>1. /\ Types /\ UnitType(u) /\ FifoCycle /\ (Beat \/ NoBeat) /\ UNCHANGED source
      /\ arrived \in Nat /\ arrived >= 3 /\ Len(source) <= PageLen
      /\ u.rd_req \in BOOLEAN /\ u.send \in BOOLEAN
      /\ fifo.rd \in Nat /\ fifo.valid \in BOOLEAN /\ fifo.q_valid \in BOOLEAN
  BY SlottedFacts DEF Slotted
<1>2. /\ u.state = "METADATA" /\ ~ u.ld /\ u.send /\ (u.rd_req => fifo.addr = fifo.rd)
      /\ \/ Quiet /\ fifo.rd = 0
         \/ u.rd_req /\ Exact(0) /\ (fifo.valid => fifo.q_valid)
  BY DEF Metadata, DecPlaces
<1>3. take <=> fifo.valid
  BY <1>2 DEF take
<1>4. /\ SameBut(Reading("METADATA"), "METADATA") /\ SameBut(Reading("EXPAND"), "EXPAND")
      /\ SameBut(Reading("BUS_ERROR"), "BUS_ERROR")
  BY <1>1, StepFields DEF UnitStates
<1>5. CASE Quiet /\ fifo.rd = 0
  <2>1. u' = Reading("METADATA")
    BY <1>3, <1>5 DEF Metadata, Quiet
  <2>2. u'.state = "METADATA" /\ ~ u'.ld /\ u'.send = Sends /\ u'.rd_req
    <3>1. (arrived # fifo.rd /\ u.send) = TRUE
      BY <1>1, <1>2, <1>5
    <3>2. /\ u'.state = "METADATA" /\ u'.ld = FALSE /\ u'.send = Sends
          /\ u'.rd_req = (arrived # fifo.rd /\ u.send)
      BY <1>1, <2>1, StepTo DEF UnitStates
    <3> QED BY <3>1, <3>2
  <2>3. fifo'.rd = 0 /\ fifo'.addr = 0 /\ ~ fifo'.q_valid /\ ~ fifo'.valid
    BY <1>1, <1>2, <1>5, FifoFields DEF Quiet, Pop
  <2>4. Exact(0)'
    BY <2>3 DEF Exact, B
  <2> QED BY <1>5, <2>2, <2>3, <2>4 DEF DecPlaces, Sends, Quiet
<1>6. CASE u.rd_req /\ Exact(0) /\ (fifo.valid => fifo.q_valid)
  <2>1. fifo.rd = B(fifo.q_valid) + B(fifo.valid) /\ fifo.rd <= 2
    BY <1>1, <1>6 DEF Exact, B
  <2>2. Pop /\ Tracks
    BY <1>1, <1>2, <1>6, <2>1 DEF Pop, Tracks
  <2>3. fifo'.q_valid /\ (fifo'.valid <=> fifo.q_valid)
    BY <1>1, <1>2, <1>6, <2>2, FifoFields
  <2>4. CASE ~ fifo.valid
    <3>1. u' = Reading("METADATA")
      BY <1>3, <2>4 DEF Metadata
    <3>2. u'.state = "METADATA" /\ ~ u'.ld /\ u'.send = Sends /\ u'.rd_req
      <4>1. (arrived # fifo.rd /\ u.send) = TRUE
        BY <1>1, <1>2, <2>1
      <4>2. /\ u'.state = "METADATA" /\ u'.ld = FALSE /\ u'.send = Sends
            /\ u'.rd_req = (arrived # fifo.rd /\ u.send)
        BY <1>1, <3>1, StepTo DEF UnitStates
      <4> QED BY <4>1, <4>2
    <3>3. Exact(0)' /\ fifo'.addr = fifo'.rd
      <4>1. PICK c \in Nat, d \in Nat : c = 0 /\ d = 0 /\ d = c + B(fifo.valid)
        BY <2>4 DEF B
      <4>2. Exact(d)' /\ fifo'.addr = fifo'.rd
        BY <1>1, <1>6, <2>2, <4>1, PipeStep
      <4> QED BY <4>1, <4>2 DEF Exact
    <3> QED BY <2>3, <2>4, <3>2, <3>3 DEF DecPlaces, Sends
  <2>5. CASE fifo.valid
    <3>1. wfifo' = wfifo /\ Len(wfifo) = 0 /\ u.exp = 0
      BY <1>2 DEF Metadata, PutNothing, Slotted, Pushed
    <3>2. CASE ~ fifo.r.ok
      <4>1. u'.state = "BUS_ERROR"
        BY <1>3, <1>4, <2>5, <3>2 DEF Metadata, SameBut
      <4> QED BY <4>1 DEF DecPlaces
    <3>3. CASE fifo.r.ok
      <4>1. fifo.r = source[1] /\ 1 \in 1 .. SlotLen
        <5>1. fifo.r = source[0 + 1]
          BY <1>6, <2>5 DEF Exact
        <5> QED BY <5>1, Lengths
      <4>2. fifo.r.data = ChunkVec(ZeroChunks)
        BY <4>1, SlottedFacts DEF Slotted
      <4>3. Bits(fifo.r.data) = ZeroChunks
        BY <4>2, MetadataBits DEF Slotted
      <4>4. /\ Reading("EXPAND").rd_req = (arrived # fifo.rd /\ u.send)
            /\ Reading("EXPAND").ld = FALSE /\ Reading("EXPAND").send = Sends
        BY <1>1, StepSignals DEF UnitStates
      <4>5. u' = [Reading("EXPAND") EXCEPT !.vec = Bits(fifo.r.data)]
        BY <1>3, <2>5, <3>3 DEF Metadata
      <4>6. /\ u'.state = "EXPAND" /\ u'.vec = ZeroChunks /\ u'.exp = 0
            /\ u'.rd_req = (arrived # fifo.rd /\ u.send)
            /\ u'.ld = FALSE /\ u'.send = Sends
        BY <1>4, <3>1, <4>3, <4>4, <4>5 DEF SameBut, UnitType
      <4>7. u'.rd_req /\ u'.send
        <5>1. (arrived # fifo.rd /\ u.send) = TRUE
          BY <1>1, <1>2, <2>1
        <5>2. Sends = TRUE
          BY <1>2, <1>6 DEF Sends
        <5> QED BY <4>6, <5>1, <5>2
      <4>8. fifo'.valid /\ fifo'.q_valid
        BY <1>6, <2>3, <2>5
      <4>9. Restored' /\ ZeroChunks' = ZeroChunks
        BY <3>1, SlottedFacts DEF Restored
      <4> QED BY <4>6, <4>7, <4>8, <4>9 DEF DecPlaces
    <3> QED BY <3>2, <3>3
  <2> QED BY <1>1, <2>4, <2>5
<1> QED BY <1>2, <1>5, <1>6

LEMMA DecExpand ==
  ASSUME Slotted, DecPlaces, Expand
  PROVE  DecPlaces'
<1>1. /\ Types /\ UnitType(u) /\ FifoCycle /\ u.exp \in 0 .. 4 /\ ZeroChunks' = ZeroChunks
  BY SlottedFacts DEF Slotted
<1>2. /\ u.state = "EXPAND" /\ wfifo' = wfifo /\ page' = page /\ u.vec = ZeroChunks
      /\ Restored
  BY DEF Expand, PutNothing, DecPlaces, Slotted
<1>3. Restored'
  BY <1>2 DEF Restored
<1>4. ASSUME NEW s \in UnitStates, u' = [Step(s) EXCEPT !.cnt = 0]
      PROVE  u'.state = s /\ u'.vec = u.vec /\ u'.exp = u.exp /\ u'.rd_req = FALSE
  <2>1. SameBut(Step(s), s) /\ Step(s).rd_req = FALSE
    BY <1>1, StepFields, StepSignals
  <2> QED BY <1>4, <2>1 DEF SameBut, UnitType
<1>5. CASE u.exp = 4
  <2>1. u'.state = "DONE"
    BY <1>4, <1>5 DEF Expand, UnitStates
  <2> QED BY <1>3, <2>1 DEF DecPlaces
<1>6. CASE u.exp # 4 /\ u.exp \in u.vec
  <2>1. u'.state = "FILL_ZEROS" /\ u'.vec = u.vec /\ u'.exp = u.exp
    BY <1>4, <1>6 DEF Expand, UnitStates
  <2> QED BY <1>1, <1>2, <1>3, <1>6, <2>1 DEF DecPlaces
<1>7. CASE u.exp # 4 /\ u.exp \notin u.vec
  <2>1. /\ u'.state = "LD_FIFO_RDPTR" /\ u'.vec = u.vec /\ u'.exp = u.exp
        /\ u'.rd_req = FALSE
    BY <1>4, <1>7 DEF Expand, UnitStates
  <2>2. u.exp = 0
    BY <1>1, <1>2, <1>7 DEF Slotted, Small
  <2>3. fifo'.valid
    BY <1>1, <1>2, <2>2, FifoFields DEF DecPlaces
  <2> QED BY <1>1, <1>2, <2>1, <2>2, <2>3 DEF DecPlaces
<1> QED BY <1>5, <1>6, <1>7

LEMMA DecZeros ==
  ASSUME Slotted, DecPlaces, FillZeros
  PROVE  DecPlaces'
<1>1. /\ Types /\ UnitType(u) /\ u.cnt \in Nat /\ u.exp \in 0 .. 4
      /\ Len(wfifo) \in Nat /\ ZeroChunks' = ZeroChunks /\ page' = page /\ page \in Pages
  BY SlottedFacts DEF Slotted
<1>2. /\ u.state = "FILL_ZEROS" /\ u.cnt < ChunkLen /\ wfifo' = Append(wfifo, 0)
      /\ Restored /\ u.exp \in ZeroChunks /\ u.vec = ZeroChunks
      /\ Len(wfifo) = u.exp * ChunkLen + u.cnt
  BY DEF FillZeros, Put, DecPlaces, Slotted, Pushed
<1>3. page[Len(wfifo) + 1] = 0
  <2>1. u.exp \in Chunks
    BY <1>2 DEF ZeroChunks
  <2>2. \A i \in u.exp * ChunkLen + 1 .. (u.exp + 1) * ChunkLen : page[i] = 0
    BY <1>1, <1>2, <2>1, ChunkLines
  <2>3. (u.exp + 1) * ChunkLen = u.exp * ChunkLen + ChunkLen /\ u.exp * ChunkLen \in Int
    BY <1>1, Lengths
  <2>4. Len(wfifo) + 1 \in u.exp * ChunkLen + 1 .. (u.exp + 1) * ChunkLen
    BY <1>1, <1>2, <2>3, Lengths
  <2> QED BY <2>2, <2>4
<1>4. Restored'
  BY <1>1, <1>2, <1>3, RestoredOn
<1>5. u'.state = "FILL_ZEROS" /\ u'.vec = u.vec /\ u'.exp = u.exp
  <2>1. SameBut(Step("FILL_ZEROS"), "FILL_ZEROS")
    BY <1>1, StepFields DEF UnitStates
  <2> QED BY <2>1 DEF FillZeros, SameBut, UnitType
<1> QED BY <1>1, <1>2, <1>4, <1>5 DEF DecPlaces

LEMMA DecLoad ==
  ASSUME Slotted, DecPlaces, LdRdptr
  PROVE  DecPlaces'
<1>1. Types /\ UnitType(u) /\ FifoCycle /\ ZeroChunks' = ZeroChunks
  BY SlottedFacts DEF Slotted
<1>2. /\ u.state = "LD_FIFO_RDPTR" /\ u.vec = ZeroChunks /\ u.exp = 0 /\ ~ u.rd_req
      /\ fifo.valid \/ (~ fifo.q_valid /\ u.ld /\ u.ptr = 1)
  BY DEF LdRdptr, DecPlaces, Slotted, Pushed
<1>3. /\ ~ fifo'.q_valid /\ ~ fifo'.valid
      /\ fifo'.rd = IF u.ld THEN u.ptr ELSE fifo.rd
  BY <1>1, <1>2, FifoFields DEF Pop
<1>4. ASSUME NEW s \in UnitStates, u' = [Step(s) EXCEPT !.ld = TRUE, !.ptr = 1]
      PROVE  /\ u'.state = s /\ u'.vec = u.vec /\ u'.exp = u.exp /\ u'.cnt = u.cnt
             /\ u'.rd_req = FALSE /\ u'.ld /\ u'.ptr = 1
  <2>1. SameBut(Step(s), s) /\ Step(s).rd_req = FALSE
    BY <1>1, StepFields, StepSignals
  <2> QED BY <1>4, <2>1 DEF SameBut, UnitType
<1>5. CASE fifo.valid
  <2>1. /\ u'.state = "LD_FIFO_RDPTR" /\ u'.vec = u.vec /\ u'.exp = u.exp
        /\ u'.rd_req = FALSE /\ u'.ld /\ u'.ptr = 1
    BY <1>4, <1>5 DEF LdRdptr, UnitStates
  <2> QED BY <1>1, <1>2, <1>3, <2>1 DEF DecPlaces
<1>6. CASE ~ fifo.valid
  <2>1. /\ u'.state = "FIFO_READ_TRNSFR" /\ u'.vec = u.vec /\ u'.exp = u.exp
        /\ u'.cnt = u.cnt /\ u'.rd_req = FALSE /\ u'.ld /\ u'.ptr = 1
    BY <1>4, <1>6 DEF LdRdptr, UnitStates
  <2>2. u.cnt = 0 /\ fifo'.rd = 1
    BY <1>2, <1>3, <1>6 DEF Slotted, Pushed
  <2> QED BY <1>1, <1>2, <1>3, <2>1, <2>2 DEF DecPlaces, Quiet
<1> QED BY <1>5, <1>6

LEMMA DecTransfer ==
  ASSUME Slotted, DecPlaces, phase = "DECOMPRESS", Transfer("FIFO_READ_TRNSFR", ChunkLen)
  PROVE  DecPlaces'
<1>1. /\ Types /\ UnitType(u) /\ u.cnt \in Nat /\ FifoCycle /\ fifo.rd \in Nat
      /\ fifo.valid \in BOOLEAN /\ ZeroChunks' = ZeroChunks /\ page' = page
      /\ Len(wfifo) \in Nat /\ arrived \in Nat /\ arrived >= 3
  BY SlottedFacts DEF Slotted
<1>2. /\ u.state = "FIFO_READ_TRNSFR" /\ u.cnt < ChunkLen
      /\ u'.state \in {"FIFO_READ_TRNSFR", "BUS_ERROR"}
  BY <1>1, TransferFields DEF UnitStates
<1>3. /\ u.exp = 0 /\ u.vec = ZeroChunks /\ Len(wfifo) = u.cnt
      /\ \/ u.cnt = 0 /\ u.ld /\ u.ptr = 1 /\ fifo.rd = 1 /\ Quiet
         \/ Tracks /\ ((Exact(1 + u.cnt) /\ Restored) \/ Short(1 + u.cnt))
  <2>1. u.exp = 0 /\ Len(wfifo) = u.exp * ChunkLen + u.cnt
    BY <1>2 DEF DecPlaces, Slotted, Pushed
  <2>2. 0 * ChunkLen = 0
    BY Lengths
  <2> QED BY <1>1, <1>2, <2>1, <2>2 DEF DecPlaces
<1>4. CASE u'.state = "BUS_ERROR"
  BY <1>4 DEF DecPlaces
<1>5. CASE /\ u'.state = "FIFO_READ_TRNSFR"
           /\ u.cnt = 0 /\ u.ld /\ u.ptr = 1 /\ fifo.rd = 1 /\ Quiet
  <2>1. ~ take
    BY <1>5 DEF take, Quiet
  <2>2. /\ u'.vec = u.vec /\ u'.exp = u.exp /\ u'.ld = FALSE /\ u'.cnt = u.cnt
        /\ wfifo' = wfifo
    BY <1>1, <1>5, <2>1, TransferFields DEF UnitStates
  <2>3. fifo'.rd = 1 /\ fifo'.addr = 1 /\ ~ fifo'.q_valid /\ ~ fifo'.valid
    BY <1>1, <1>5, FifoFields DEF Quiet, Pop
  <2>4. arrived' >= 1 /\ arrived' \in Nat
    BY <1>1, BeatFields DEF Slotted
  <2>5. Tracks' /\ Exact(1 + u.cnt)' /\ Restored'
    BY <1>3, <1>5, <2>2, <2>3, <2>4 DEF Tracks, Exact, B, Restored
  <2> QED BY <1>1, <1>3, <1>5, <2>2, <2>5 DEF DecPlaces
<1>6. CASE /\ u'.state = "FIFO_READ_TRNSFR" /\ Tracks
           /\ (Exact(1 + u.cnt) /\ Restored) \/ Short(1 + u.cnt)
  <2>1. PICK c \in Nat, d \in Nat : c = 1 + u.cnt /\ d = c + B(fifo.valid)
    BY <1>1 DEF B
  <2>2. /\ Tracks' /\ u'.vec = u.vec /\ u'.exp = u.exp
        /\ u'.cnt = u.cnt + B(fifo.valid)
        /\ Exact(c) => Exact(d)' \/ Short(d)'
        /\ Short(c) => Short(d)'
        /\ fifo.valid => wfifo' = Append(wfifo, fifo.r.data)
        /\ ~ fifo.valid => wfifo' = wfifo
    BY <1>6, <2>1, TransferTracks DEF UnitStates
  <2>3. 1 + u'.cnt = d
    BY <1>1, <2>1, <2>2 DEF B
  <2>4. (Exact(d)' => Exact(1 + u.cnt)') /\ (Short(d)' => Short(1 + u.cnt)')
    BY <2>3 DEF Exact, Short
  <2>5. CASE Short(1 + u.cnt)
    <3>1. Short(1 + u.cnt)'
      BY <2>1, <2>2, <2>4, <2>5
    <3> QED BY <1>1, <1>3, <1>6, <2>2, <3>1 DEF DecPlaces
  <2>6. CASE Exact(1 + u.cnt) /\ Restored
    <3>1. Exact(1 + u.cnt)' \/ Short(1 + u.cnt)'
      BY <2>1, <2>2, <2>4, <2>6
    <3>2. Restored'
      <4>1. CASE fifo.valid
        <5>1. u.cnt + 1 \in 1 .. ChunkLen /\ (u.cnt + 1) + 1 \in 1 .. SlotLen
          BY <1>1, <1>2, Lengths
        <5>2. fifo.r = source[(u.cnt + 1) + 1]
          <6>1. (1 + u.cnt) + 1 = (u.cnt + 1) + 1
            BY <1>1
          <6> QED BY <2>6, <4>1, <6>1 DEF Exact
        <5>3. fifo.r.data = Compressed[(u.cnt + 1) + 1]
          BY <5>1, <5>2 DEF Slotted
        <5>4. Compressed[(u.cnt + 1) + 1] = page[u.cnt + 1]
          BY <5>1, SlottedFacts
        <5> QED BY <1>1, <1>3, <2>2, <2>6, <4>1, <5>3, <5>4, RestoredOn
      <4>2. CASE ~ fifo.valid
        BY <1>1, <2>2, <2>6, <4>2 DEF Restored
      <4> QED BY <4>1, <4>2
    <3> QED BY <1>1, <1>3, <1>6, <2>2, <3>1, <3>2 DEF DecPlaces
  <2> QED BY <1>6, <2>5, <2>6
<1> QED BY <1>2, <1>3, <1>4, <1>5, <1>6

LEMMA DecChunkDone ==
  ASSUME Slotted, DecPlaces, phase = "DECOMPRESS", ChunkDone
  PROVE  DecPlaces'
<1>1. /\ Types /\ UnitType(u) /\ u.exp \in 0 .. 4 /\ fifo.rd \in Nat
      /\ fifo.valid \in BOOLEAN /\ fifo.q_valid \in BOOLEAN
      /\ arrived \in Nat /\ arrived <= SlotLen /\ ZeroChunks' = ZeroChunks /\ page' = page
  BY SlottedFacts DEF Slotted
<1>2. /\ u.state \in {"FILL_ZEROS", "FIFO_READ_TRNSFR"} /\ u.cnt = ChunkLen
      /\ wfifo' = wfifo /\ u.vec = ZeroChunks /\ u.exp < 4
  BY DEF ChunkDone, PutNothing, DecPlaces, Slotted, Pushed
<1>3. Restored
  <2>1. CASE u.state = "FILL_ZEROS"
    BY <2>1 DEF DecPlaces
  <2>2. CASE u.state = "FIFO_READ_TRNSFR"
    <3>1. u.cnt # 0
      BY <1>2, Lengths
    <3>2. Tracks /\ ((Exact(1 + u.cnt) /\ Restored) \/ Short(1 + u.cnt))
      BY <2>2, <3>1 DEF DecPlaces
    <3>3. ~ Short(1 + u.cnt)
      BY <1>1, <1>2, <3>2, Lengths DEF Short, Tracks, B
    <3> QED BY <3>2, <3>3
  <2> QED BY <1>2, <2>1, <2>2
<1>4. Restored'
  BY <1>1, <1>2, <1>3 DEF Restored
<1>5. u'.state = "EXPAND" /\ u'.vec = u.vec /\ u'.exp = u.exp + 1
  <2>1. SameBut(Step("EXPAND"), "EXPAND") /\ SameBut(Reading("EXPAND"), "EXPAND")
    BY <1>1, StepFields DEF UnitStates
  <2>2. PICK v : SameBut(v, "EXPAND") /\ u' = [v EXCEPT !.exp = @ + 1]
    BY <2>1 DEF ChunkDone
  <2> QED BY <2>2 DEF SameBut, UnitType
<1>6. u'.exp # 0
  BY <1>1, <1>5
<1> QED BY <1>1, <1>2, <1>4, <1>5, <1>6 DEF DecPlaces

LEMMA DecFlow ==
  ASSUME Slotted, DecPlaces, phase = "DECOMPRESS", DecompCycle
  PROVE  DecPlaces'
<1>1. CASE Finished
  <2>1. Restored /\ wfifo' = wfifo /\ page' = page
    BY <1>1 DEF Finished, DecPlaces, PutNothing, Slotted
  <2>2. u'.state = "DONE"
    <3>1. SameBut(Step("DONE"), "DONE")
      BY SlottedFacts, StepFields DEF UnitStates
    <3> QED BY <1>1, <3>1 DEF Finished, SameBut, UnitType
  <2>3. Restored'
    BY <2>1 DEF Restored
  <2> QED BY <2>2, <2>3 DEF DecPlaces
<1> QED BY <1>1, DecStart, DecMetadata, DecExpand, DecZeros, DecLoad, DecTransfer,
           DecChunkDone DEF DecompCycle

-----------------------------------------------------------------------------
(* From transfer to transfer.                                              *)
LEMMA FlowInit ==
  Init => FlowInv
BY DEF Init, FlowInv, IdleWriter

LEMMA FlowCycle ==
  ASSUME IInv, CompInv, FlowInv, Cycle
  PROVE  FlowInv'
<1>1. /\ w.state = "IDLE" /\ UnitCycle /\ FifoCycle /\ (Beat \/ NoBeat)
      /\ UNCHANGED <<phase, page, source, w>>
  BY DEF Cycle
<1>2. CASE phase = "COMPRESS"
  BY <1>1, <1>2 DEF FlowInv
<1>3. CASE phase \in {"MIGRATE", "DECOMPRESS"}
  <2>1. Slotted
    BY <1>1, <1>3 DEF IInv, UnitInv, CompInv, FlowInv, Slotted
  <2>2. /\ Small' = Small /\ Compressed' = Compressed /\ SlotLen' = SlotLen
        /\ arrived \in Nat
    BY <2>1, SlottedFacts DEF SlotLen
  <2>3. arrived' >= 3
    BY <1>1, <1>3, <2>1, <2>2, BeatFields DEF Slotted, FlowInv
  <2>4. phase = "MIGRATE" => MigPlaces'
    BY <1>1, <2>1, MigFlow DEF FlowInv, UnitCycle
  <2>5. phase = "DECOMPRESS" => DecPlaces'
    BY <1>1, <2>1, DecFlow DEF FlowInv, UnitCycle
  <2> QED BY <1>1, <1>3, <2>2, <2>3, <2>4, <2>5 DEF FlowInv
<1> QED BY <1>1, <1>2, <1>3 DEF UnitCycle

LEMMA FlowWriter ==
  ASSUME IInv, FlowInv, WriterStep
  PROVE  FlowInv'
<1>1. UNCHANGED <<phase, page, source, arrived, fifo>>
  BY DEF WriterStep
<1>2. /\ phase # "END" /\ w'.state # "IDLE"
      /\ w.state = "IDLE" => u.state = "DONE"
      /\ Len(wfifo) \in Nat /\ Len(wfifo) >= BurstLen
      /\ \A i \in 1 .. Len(wfifo) : wfifo'[i] = wfifo[i]
  BY WriterGoesOn
<1>3. u' = IdleUnit
  BY WriterGoesOn DEF FlowInv
<1>4. Small' = Small /\ Compressed' = Compressed
  BY <1>1 DEF Small, ZeroChunks, ChunkOf, Compressed
<1>5. CASE phase = "MIGRATE"
  <2>1. Filled(SlotLen)
    BY <1>2, <1>5 DEF FlowInv, MigPlaces
  <2>2. \A i \in 1 .. SlotLen : wfifo'[i] = wfifo[i]
    BY <1>2, <1>5, Lengths
  <2>3. Filled(SlotLen)'
    BY <1>4, <2>1, <2>2 DEF Filled, SlotLen
  <2> QED BY <1>1, <1>2, <1>3, <1>4, <1>5, <2>3 DEF FlowInv, SlotLen
<1>6. CASE phase = "DECOMPRESS"
  <2>1. Len(wfifo) >= PageLen
    BY <1>2, <1>6 DEF BurstLen
  <2>2. \A i \in 1 .. PageLen : wfifo[i] = page[i]
    <3>1. CASE w.state = "IDLE"
      <4>1. Restored
        BY <1>2, <1>6, <3>1 DEF FlowInv, DecPlaces
      <4> QED BY <1>2, <2>1, <4>1, Lengths DEF Restored
    <3>2. CASE w.state # "IDLE"
      BY <1>6, <3>2 DEF FlowInv
    <3> QED BY <3>1, <3>2
  <2>3. \A i \in 1 .. PageLen : wfifo'[i] = page'[i]
    BY <1>1, <1>2, <2>1, <2>2, Lengths
  <2> QED BY <1>1, <1>2, <1>3, <1>4, <1>6, <2>3 DEF FlowInv, SlotLen, PageLen
<1> QED BY <1>1, <1>2, <1>3, <1>5, <1>6 DEF FlowInv

(* The next transfer reads what this one wrote.                            *)
LEMMA FlowNext ==
  ASSUME IInv, CompInv, FlowInv, Early >= 3,
         NEW next \in {"MIGRATE", "DECOMPRESS"}, NextTransfer(next),
         phase \in {"COMPRESS", "MIGRATE"}
  PROVE  FlowInv'
<1>1. /\ w.state = "WAIT_BRESP" /\ w.pending = 1 /\ phase' = next /\ w' = IdleWriter
      /\ page' = page /\ u' = u /\ fifo' = EmptyFifo /\ arrived' \in Early .. SlotLen - 1
  BY DEF NextTransfer
<1>2. u' = IdleUnit /\ w'.state = "IDLE"
  BY <1>1 DEF FlowInv, IdleWriter
<1>3. target = wfifo /\ wfifo \in Seq(Contents) /\ Len(wfifo) >= SlotLen
  <2>1. target = wfifo
    BY <1>1, Written DEF DoneMeansWritten
  <2>2. wfifo \in Seq(Contents) /\ Len(wfifo) \in Nat
    BY DEF IInv, Types
  <2>3. Len(wfifo) >= BurstLen
    BY <1>1, <2>2, Lengths DEF IInv, WriterInv, Addressed
  <2> QED BY <2>1, <2>2, <2>3, Lengths
<1>4. Small /\ Filled(SlotLen)
  BY <1>1 DEF CompInv, FlowInv
<1> DEFINE slot == SubSeq(target, 1, SlotLen)
<1>5. /\ slot \in Seq(Contents) /\ Len(slot) = SlotLen
      /\ \A i \in 1 .. SlotLen : slot[i] = Compressed[i]
  <2>1. \A i \in 1 .. SlotLen : wfifo[i] \in Contents
    BY <1>3, Lengths
  <2>2. /\ slot \in Seq(Contents) /\ Len(slot) = SlotLen
        /\ \A i \in 1 .. SlotLen : slot[i] = wfifo[i]
    BY <1>3, <2>1, SubSeqProperties, Lengths
  <2> QED BY <1>4, <2>2 DEF Filled
<1>6. PICK bad : source' = Answers(slot, bad)
  BY DEF NextTransfer
<1> HIDE DEF slot
<1>7. /\ Len(source') = SlotLen
      /\ \A i \in 1 .. SlotLen : source'[i].data = Compressed[i]
  BY <1>5, <1>6, Lengths DEF Answers, Line
<1>8. arrived' >= 3
  BY <1>1, Lengths, StreamAssumption
<1>9. Small' = Small /\ Compressed' = Compressed /\ SlotLen' = SlotLen
  BY <1>1 DEF Small, ZeroChunks, ChunkOf, Compressed, SlotLen
<1>10. MigPlaces' /\ DecPlaces'
  <2>1. Fresh'
    BY <1>1, <1>2 DEF Fresh, Quiet, EmptyFifo, IdleUnit
  <2>2. u'.state = "IDLE"
    BY <1>2 DEF IdleUnit
  <2> QED BY <2>1, <2>2 DEF MigPlaces, DecPlaces
<1> QED BY <1>1, <1>2, <1>4, <1>7, <1>8, <1>9, <1>10 DEF FlowInv

LEMMA FlowEnd ==
  ASSUME IInv, CompInv, FlowInv,
         Incompressible \/ (phase = "DECOMPRESS" /\ NextTransfer("END"))
  PROVE  FlowInv'
<1>1. CASE Incompressible
  <2>1. /\ u.incompressible /\ phase' = "END" /\ u' = IdleUnit
        /\ UNCHANGED <<page, w, target>>
    BY <1>1 DEF Incompressible
  <2>2. w.state = "IDLE"
    BY <2>1 DEF IInv, WriterInv
  <2>3. PageRestored'
    <3>1. CASE phase = "END"
      BY <2>1, <3>1 DEF FlowInv, PageRestored, PageLen
    <3>2. CASE phase # "END"
      BY <2>1, <2>2, <3>2 DEF IInv, UnitInv, PageRestored
    <3> QED BY <3>1, <3>2
  <2> QED BY <2>1, <2>2, <2>3 DEF FlowInv
<1>2. CASE phase = "DECOMPRESS" /\ NextTransfer("END")
  <2>1. /\ w.state = "WAIT_BRESP" /\ w.pending = 1 /\ phase' = "END" /\ w' = IdleWriter
        /\ UNCHANGED <<page, u, target>>
    BY <1>2 DEF NextTransfer
  <2>2. target = wfifo /\ wfifo \in Seq(Contents) /\ Len(wfifo) >= PageLen
    <3>1. target = wfifo
      BY <2>1, Written DEF DoneMeansWritten
    <3>2. wfifo \in Seq(Contents) /\ Len(wfifo) \in Nat
      BY DEF IInv, Types
    <3>3. Len(wfifo) >= BurstLen /\ BurstLen = PageLen
      BY <1>2, <2>1, <3>2, Lengths DEF IInv, WriterInv, Addressed, BurstLen
    <3> QED BY <3>1, <3>2, <3>3
  <2>3. \A i \in 1 .. PageLen : wfifo[i] = page[i]
    BY <1>2, <2>1 DEF FlowInv
  <2>4. page \in Seq(Nat) /\ Len(page) = PageLen
    BY PageLines DEF CompInv
  <2>5. SubSeq(target, 1, PageLen) = page
    <3>1. \A i \in 1 .. PageLen : wfifo[i] \in Contents
      BY <2>2, Lengths
    <3>2. /\ SubSeq(target, 1, PageLen) \in Seq(Contents)
          /\ Len(SubSeq(target, 1, PageLen)) = PageLen
          /\ \A i \in 1 .. PageLen : SubSeq(target, 1, PageLen)[i] = wfifo[i]
      BY <2>2, <3>1, SubSeqProperties, Lengths
    <3>3. page \in Seq(Contents)
      BY <2>4 DEF Contents
    <3> HIDE DEF PageLen
    <3> QED BY <2>3, <2>4, <3>2, <3>3, SeqEqual
  <2>6. PageRestored'
    BY <2>1, <2>5 DEF PageRestored, PageLen
  <2>7. w'.state = "IDLE"
    BY <2>1 DEF IdleWriter
  <2> QED BY <2>1, <2>6, <2>7 DEF FlowInv
<1> QED BY <1>1, <1>2

LEMMA FlowStep ==
  ASSUME IInv, CompInv, FlowInv, [Next]_vars, Early >= 3
  PROVE  FlowInv'
<1>1. CASE Cycle
  BY <1>1, FlowCycle
<1>2. CASE WriterStep
  BY <1>2, FlowWriter
<1>3. CASE ManagerStep
  BY <1>3, FlowNext, FlowEnd DEF ManagerStep
<1>4. CASE Stopped \/ UNCHANGED vars
  <2>1. UNCHANGED vars
    BY <1>4 DEF Stopped
  <2>2. /\ MigPlaces' = MigPlaces /\ DecPlaces' = DecPlaces /\ Small' = Small
        /\ Filled(SlotLen)' = Filled(SlotLen) /\ Compressed' = Compressed
        /\ PageRestored' = PageRestored
    BY <2>1 DEF vars, MigPlaces, DecPlaces, Fresh, Quiet, Tracks, Exact, Short, Restored,
                ZeroChunks, ChunkOf, Small, Filled, Compressed, SlotLen, PageRestored, PageLen
  <2> QED BY <2>1, <2>2 DEF FlowInv, vars, SlotLen, PageLen
<1> QED BY <1>1, <1>2, <1>3, <1>4 DEF Next

(* For pages that fit one chunk only if it is the first, if a unit starts  *)
(* with three lines or more of its slot in the FIFO: a page that was       *)
(* compressed, perhaps moved, and expanded is in memory as it was.         *)
THEOREM PagesAreRestored ==
  ASSUME Fits, FirstOnly, Early >= 3
  PROVE  Spec => []PageRestored
<1>1. Init => IInv /\ CompInv /\ FlowInv
  BY InitStep, CompInit, FlowInit
<1>2. IInv /\ CompInv /\ FlowInv /\ [Next]_vars => IInv' /\ CompInv' /\ FlowInv'
  BY StepKeeps, CompStep, FlowStep
<1>3. IInv /\ CompInv /\ FlowInv => PageRestored
  <2> SUFFICES ASSUME FlowInv, phase = "END", target # << >>
               PROVE  SubSeq(target, 1, PageLen) = page
    BY DEF PageRestored
  <2> QED BY DEF FlowInv, PageRestored
<1> QED BY <1>1, <1>2, <1>3, PTL DEF Spec
=============================================================================
