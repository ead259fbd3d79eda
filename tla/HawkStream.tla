------------------------------- MODULE HawkStream -------------------------------
(***************************************************************************)
(* The way of a page through HAWK, line by line and cycle by cycle: out of *)
(* the read FIFO (hawk_axird_master.sv) through the compressor, moved to   *)
(* another slot by the migrator, expanded again by the decompressor        *)
(* (comp_decomp/), and each time written to memory by the page writer with *)
(* posted writes (hawk_cmpdcmp_wr_mngr.sv, hawk_pgwr_mngr.sv).             *)
(* A cycle is a conjunction: unprimed names are the registers before it.   *)
(***************************************************************************)
EXTENDS Integers, Sequences

CONSTANTS
  ChunkLen,   \* lines in a chunk; a page has four
  Pages,      \* contents of pages: sequences of lines, 0 a line of zeros
  Early,      \* lines that are in the FIFO, at least, when a unit starts
  MinGap, MaxGap, \* cycles from one line of the memory to the next
  MaxErrors   \* bound: reads and writes the memory answers with an error

PageLen == 4 * ChunkLen
SlotLen == ChunkLen + 1       \* a line of metadata and one chunk
Chunks == 0 .. 3
Junk == -1                    \* a line of some earlier transfer
Md == -2                      \* the zspage's metadata line

ASSUME StreamAssumption ==
  /\ ChunkLen \in Nat \ {0} /\ MaxErrors \in Nat /\ Early \in 0 .. ChunkLen
  /\ MinGap \in Nat \ {0} /\ MaxGap \in Nat /\ MinGap <= MaxGap
  /\ \A p \in Pages : p \in [1 .. PageLen -> Nat]

VARIABLES
  phase,      \* the transfer under way, or END
  page,       \* the page as it was before it was compressed
  source,     \* the lines the transfer reads, and memory's answer to each
  arrived,    \* how many of them are in the FIFO's store
  since,      \* cycles since the last one arrived
  fifo,       \* read FIFO: pointers and two stages of output
  u,          \* compressor, migrator or decompressor, whichever is started
  wfifo,      \* lines pushed into the write FIFO
  w,          \* page writer: state, burst count, posted writes
  target,     \* lines that are in memory
  errors      \* errors so far

vars == <<phase, page, source, arrived, since, fifo, u, wfifo, w, target, errors>>

Line(d, good) == [data |-> d, ok |-> good]
Answers(lines, bad) == [i \in 1 .. Len(lines) |-> Line(lines[i], i # bad)]
(* The line memory answers with an error: none, 0, or any.                 *)
BadLine(lines) == 0 .. IF errors < MaxErrors THEN Len(lines) ELSE 0

EmptyFifo == [rd |-> 0, addr |-> 0, q |-> Line(Junk, TRUE), q_valid |-> FALSE,
              r |-> Line(Junk, TRUE), valid |-> FALSE]
IdleUnit == [state |-> "IDLE", cnt |-> 0, zeros |-> 0, prev |-> 0, vec |-> {},
             exp |-> 0, rd_req |-> FALSE, send |-> TRUE, ld |-> FALSE,
             ptr |-> 0, done |-> FALSE, incompressible |-> FALSE]
IdleWriter == [state |-> "IDLE", burst |-> 0, pending |-> 1, owed |-> 0]

(* The compressor is started when the FIFO is full.                        *)
Init ==
  /\ phase = "COMPRESS" /\ page \in Pages
  /\ \E bad \in 0 .. IF MaxErrors > 0 THEN PageLen ELSE 0 :
       /\ source = Answers(page, bad)
       /\ errors = IF bad > 0 THEN 1 ELSE 0
  /\ arrived = PageLen /\ since = 0
  /\ fifo = EmptyFifo
  /\ u = IdleUnit /\ wfifo = << >> /\ w = IdleWriter /\ target = << >>

-----------------------------------------------------------------------------
(* The read FIFO, which was reset before the transfer and holds a page, so *)
(* that a transfer never goes round it.  A pop moves the pointer whether   *)
(* or not the line popped is still asked for a cycle later: if not, its    *)
(* valid bit falls and it is gone.  The store is addressed by a copy of    *)
(* the read pointer that learns of a load a cycle late.                    *)
rdfifo_empty == arrived = fifo.rd
Stored(addr) == IF addr % PageLen < arrived THEN source[(addr % PageLen) + 1]
                ELSE Line(Junk, TRUE)

FifoCycle ==
  LET pop == u.rd_req /\ ~ rdfifo_empty
      rd_ptr_next == IF pop THEN fifo.rd + 1 ELSE fifo.rd
  IN  fifo' =
        [rd |-> IF u.ld THEN u.ptr ELSE rd_ptr_next,
         addr |-> rd_ptr_next,
         q |-> IF pop THEN Stored(fifo.addr) ELSE fifo.q,
         q_valid |-> pop /\ ~ u.ld,
         r |-> IF u.rd_req THEN fifo.q ELSE fifo.r,
         valid |-> u.rd_req /\ fifo.q_valid]

(* In a cycle a line arrives from memory or none does.                     *)
Beat == /\ arrived < Len(source) /\ since >= MinGap
        /\ arrived' = arrived + 1
        /\ since' = IF arrived' = Len(source) THEN 0 ELSE 1
NoBeat == /\ UNCHANGED arrived
          /\ IF arrived = Len(source) THEN UNCHANGED since
             ELSE since < MaxGap /\ since' = since + 1

-----------------------------------------------------------------------------
(* What the three units share: registers that fall unless set, the request *)
(* to the FIFO, and the line it offers, ignored while send_rd_req is low.  *)
Step(s) ==
  [u EXCEPT !.state = s, !.rd_req = FALSE, !.ld = FALSE, !.done = FALSE,
            !.incompressible = FALSE,
            !.send = IF ~ fifo.valid THEN TRUE ELSE @ /\ u.rd_req]
Reading(s) == [Step(s) EXCEPT !.rd_req = ~ rdfifo_empty /\ u.send]
take == fifo.valid /\ u.send
Put(line) == wfifo' = Append(wfifo, line)
PutNothing == UNCHANGED wfifo

(* Transfer n lines of the FIFO to the write FIFO.                         *)
Transfer(s, n) ==
  /\ u.state = s /\ u.cnt < n
  /\ \/ ~ take /\ u' = Reading(s) /\ PutNothing
     \/ /\ take /\ fifo.r.ok
        /\ u' = [Reading(s) EXCEPT !.cnt = @ + 1]
        /\ Put(fifo.r.data)
     \/ take /\ ~ fifo.r.ok /\ u' = Reading("BUS_ERROR") /\ PutNothing

Finished == u.state = "DONE" /\ u' = [Step("DONE") EXCEPT !.done = TRUE]
            /\ PutNothing

-----------------------------------------------------------------------------
(* Bits of the metadata line: the chunks that are zero.                    *)
Bits(n) == {k \in Chunks : (n \div 2 ^ k) % 2 = 1}
ChunkVec(vec) == CHOOSE n \in 0 .. 15 : Bits(n) = vec

(* compressor.sv.  First pass: count the zero lines of each chunk, decided *)
(* in the cycles in which the count stands at the chunk's end.             *)
CheckChunk(n) ==
  IF u.cnt = 0 \/ u.cnt % ChunkLen # 0 THEN n
  ELSE LET k == (u.cnt \div ChunkLen) - 1
       IN  [n EXCEPT !.vec = IF u.zeros - u.prev = ChunkLen
                             THEN @ \cup {k} ELSE @ \ {k},
                     !.prev = u.zeros]

CompStart ==
  /\ u.state = "IDLE" /\ ~ rdfifo_empty
  /\ u' = [Step("COMP_CHECK1") EXCEPT !.zeros = 0, !.cnt = 0, !.vec = {}, !.prev = 0]
  /\ PutNothing
CompCheck1 ==
  /\ u.state = "COMP_CHECK1"
  /\ u' = CheckChunk(
       IF u.cnt = PageLen THEN Reading("COMP_CHECK2")
       ELSE IF ~ take THEN Reading("COMP_CHECK1")
       ELSE IF ~ fifo.r.ok THEN Reading("BUS_ERROR")
       ELSE [Reading("COMP_CHECK1") EXCEPT
               !.cnt = @ + 1,
               !.zeros = IF fifo.r.data = 0 THEN @ + 1 ELSE @])
  /\ PutNothing
CompCheck2 ==
  /\ u.state = "COMP_CHECK2"
  /\ u' = IF \E k \in Chunks : Chunks \ {k} \subseteq u.vec THEN Step("COMPRESS")
          ELSE [Step("IDLE") EXCEPT !.incompressible = TRUE]
  /\ PutNothing

(* Mutant: the pointer counts the metadata line, as the decompressor's.    *)
MutRdptrOf(vec) ==
  IF vec = Chunks THEN 1
  ELSE LET k == CHOOSE c \in Chunks \ vec : \A d \in Chunks \ vec : c <= d
       IN  (k * ChunkLen) + 1

(* Second pass: metadata, then from the line the pointer is loaded with.   *)
rdptr_of(vec) ==
  IF vec = Chunks THEN 0
  ELSE LET k == CHOOSE c \in Chunks \ vec : \A d \in Chunks \ vec : c <= d
       IN  IF k = 0 THEN 0 ELSE (k * ChunkLen) - 1
Compress ==
  /\ u.state = "COMPRESS" /\ u' = Step("LOAD_FIFO_RDPTR")
  /\ Put(ChunkVec(u.vec))
LoadRdptr ==
  /\ u.state = "LOAD_FIFO_RDPTR"
  /\ u' = [Step("FIFO_READ_TRNSFR") EXCEPT !.ld = TRUE, !.cnt = 0,
                                           !.ptr = rdptr_of(u.vec)]
  /\ PutNothing
CompDone ==
  /\ u.state = "FIFO_READ_TRNSFR" /\ u.cnt = ChunkLen
  /\ u' = Reading("DONE") /\ PutNothing

CompCycle ==
  \/ CompStart \/ CompCheck1 \/ CompCheck2 \/ Compress \/ LoadRdptr
  \/ Transfer("FIFO_READ_TRNSFR", ChunkLen) \/ CompDone \/ Finished

-----------------------------------------------------------------------------
(* decompressor.sv.                                                        *)
DecompStart ==
  /\ u.state = "IDLE"
  /\ u' = IF rdfifo_empty THEN Step("IDLE")
          ELSE [Step("METADATA") EXCEPT !.exp = 0]
  /\ PutNothing
Metadata ==
  /\ u.state = "METADATA"
  /\ u' = IF ~ take THEN Reading("METADATA")
          ELSE IF ~ fifo.r.ok THEN Reading("BUS_ERROR")
          ELSE [Reading("EXPAND") EXCEPT !.vec = Bits(fifo.r.data)]
  /\ PutNothing
Expand ==
  /\ u.state = "EXPAND"
  /\ u' = [Step(IF u.exp = 4 THEN "DONE"
                ELSE IF u.exp \in u.vec THEN "FILL_ZEROS" ELSE "LD_FIFO_RDPTR")
             EXCEPT !.cnt = 0]
  /\ PutNothing
FillZeros ==
  /\ u.state = "FILL_ZEROS" /\ u.cnt < ChunkLen
  /\ u' = [Step("FILL_ZEROS") EXCEPT !.cnt = @ + 1]
  /\ Put(0)
ChunkDone ==
  /\ u.state \in {"FILL_ZEROS", "FIFO_READ_TRNSFR"} /\ u.cnt = ChunkLen
  /\ u' = [(IF u.state = "FILL_ZEROS" THEN Step("EXPAND") ELSE Reading("EXPAND"))
             EXCEPT !.exp = @ + 1]
  /\ PutNothing

(* Mutant: loads what the compressor loads for the first chunk.            *)
MutLdMetadata ==
  /\ u.state = "LD_FIFO_RDPTR"
  /\ u' = [Step(IF fifo.valid THEN "LD_FIFO_RDPTR" ELSE "FIFO_READ_TRNSFR")
             EXCEPT !.ld = TRUE, !.ptr = 0]
  /\ PutNothing

(* Mutant: the chunk is read from the line after its first.                *)
MutLdSecond ==
  /\ u.state = "LD_FIFO_RDPTR"
  /\ u' = [Step(IF fifo.valid THEN "LD_FIFO_RDPTR" ELSE "FIFO_READ_TRNSFR")
             EXCEPT !.ld = TRUE, !.ptr = 2]
  /\ PutNothing

LdRdptr ==
  /\ u.state = "LD_FIFO_RDPTR"
  /\ u' = [Step(IF fifo.valid THEN "LD_FIFO_RDPTR" ELSE "FIFO_READ_TRNSFR")
             EXCEPT !.ld = TRUE, !.ptr = 1]
  /\ PutNothing

DecompCycle ==
  \/ DecompStart \/ Metadata \/ Expand \/ FillZeros \/ LdRdptr
  \/ Transfer("FIFO_READ_TRNSFR", ChunkLen) \/ ChunkDone \/ Finished

(* migrator.sv: a slot as it is.                                           *)
MigrateStart ==
  /\ u.state = "IDLE"
  /\ u' = IF rdfifo_empty THEN Step("IDLE")
          ELSE [Step("FIFO_TRNSFR") EXCEPT !.cnt = 0]
  /\ PutNothing
MigrateDone ==
  /\ u.state = "FIFO_TRNSFR" /\ u.cnt = SlotLen
  /\ u' = Reading("DONE") /\ PutNothing
MigrateCycle ==
  \/ MigrateStart \/ Transfer("FIFO_TRNSFR", SlotLen) \/ MigrateDone \/ Finished

UnitCycle == \/ phase = "COMPRESS" /\ CompCycle
             \/ phase = "MIGRATE" /\ MigrateCycle
             \/ phase = "DECOMPRESS" /\ DecompCycle

(* One cycle of unit and FIFO, until the manager sees that the unit is     *)
(* done; a unit that read a bad line stays in BUS_ERROR.                   *)
Cycle ==
  /\ w.state = "IDLE" /\ ~ u.done /\ ~ u.incompressible
  /\ UnitCycle /\ FifoCycle /\ (Beat \/ NoBeat)
  /\ UNCHANGED <<phase, page, source, w, target, errors>>

-----------------------------------------------------------------------------
(* The page writer: addresses for a burst of the length it knows, then the *)
(* zspage's metadata, then it waits until its count of posted writes is    *)
(* back at one.  The data are in the write FIFO already.                   *)
BurstLen == IF phase = "DECOMPRESS" THEN PageLen ELSE SlotLen

(* Mutant: a counter of six bits.                                          *)
MutPost(s) == [w EXCEPT !.state = s, !.pending = (@ + 1) % 64, !.owed = @ + 1]

Post(s) == [w EXCEPT !.state = s, !.pending = (@ + 1) % 128, !.owed = @ + 1]

StartWriter ==
  /\ u.done /\ w.state = "IDLE"
  /\ w' = [w EXCEPT !.state = "TRNSFR", !.burst = 0]
  /\ u' = IdleUnit
  /\ UNCHANGED <<wfifo, target>>
SendAddr ==
  /\ w.state = "TRNSFR" /\ w.burst < BurstLen
  /\ w' = [Post("TRNSFR") EXCEPT !.burst = @ + 1]
  /\ UNCHANGED <<u, wfifo, target>>
BurstSent ==
  /\ w.state = "TRNSFR" /\ w.burst = BurstLen
  /\ w' = [w EXCEPT !.state = IF phase = "MIGRATE" THEN "WAIT_BRESP"
                              ELSE "ZS_PAGE_UPDATE_ADDR"]
  /\ UNCHANGED <<u, wfifo, target>>
SendMdAddr ==
  /\ w.state = "ZS_PAGE_UPDATE_ADDR"
  /\ w' = Post("ZS_PAGE_UPDATE_DATA")
  /\ UNCHANGED <<u, wfifo, target>>
SendMd ==
  /\ w.state = "ZS_PAGE_UPDATE_DATA"
  /\ w' = [w EXCEPT !.state = "WAIT_BRESP"]
  /\ Put(Md)
  /\ UNCHANGED <<u, target>>

(* Memory answers a write of which it has address and data.  An error is   *)
(* not counted down.                                                       *)
Response(good) ==
  /\ w.owed > 0 /\ Len(target) < Len(wfifo)
  /\ w' = [w EXCEPT !.owed = @ - 1, !.pending = IF good THEN (@ - 1) % 128 ELSE @]
  /\ target' = Append(target, IF good THEN wfifo[Len(target) + 1] ELSE Junk)
  /\ UNCHANGED <<u, wfifo>>

WriterStep ==
  /\ \/ /\ StartWriter \/ SendAddr \/ BurstSent \/ SendMdAddr \/ SendMd \/ Response(TRUE)
        /\ UNCHANGED errors
     \/ errors < MaxErrors /\ Response(FALSE) /\ errors' = errors + 1
  /\ UNCHANGED <<phase, page, source, arrived, since, fifo>>

(* The writer is through: on to the next transfer, which reads what this   *)
(* one wrote.  A burst's last line is not in the FIFO yet when the unit    *)
(* is started; any of the others may be.                                   *)
NextTransfer(next) ==
  /\ w.state = "WAIT_BRESP" /\ w.pending = 1
  /\ phase' = next
  /\ w' = IdleWriter /\ wfifo' = << >>
  /\ IF next = "END" THEN UNCHANGED <<source, arrived, since, fifo, target, errors>>
     ELSE LET slot == SubSeq(target, 1, SlotLen) IN
          /\ \E bad \in BadLine(slot) :
               /\ source' = Answers(slot, bad)
               /\ errors' = IF bad > 0 THEN errors + 1 ELSE errors
          /\ arrived' \in Early .. SlotLen - 1
          /\ since' \in 1 .. MaxGap
          /\ fifo' = EmptyFifo /\ target' = << >>
  /\ UNCHANGED <<page, u>>

(* A page that does not compress stays where it is.                        *)
Incompressible ==
  /\ u.incompressible
  /\ phase' = "END" /\ u' = IdleUnit
  /\ UNCHANGED <<page, source, arrived, since, fifo, wfifo, w, target, errors>>

ManagerStep ==
  \/ phase = "COMPRESS" /\ NextTransfer("MIGRATE")
  \/ phase \in {"COMPRESS", "MIGRATE"} /\ NextTransfer("DECOMPRESS")
  \/ phase = "DECOMPRESS" /\ NextTransfer("END")
  \/ Incompressible

(* Over, or waiting for ever: for a reset after a line with an error, for  *)
(* the answer to a write that was answered with an error.                  *)
Stopped ==
  /\ \/ phase = "END" \/ u.state = "BUS_ERROR"
     \/ w.state = "WAIT_BRESP" /\ w.owed = 0 /\ w.pending # 1
  /\ UNCHANGED vars

Next == Cycle \/ WriterStep \/ ManagerStep \/ Stopped

Spec == Init /\ [][Next]_vars

(* The clock runs, the writer and memory go on, the manager polls.         *)
FairSpec ==
  Spec /\ WF_vars(Cycle) /\ WF_vars(WriterStep) /\ WF_vars(ManagerStep)

-----------------------------------------------------------------------------
(* What a compressed page is: its metadata and the chunk that is not zero  *)
(* (the first, if all are).                                                *)
ChunkOf(k) == SubSeq(page, k * ChunkLen + 1, (k + 1) * ChunkLen)
ZeroChunks == {k \in Chunks : \A i \in 1 .. ChunkLen : ChunkOf(k)[i] = 0}
Compressed ==
  LET k == IF ZeroChunks = Chunks THEN 0
           ELSE CHOOSE c \in Chunks \ ZeroChunks : TRUE
  IN  <<ChunkVec(ZeroChunks)>> \o ChunkOf(k)

(* The slot the compressor fills holds the metadata line and then the      *)
(* chunk that is not zero, whole and in order (compressor.sv, COMPRESS to  *)
(* FIFO_READ_TRNSFR).                                                      *)
ChunkFollowsMetadata ==
  phase = "COMPRESS" /\ u.done => wfifo = Compressed

(* A page that was compressed, perhaps moved, and expanded again is in     *)
(* memory as it was, whenever its lines came out of memory and whichever   *)
(* reads and writes failed before (decompressor.sv LD_FIFO_RDPTR against   *)
(* the pipeline of hawk_axird_master.sv).                                  *)
PageRestored ==
  phase = "END" /\ target # << >> => SubSeq(target, 1, PageLen) = page

(* When the writer tells the managers that all is written, by its count of *)
(* posted writes alone, every line it was given is in memory               *)
(* (hawk_pgwr_mngr.sv bresp_cmplt).                                        *)
DoneMeansWritten ==
  w.state = "WAIT_BRESP" /\ w.pending = 1 => w.owed = 0 /\ target = wfifo

(* A transfer of whose lines all but four were there at its start ends, if *)
(* memory keeps pace with the reads and answers none with an error: the    *)
(* FIFO does not run dry, so no line is popped and dropped.                *)
Ahead(p) == phase = p /\ u.state = "IDLE" /\ w.state = "IDLE"
            /\ Len(source) - arrived <= 4
TransferEnds ==
  \A p \in {"COMPRESS", "MIGRATE", "DECOMPRESS"} :
    Ahead(p) ~> (phase # p \/ errors > 0)
=============================================================================
