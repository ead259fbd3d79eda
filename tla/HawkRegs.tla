-------------------------------- MODULE HawkRegs --------------------------------
(***************************************************************************)
(* The configuration registers: the register the CPU writes (hacd_top.sv), *)
(* the machine that runs its commands on the ATT and the list table        *)
(* (hacd_regs.sv) and the read and write channels the machine reaches the  *)
(* tables through (hawk_struct_rw.sv).  The register and the machine are   *)
(* in two clock domains with nothing between them, so their cycles         *)
(* interleave; two that fall together are one or the other order of them.  *)
(* The engine leaves the tables alone while a command runs, and no page a  *)
(* command names is compressed.                                            *)
(***************************************************************************)
EXTENDS Integers

CONSTANTS
  PageCnt,    \* ATT entries, numbered from 0
  ListCnt,    \* list entries, numbered from 1
  PerLine,    \* ATT entries in a cache line
  Layouts,    \* the tables a run may start from: sets of [att, lst]
  MaxWrites   \* bound: register writes that are followed

ASSUME RegsAssumption ==
  /\ PageCnt \in Nat \ {0} /\ ListCnt \in Nat /\ PerLine \in Nat \ {0}
  /\ PageCnt % PerLine = 0
  /\ MaxWrites \in Nat

NULL == 0
NoLine == -1
Pages == 0 .. PageCnt - 1
Entries == 1 .. ListCnt
(* A way is numbered like its list entry; a deallocated page has 1 in that *)
(* field once it was unmapped, and 0 before and once it is mapped again.   *)
AttEntry == [sts : {"DALLOC", "UNCOMP", "INCOMP"}, way : 0 .. ListCnt]
ListEntry == [way : 0 .. ListCnt, attEntryId : 0 .. PageCnt,
              prev : 0 .. ListCnt, next : 0 .. ListCnt]
NoListEntry == [way |-> 0, attEntryId |-> 0, prev |-> NULL, next |-> NULL]
Command == [op : {"MAP", "UNMAP", "OTHER"}, page : Pages]

(* The tables a run starts from: the lists are doubly linked and none      *)
(* closes into a ring, and a page that has a way has an entry.             *)
Linked(l) ==
  \E place \in [Entries -> Entries] : \A x, y \in Entries :
    /\ l[x].next = y => place[x] < place[y] /\ l[y].prev = x
    /\ l[x].prev = y => l[y].next = x
Placed(a) == \A p \in Pages : a[p].sts # "DALLOC" => a[p].way # NULL

ASSUME LayoutsAssumption ==
  \A t \in Layouts :
    /\ t.att \in [Pages -> AttEntry] /\ t.lst \in [Entries -> ListEntry]
    /\ Placed(t.att) /\ Linked(t.lst)

VARIABLES
  hawk_cmd_reg, hawk_cmd_flag_m, state_q, writes,   \* the register's clock
  hawk_cmd_flag_s, hawk_cmd_active, hawk_cmd_reg_ip,
  state, att_op, lst_op, lst_keep, lst_r_done, w_done,
  rline,        \* read channel: ATT line asked for, or NoLine
  wch, wline,   \* write channel: IDLE, ADDR, DATA; line written
  att, lst,     \* the tables in memory
  ran,          \* the control unit has let the command run
  calm, want    \* history: nothing irregular yet; tables as commanded

cfgVars == <<hawk_cmd_reg, hawk_cmd_flag_m, state_q, writes>>
cmdVars == <<hawk_cmd_flag_s, hawk_cmd_active, hawk_cmd_reg_ip>>
fsmVars == <<state, att_op, lst_op, lst_keep, lst_r_done, w_done>>
chVars == <<rline, wch, wline, att, lst>>
vars == <<cfgVars, cmdVars, fsmVars, chVars, ran, calm, want>>

Tables == [att |-> att, lst |-> lst]
Pending == hawk_cmd_flag_m # hawk_cmd_flag_s
Command0 == [op |-> "MAP", page |-> 0]   \* the register at reset

(* The flag, the active bit and the latched command are not reset; the     *)
(* machine's first cycle takes the flag over, and a command may be active. *)
Init ==
  /\ hawk_cmd_reg = Command0 /\ hawk_cmd_flag_m = FALSE
  /\ state_q = "Idle" /\ writes = 0
  /\ hawk_cmd_flag_s = hawk_cmd_flag_m
  /\ hawk_cmd_active \in BOOLEAN
  /\ hawk_cmd_reg_ip \in IF hawk_cmd_active THEN Command ELSE {Command0}
  /\ state = "IDLE"
  /\ att_op = [sts |-> "DALLOC", way |-> 0]
  /\ lst_op = NoListEntry /\ lst_keep = NoListEntry
  /\ lst_r_done = FALSE /\ w_done = FALSE
  /\ rline = NoLine /\ wch = "IDLE" /\ wline = NoLine
  /\ \E t \in Layouts : att = t.att /\ lst = t.lst
  /\ ran = FALSE
  /\ calm = ~ hawk_cmd_active /\ want = Tables

-----------------------------------------------------------------------------
(* What a command asks for: a page is unmapped by taking its entry out of  *)
(* its doubly linked list, and mapped again by marking it.                 *)
Unlinked(l, e) ==
  [x \in Entries |->
     IF x = e THEN [NoListEntry EXCEPT !.way = l[e].way]
     ELSE [l[x] EXCEPT !.prev = IF @ = e THEN l[e].prev ELSE @,
                       !.next = IF @ = e THEN l[e].next ELSE @]]

Effect(c, t) ==
  LET a == t.att[c.page]
  IN  CASE c.op = "UNMAP" /\ a.sts # "DALLOC" ->
             [att |-> [t.att EXCEPT ![c.page] = [sts |-> "DALLOC", way |-> 1]],
              lst |-> Unlinked(t.lst, a.way)]
        [] c.op = "MAP" /\ a = [sts |-> "DALLOC", way |-> 1] ->
             [t EXCEPT !.att[c.page].way = 0]
        [] OTHER -> t

-----------------------------------------------------------------------------
(* Mutant: ready follows the flag alone.                                   *)
MutHawkCmdReady == state = "IDLE" => Pending

hawk_cmd_ready ==
  state = "IDLE" => Pending \/ hawk_cmd_active

(* The register's clock domain.  A 64-bit write sets the command and flips *)
(* the flag; of two 32-bit writes the low one sets the page and the high   *)
(* one, with the operation, flips the flag.  The response to a write waits *)
(* until the machine has taken the flag over.                              *)
Write(c, flips) ==
  /\ state_q = "Idle" /\ writes < MaxWrites
  /\ hawk_cmd_reg' = c
  /\ hawk_cmd_flag_m' = IF flips THEN ~ hawk_cmd_flag_m ELSE hawk_cmd_flag_m
  /\ state_q' = "WriteResp"
  /\ writes' = writes + 1
  /\ calm' = (calm /\ ~ hawk_cmd_ready)
  /\ UNCHANGED <<cmdVars, fsmVars, chVars, ran, want>>

Write64 == \E c \in Command : Write(c, TRUE)
WriteLow == \E p \in Pages : Write([hawk_cmd_reg EXCEPT !.page = p], FALSE)
WriteHigh == \E op \in {"MAP", "UNMAP", "OTHER"} :
               Write([hawk_cmd_reg EXCEPT !.op = op], TRUE)

WriteResp ==
  /\ state_q = "WriteResp" /\ hawk_cmd_flag_m = hawk_cmd_flag_s
  /\ state_q' = "Idle"
  /\ UNCHANGED <<hawk_cmd_reg, hawk_cmd_flag_m, writes, cmdVars, fsmVars,
                 chVars, ran, calm, want>>

-----------------------------------------------------------------------------
(* The machine's clock domain.  While it is idle, a new command replaces   *)
(* the latched one, also one whose ATT entry is still being read.          *)
cmd_now == IF hawk_cmd_active THEN hawk_cmd_reg_ip ELSE hawk_cmd_reg
Known(c) == c.op \in {"MAP", "UNMAP"}

Maps == /\ hawk_cmd_reg_ip.op = "MAP"
        /\ att_op.sts = "DALLOC" /\ att_op.way = 1
Unmaps == hawk_cmd_reg_ip.op = "UNMAP" /\ att_op.sts # "DALLOC"

(* The next state, taken over when the reads and writes of this one are    *)
(* done.  It follows lst_op, which an answered read replaces.              *)
state_n ==
  CASE state = "ATT_LOOKUP" /\ Unmaps -> "TBL_UPDATE"
    [] state = "ATT_LOOKUP" /\ ~ Known(hawk_cmd_reg_ip) -> "ATT_LOOKUP"
    [] state = "TBL_UPDATE" /\ lst_op.prev # NULL -> "TBL_UPDATE1"
    [] state = "TBL_UPDATE" /\ lst_op.prev = NULL /\ lst_op.next # NULL ->
         "TBL_UPDATE2"
    [] state = "TBL_UPDATE1" /\ lst_keep.next # NULL -> "TBL_UPDATE2"
    [] OTHER -> "IDLE"

lst_r_addr ==
  CASE state = "ATT_LOOKUP" /\ Unmaps -> att_op.way
    [] state = "TBL_UPDATE" ->
         IF lst_op.prev # NULL THEN lst_op.prev ELSE lst_op.next
    [] state = "TBL_UPDATE1" -> lst_keep.next
    [] OTHER -> NULL
lst_r_valid == lst_r_addr # NULL /\ ~ lst_r_done

WritesAtt == state = "ATT_LOOKUP" /\ (Maps \/ Unmaps)
WritesList == state \in {"TBL_UPDATE", "TBL_UPDATE1", "TBL_UPDATE2"}
w_valid == (WritesAtt \/ WritesList) /\ ~ w_done

(* Each channel is one tick's outcome: the write address and data may be   *)
(* taken together or one after the other, and of an ATT entry the line is  *)
(* the one named with the address and the place in it the one named with   *)
(* the data.  The command in the register, not the latched one, names the  *)
(* entry an unmapped page is written to; a mapped page names none.         *)
At(line, p) == (line * PerLine) + (p % PerLine)
att_w_page == IF Unmaps THEN hawk_cmd_reg.page ELSE 0
att_write == [sts |-> "DALLOC", way |-> IF Unmaps THEN 1 ELSE 0]

lst_w_addr == CASE state = "TBL_UPDATE" -> att_op.way
                [] state = "TBL_UPDATE1" -> lst_keep.prev
                [] state = "TBL_UPDATE2" -> lst_keep.next
(* Mutant: the link is written as an index into the table.                 *)
MutLinkAsIndex ==
  CASE state = "TBL_UPDATE" -> [NoListEntry EXCEPT !.way = lst_op.way]
    [] state = "TBL_UPDATE1" -> [lst_op EXCEPT !.next = lst_keep.next - 1]
    [] state = "TBL_UPDATE2" -> [lst_op EXCEPT !.prev = lst_keep.prev]
(* Mutant: the next neighbour keeps pointing back at the removed entry.    *)
MutBackLink ==
  CASE state = "TBL_UPDATE" -> [NoListEntry EXCEPT !.way = lst_op.way]
    [] state = "TBL_UPDATE1" -> [lst_op EXCEPT !.next = lst_keep.next]
    [] state = "TBL_UPDATE2" -> lst_op

lst_write ==
  CASE state = "TBL_UPDATE" -> [NoListEntry EXCEPT !.way = lst_op.way]
    [] state = "TBL_UPDATE1" -> [lst_op EXCEPT !.next = lst_keep.next]
    [] state = "TBL_UPDATE2" -> [lst_op EXCEPT !.prev = lst_keep.prev]

WrWait == UNCHANGED <<wch, wline, att, lst>>
WrAddr == /\ WritesAtt /\ w_valid /\ wch = "IDLE"
          /\ wch' = "ADDR" /\ wline' = att_w_page \div PerLine
          /\ UNCHANGED <<att, lst>>
WrData ==
  /\ w_valid /\ wch \in {"IDLE", "ADDR"}
  /\ wch' = "DATA" /\ wline' = NoLine
  /\ IF WritesAtt
     THEN LET line == IF wch = "ADDR" THEN wline ELSE att_w_page \div PerLine
          IN  att' = [att EXCEPT ![At(line, att_w_page)] = att_write]
              /\ UNCHANGED lst
     ELSE lst' = [lst EXCEPT ![lst_w_addr] = lst_write] /\ UNCHANGED att
WrResp == wch = "DATA" /\ wch' = "IDLE" /\ UNCHANGED <<wline, att, lst>>

WriteChannel(w) == \/ w = "WAIT" /\ WrWait
                   \/ w = "ADDR" /\ WrAddr
                   \/ w = "DATA" /\ WrData
                   \/ w = "RESP" /\ WrResp

-----------------------------------------------------------------------------
(* The machine in IDLE: with the control unit's leave (run) it reads the   *)
(* ATT entry of a command it knows and goes on to look at it; one it does  *)
(* not know stays active.                                                  *)
att_r_valid(run) == hawk_cmd_ready /\ run /\ Known(cmd_now)

RdWait == UNCHANGED <<rline, att_op, state>>
RdAddr == /\ rline = NoLine
          /\ rline' = cmd_now.page \div PerLine
          /\ UNCHANGED <<att_op, state>>
RdAnswer == /\ rline # NoLine
            /\ att_op' = att[At(rline, cmd_now.page)]
            /\ rline' = NoLine
            /\ state' = "ATT_LOOKUP"

Latch ==
  IF Pending
  THEN /\ hawk_cmd_active' = TRUE
       /\ hawk_cmd_flag_s' = hawk_cmd_flag_m
       /\ hawk_cmd_reg_ip' = hawk_cmd_reg
       /\ want' = Effect(hawk_cmd_reg, want)
       /\ calm' = (/\ calm /\ ~ hawk_cmd_active
                   /\ hawk_cmd_reg.op = "MAP" /\ want # want' =>
                        hawk_cmd_reg.page = 0)
  ELSE UNCHANGED <<cmdVars, calm, want>>

Running(run) == ran' = (hawk_cmd_ready' /\ (ran \/ run))

IdleListen(run, r) ==
  r = "ANSWER" \/ (hawk_cmd_ready /\ run /\ ~ Known(cmd_now))

IdleTick(run, r) ==
  /\ state = "IDLE"
  /\ run => hawk_cmd_ready
  /\ ran => run
  /\ \/ r = "WAIT" /\ RdWait
     \/ r = "ADDR" /\ att_r_valid(run) /\ RdAddr
     \/ r = "ANSWER" /\ att_r_valid(run) /\ RdAnswer
  /\ Latch
  /\ lst_keep' = IF IdleListen(run, r) THEN NoListEntry ELSE lst_keep
  /\ UNCHANGED <<cfgVars, lst_op, lst_r_done, w_done, wch, wline, att, lst>>
  /\ Running(run)

(* Mutant: read and write have to be done in the same cycle.               *)
MutListen(r, b) ==
  /\ state = "ATT_LOOKUP" => Known(hawk_cmd_reg_ip)
  /\ WritesAtt \/ WritesList => b
  /\ lst_r_addr # NULL => r

(* The machine at work on an entry: the state is left when everything it   *)
(* reads and writes is done; a command it does not know is never left.     *)
Listen(r, b) ==
  /\ state = "ATT_LOOKUP" => Known(hawk_cmd_reg_ip)
  /\ WritesAtt \/ WritesList => b \/ w_done
  /\ lst_r_addr # NULL => r \/ lst_r_done

Advance(r, b) ==
  IF Listen(r, b)
  THEN /\ state' = state_n
       /\ lst_r_done' = FALSE /\ w_done' = FALSE
       /\ lst_keep' = CASE state = "TBL_UPDATE" -> lst_op
                        [] state = "TBL_UPDATE1" -> lst_keep
                        [] OTHER -> NoListEntry
  ELSE /\ lst_r_done' = (r \/ lst_r_done) /\ w_done' = (b \/ w_done)
       /\ UNCHANGED <<state, lst_keep>>

(* A read answered before the write of the same state is done replaces the *)
(* entry that write and the next state are made from.                      *)
Overtakes(r, b) ==
  r /\ state \in {"TBL_UPDATE", "TBL_UPDATE1"} /\ ~ (b \/ w_done)

WorkTick(r, w) ==
  /\ state # "IDLE"
  /\ r => lst_r_valid
  /\ WriteChannel(w)
  /\ lst_op' = IF r THEN lst[lst_r_addr] ELSE lst_op
  /\ Advance(r, w = "RESP")
  /\ hawk_cmd_active' = (hawk_cmd_active /\ state_n # "IDLE")
  /\ calm' = (calm /\ ~ Overtakes(r, w = "RESP"))
  /\ UNCHANGED <<cfgVars, hawk_cmd_flag_s, hawk_cmd_reg_ip, att_op, rline, want>>
  /\ Running(FALSE)

ReadOutcomes == {"WAIT", "ADDR", "ANSWER"}
WriteOutcomes == {"WAIT", "ADDR", "DATA", "RESP"}

Next ==
  \/ Write64 \/ WriteLow \/ WriteHigh \/ WriteResp
  \/ \E run \in BOOLEAN, r \in ReadOutcomes : IdleTick(run, r)
  \/ \E r \in BOOLEAN, w \in WriteOutcomes : WorkTick(r, w)

Spec == Init /\ [][Next]_vars

(* The clocks tick and memory answers reads, takes writes and acknowledges *)
(* them.  Nothing obliges the control unit to let a command run: accesses  *)
(* come first.                                                             *)
Fairness ==
  /\ WF_vars(WriteResp)
  /\ WF_vars(\E run \in BOOLEAN, r \in ReadOutcomes : IdleTick(run, r))
  /\ WF_vars(ran /\ \E r \in ReadOutcomes \ {"WAIT"} : IdleTick(TRUE, r))
  /\ WF_vars(WorkTick(FALSE, "WAIT"))
  /\ WF_vars(\E w \in WriteOutcomes : WorkTick(TRUE, w))
  /\ WF_vars(\E r \in BOOLEAN, w \in WriteOutcomes \ {"WAIT"} : WorkTick(r, w))

FairSpec == Spec /\ Fairness

-----------------------------------------------------------------------------
(* Type invariant of the register, the machine and the tables.             *)
RegsTypeOK ==
  /\ hawk_cmd_reg \in Command /\ hawk_cmd_reg_ip \in Command
  /\ {hawk_cmd_flag_m, hawk_cmd_flag_s, hawk_cmd_active,
      lst_r_done, w_done, ran, calm} \subseteq BOOLEAN
  /\ state_q \in {"Idle", "WriteResp"} /\ writes \in 0 .. MaxWrites
  /\ state \in {"IDLE", "ATT_LOOKUP", "TBL_UPDATE", "TBL_UPDATE1",
                "TBL_UPDATE2"}
  /\ att_op \in AttEntry /\ {lst_op, lst_keep} \subseteq ListEntry
  /\ {rline, wline} \subseteq {NoLine} \cup {p \div PerLine : p \in Pages}
  /\ wch \in {"IDLE", "ADDR", "DATA"}
  /\ att \in [Pages -> AttEntry] /\ lst \in [Entries -> ListEntry]
  /\ want \in [att : [Pages -> AttEntry], lst : [Entries -> ListEntry]]

(* The handshake as the control unit was written against it.               *)
handshake == IF ~ hawk_cmd_ready THEN "NONE"
             ELSE IF ran THEN "ACTIVE" ELSE "PENDING"
Handshake == INSTANCE HawkCmd WITH cmd <- handshake

(* The registers implement the handshake: a command that is announced is   *)
(* not withdrawn before the control unit has let it run, though the flag   *)
(* that announces it is taken over at once.                                *)
HandshakeKept == Handshake!CmdSpec

(* As long as the CPU writes no command over a running one and no read     *)
(* overtakes a write, the tables at rest are what the commands make of     *)
(* them: pages unmapped and mapped, and the lists relinked around the ways *)
(* taken out, in three writes whose order the memory chooses.              *)
CalmCommandsTakeEffect ==
  calm /\ state = "IDLE" /\ ~ hawk_cmd_active => Tables = want

(* A command the control unit has let run comes to an end, so that the     *)
(* CPU's accesses go on, unless the operation latched is one the machine   *)
(* does not know.                                                          *)
CommandEnds ==
  ran ~> (~ hawk_cmd_ready \/ ~ Known(hawk_cmd_reg_ip))
=============================================================================
