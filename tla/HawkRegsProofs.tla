------------------------------ MODULE HawkRegsProofs ------------------------------
(***************************************************************************)
(* For any tables of doubly linked lists and any number of register        *)
(* writes, however memory answers: the registers implement the handshake   *)
(* HawkCtrl runs on, their state keeps its type, and the commands of a     *)
(* calm run take effect.  For any layout that fits: the tables the         *)
(* commands and the other modules speak of lie apart in DRAM, and whoever  *)
(* computes the place of an entry or a slot finds the same one.            *)
(***************************************************************************)
EXTENDS HawkRegs, HawkLayout, TLAPS

Bits == /\ hawk_cmd_flag_m \in BOOLEAN /\ hawk_cmd_flag_s \in BOOLEAN
        /\ hawk_cmd_active \in BOOLEAN /\ ran \in BOOLEAN

(* The flag is taken over before the CPU may flip it again, a command that *)
(* was let run is announced, and the machine is away from IDLE only for    *)
(* such a command.                                                         *)
Answered == state_q = "Idle" => ~ Pending
Announced == ran => hawk_cmd_ready
LetRun == state # "IDLE" => ran

HInv == Bits /\ Answered /\ Announced /\ LetRun

LEMMA HInvInit == Init => HInv /\ Handshake!CmdInit
BY DEF Init, HInv, Bits, Answered, Announced, LetRun, Pending, hawk_cmd_ready,
       Handshake!CmdInit, handshake

-----------------------------------------------------------------------------
(* One step of each actor, as the control unit sees it.                    *)
HandshakeStep == \E run \in BOOLEAN : Handshake!CmdCycle(run)

(* A write announces a command or leaves the announced one as it is.       *)
LEMMA WriteStep ==
  ASSUME HInv, NEW c, NEW flips \in BOOLEAN, Write(c, flips)
  PROVE  HInv' /\ HandshakeStep
<1>1. /\ Bits' /\ Answered' /\ LetRun'
      /\ UNCHANGED <<hawk_cmd_flag_s, hawk_cmd_active, state, ran>>
  BY DEF HInv, Bits, Answered, LetRun, Write, cmdVars, fsmVars
<1>2. hawk_cmd_ready => hawk_cmd_ready'
  BY <1>1 DEF HInv, Bits, Answered, Write, Pending, hawk_cmd_ready
<1>3. Announced'
  BY <1>1, <1>2 DEF HInv, Announced
<1>4. HandshakeStep
  BY <1>1, <1>2 DEF HInv, Bits, Announced, HandshakeStep, Handshake!CmdCycle,
                    handshake
<1> QED BY <1>1, <1>3, <1>4 DEF HInv

(* A response leaves it as it is.                                          *)
LEMMA RespStep ==
  ASSUME HInv, WriteResp
  PROVE  HInv' /\ UNCHANGED handshake
BY DEF HInv, Bits, Answered, Announced, LetRun, WriteResp, Pending,
       hawk_cmd_ready, handshake, cmdVars, fsmVars

(* An idle machine takes the announcement over before it goes, and lets it *)
(* run when it is told to.                                                 *)
LEMMA IdleStep ==
  ASSUME HInv, NEW run \in BOOLEAN, NEW r \in ReadOutcomes, IdleTick(run, r)
  PROVE  HInv' /\ HandshakeStep
<1>1. /\ state = "IDLE"
      /\ run => hawk_cmd_ready
      /\ ran' = (hawk_cmd_ready' /\ (ran \/ run))
      /\ UNCHANGED <<hawk_cmd_flag_m, state_q>>
  BY DEF IdleTick, Running, cfgVars
<1>2. /\ hawk_cmd_active' = (hawk_cmd_active \/ Pending)
      /\ hawk_cmd_flag_s' = hawk_cmd_flag_m
  BY DEF HInv, Bits, IdleTick, Latch, Pending, cmdVars
<1>3. state' # "IDLE" => run
  BY DEF IdleTick, RdWait, RdAddr, RdAnswer, att_r_valid
<1>4. hawk_cmd_ready' = hawk_cmd_ready
  BY <1>1, <1>2, <1>3 DEF HInv, Bits, Pending, hawk_cmd_ready
<1>5. HInv'
  BY <1>1, <1>2, <1>3, <1>4
     DEF HInv, Bits, Answered, Announced, LetRun, Pending, hawk_cmd_ready
<1>6. HandshakeStep
  BY <1>1, <1>4 DEF HInv, Bits, Announced, HandshakeStep, Handshake!CmdCycle,
                    Handshake!CmdEnds, handshake
<1> QED BY <1>5, <1>6

(* A working machine ends the command or goes on with it.                  *)
LEMMA WorkStep ==
  ASSUME HInv, NEW r \in BOOLEAN, NEW w \in WriteOutcomes, WorkTick(r, w)
  PROVE  HInv' /\ HandshakeStep
<1>1. /\ state # "IDLE" /\ ran /\ hawk_cmd_ready
      /\ hawk_cmd_active' \in BOOLEAN
      /\ ran' = hawk_cmd_ready'
      /\ UNCHANGED <<hawk_cmd_flag_m, hawk_cmd_flag_s, state_q>>
  BY DEF HInv, Bits, LetRun, WorkTick, Running, cfgVars, hawk_cmd_ready
<1>2. HInv'
  BY <1>1 DEF HInv, Bits, Answered, Announced, LetRun, Pending, hawk_cmd_ready
<1>3. HandshakeStep
  BY <1>1 DEF HandshakeStep, Handshake!CmdCycle, Handshake!CmdEnds, handshake
<1> QED BY <1>2, <1>3

LEMMA HandshakeNext ==
  ASSUME HInv, [Next]_vars
  PROVE  HInv' /\ (HandshakeStep \/ UNCHANGED handshake)
<1>1. CASE Write64
  BY <1>1, WriteStep DEF Write64
<1>2. CASE WriteLow
  BY <1>2, WriteStep DEF WriteLow
<1>3. CASE WriteHigh
  BY <1>3, WriteStep DEF WriteHigh
<1>4. CASE WriteResp
  BY <1>4, RespStep
<1>5. CASE \E run \in BOOLEAN, r \in ReadOutcomes : IdleTick(run, r)
  BY <1>5, IdleStep
<1>6. CASE \E r \in BOOLEAN, w \in WriteOutcomes : WorkTick(r, w)
  BY <1>6, WorkStep
<1>7. CASE UNCHANGED vars
  BY <1>7 DEF vars, cfgVars, cmdVars, fsmVars, HInv, Bits, Answered, Announced,
              LetRun, Pending, hawk_cmd_ready, handshake
<1> QED BY <1>1, <1>2, <1>3, <1>4, <1>5, <1>6, <1>7 DEF Next

(* The registers implement the handshake: a command that is announced is   *)
(* not withdrawn before the control unit has let it run (hawk_cmd_active   *)
(* takes the place of the flag the machine takes over).                    *)
THEOREM HandshakeImplemented == Spec => HandshakeKept
<1>1. HInv /\ [Next]_vars => [HandshakeStep]_handshake
  BY HandshakeNext
<1> QED BY HInvInit, HandshakeNext, <1>1, PTL
        DEF Spec, HandshakeKept, Handshake!CmdSpec, HandshakeStep

-----------------------------------------------------------------------------
(* Numbers: a page's place in its line.                                    *)

LEMMA DivMod ==
  ASSUME NEW n \in Nat, NEW d \in Nat \ {0}
  PROVE  n \div d \in Nat /\ n % d \in 0 .. d - 1 /\ n = ((n \div d) * d) + (n % d)
OBVIOUS

(* The place of a page in its own line is the page.                        *)
LEMMA AtOwnLine == \A p \in Pages : At(p \div PerLine, p) = p
BY RegsAssumption, DivMod DEF At, Pages

(* In any line it is a page.                                               *)
LEMMA AtSomePage ==
  ASSUME NEW q \in Pages, NEW p \in Pages
  PROVE  At(q \div PerLine, p) \in Pages
<1> DEFINE L == PerLine
           k == PageCnt \div L
           a == q \div L
           b == p % L
<1>1. L \in Nat \ {0} /\ PageCnt \in Nat \ {0} /\ q \in Nat /\ p \in Nat /\ q < PageCnt
  BY RegsAssumption DEF Pages
<1>2. PageCnt = k * L /\ k \in Nat
  <2>1. PageCnt = (k * L) + (PageCnt % L) /\ k \in Nat
    BY <1>1, DivMod
  <2> QED BY <1>1, <2>1, RegsAssumption
<1>3. a \in Nat /\ q = (a * L) + (q % L) /\ q % L \in 0 .. L - 1
  BY <1>1, DivMod
<1>4. b \in 0 .. L - 1
  BY <1>1, DivMod
<1> HIDE DEF L, k, a, b
<1>5. a * L < k * L
  BY <1>1, <1>2, <1>3
<1>6. a < k
  BY <1>1, <1>2, <1>3, <1>5
<1>7. (a + 1) * L <= k * L
  BY <1>1, <1>2, <1>3, <1>6
<1>8. (a * L) + L <= PageCnt
  BY <1>1, <1>2, <1>3, <1>7
<1>9. a * L \in Nat
  BY <1>1, <1>3
<1>10. (a * L) + b \in 0 .. PageCnt - 1
  BY <1>1, <1>4, <1>8, <1>9
<1> QED BY <1>10 DEF At, Pages, L, a, b

-----------------------------------------------------------------------------
(* The types.  A page that is not deallocated has a way, in the ATT, in    *)
(* the entry the machine read and in the tables as commanded; without that *)
(* the machine would write a list entry that is none.                      *)
TInv ==
  /\ RegsTypeOK
  /\ Placed(att) /\ Placed(want.att)
  /\ att_op.sts # "DALLOC" => att_op.way # NULL

(* What a command makes of tables that are tables.                         *)
LEMMA EffectType ==
  ASSUME NEW c \in Command,
         NEW t \in [att : [Pages -> AttEntry], lst : [Entries -> ListEntry]],
         Placed(t.att)
  PROVE  /\ Effect(c, t) \in [att : [Pages -> AttEntry], lst : [Entries -> ListEntry]]
         /\ Placed(Effect(c, t).att)
<1> DEFINE a == t.att[c.page]
<1>0. c.page \in Pages /\ t.att \in [Pages -> AttEntry] /\ t.lst \in [Entries -> ListEntry]
      /\ a \in AttEntry
  BY DEF Command
<1>1. CASE c.op = "UNMAP" /\ a.sts # "DALLOC"
  <2>1. a.way \in Entries /\ ListCnt \in Nat
    BY <1>0, <1>1, RegsAssumption DEF Placed, AttEntry, Entries, NULL
  <2>2. [sts |-> "DALLOC", way |-> 1] \in AttEntry
    BY <2>1 DEF AttEntry, Entries
  <2>3. Unlinked(t.lst, a.way) \in [Entries -> ListEntry]
    <3> SUFFICES ASSUME NEW x \in Entries
                 PROVE  (IF x = a.way THEN [NoListEntry EXCEPT !.way = t.lst[a.way].way]
                         ELSE [t.lst[x] EXCEPT
                                 !.prev = IF @ = a.way THEN t.lst[a.way].prev ELSE @,
                                 !.next = IF @ = a.way THEN t.lst[a.way].next ELSE @])
                          \in ListEntry
      BY DEF Unlinked
    <3>1. t.lst[x] \in ListEntry /\ t.lst[a.way] \in ListEntry
      BY <1>0, <2>1
    <3>2. CASE x = a.way
      <4>1. [NoListEntry EXCEPT !.way = t.lst[a.way].way] \in ListEntry
        BY <2>1, <3>1, RegsAssumption DEF ListEntry, NoListEntry, NULL
      <4> QED BY <3>2, <4>1
    <3>3. CASE x # a.way
      <4> DEFINE u == IF t.lst[x].prev = a.way THEN t.lst[a.way].prev ELSE t.lst[x].prev
                 v == IF t.lst[x].next = a.way THEN t.lst[a.way].next ELSE t.lst[x].next
      <4>1. u \in 0 .. ListCnt /\ v \in 0 .. ListCnt
        BY <3>1 DEF ListEntry
      <4> HIDE DEF u, v
      <4>2. [t.lst[x] EXCEPT !.prev = u, !.next = v] \in ListEntry
        BY <3>1, <4>1 DEF ListEntry
      <4> QED BY <3>3, <4>2 DEF u, v
    <3> QED BY <3>2, <3>3
  <2>4. Effect(c, t) = [att |-> [t.att EXCEPT ![c.page] = [sts |-> "DALLOC", way |-> 1]],
                        lst |-> Unlinked(t.lst, a.way)]
    BY <1>1 DEF Effect
  <2> QED BY <1>0, <2>2, <2>3, <2>4 DEF Placed
<1>2. CASE c.op = "MAP" /\ a = [sts |-> "DALLOC", way |-> 1]
  <2>1. Effect(c, t) = [t EXCEPT !.att[c.page].way = 0]
    BY <1>2 DEF Effect
  <2>2. [a EXCEPT !.way = 0] \in AttEntry /\ [a EXCEPT !.way = 0].sts = "DALLOC"
    BY <1>0, <1>2, RegsAssumption DEF AttEntry
  <2>3. Effect(c, t) = [att |-> [t.att EXCEPT ![c.page] = [a EXCEPT !.way = 0]],
                        lst |-> t.lst]
    BY <2>1
  <2> QED BY <1>0, <2>2, <2>3 DEF Placed
<1>3. CASE ~ (c.op = "UNMAP" /\ a.sts # "DALLOC")
           /\ ~ (c.op = "MAP" /\ a = [sts |-> "DALLOC", way |-> 1])
  <2>1. Effect(c, t) = t
    BY <1>3 DEF Effect
  <2> QED BY <2>1
<1> QED BY <1>1, <1>2, <1>3

LEMMA TypesInit == Init => TInv
<1> SUFFICES ASSUME Init PROVE TInv
  OBVIOUS
<1>0. PageCnt \in Nat \ {0} /\ ListCnt \in Nat /\ MaxWrites \in Nat
  BY RegsAssumption
<1>1. PICK t \in Layouts : att = t.att /\ lst = t.lst
  BY DEF Init
<1>2. att \in [Pages -> AttEntry] /\ lst \in [Entries -> ListEntry] /\ Placed(att)
  BY <1>1, LayoutsAssumption
<1>3. want.att = att /\ want \in [att : [Pages -> AttEntry], lst : [Entries -> ListEntry]]
  BY <1>2 DEF Init, Tables
<1>4. hawk_cmd_reg \in Command
  BY <1>0 DEF Init, Command0, Command, Pages
<1>5. hawk_cmd_reg_ip \in Command
  <2>1. Command0 \in Command
    BY <1>0 DEF Command0, Command, Pages
  <2> QED BY <2>1 DEF Init
<1>6. att_op \in AttEntry /\ {lst_op, lst_keep} \subseteq ListEntry /\ att_op.sts = "DALLOC"
  BY <1>0 DEF Init, AttEntry, ListEntry, NoListEntry, NULL
<1>7. {hawk_cmd_flag_m, hawk_cmd_flag_s, hawk_cmd_active,
       lst_r_done, w_done, ran, calm} \subseteq BOOLEAN
  BY DEF Init
<1>8. {rline, wline} \subseteq {NoLine} \cup {p \div PerLine : p \in Pages}
  BY DEF Init
<1>9. /\ state_q \in {"Idle", "WriteResp"} /\ writes \in 0 .. MaxWrites
      /\ state \in {"IDLE", "ATT_LOOKUP", "TBL_UPDATE", "TBL_UPDATE1", "TBL_UPDATE2"}
      /\ wch \in {"IDLE", "ADDR", "DATA"}
  BY <1>0 DEF Init
<1>10. RegsTypeOK
  BY <1>2, <1>3, <1>4, <1>5, <1>6, <1>7, <1>8, <1>9 DEF RegsTypeOK
<1> QED BY <1>2, <1>3, <1>6, <1>10 DEF TInv

(* A write of the register.                                                *)
LEMMA TypesWrite ==
  ASSUME TInv, NEW c \in Command, NEW flips \in BOOLEAN, Write(c, flips)
  PROVE  TInv'
<1>1. /\ hawk_cmd_reg' \in Command /\ hawk_cmd_flag_m' \in BOOLEAN
      /\ state_q' = "WriteResp" /\ writes' \in 0 .. MaxWrites /\ calm' \in BOOLEAN
  <2>1. hawk_cmd_reg' \in Command /\ state_q' = "WriteResp" /\ writes' \in 0 .. MaxWrites
    BY RegsAssumption DEF TInv, RegsTypeOK, Write
  <2>2. hawk_cmd_flag_m' \in BOOLEAN
    BY DEF TInv, RegsTypeOK, Write
  <2>3. calm' \in BOOLEAN
    BY DEF Write
  <2> QED BY <2>1, <2>2, <2>3
<1>2. UNCHANGED <<hawk_cmd_flag_s, hawk_cmd_active, hawk_cmd_reg_ip, state, att_op, lst_op,
                  lst_keep, lst_r_done, w_done, rline, wch, wline, att, lst, ran, want>>
  BY DEF Write, cmdVars, fsmVars, chVars
<1> QED BY <1>1, <1>2 DEF TInv, RegsTypeOK, Placed

(* A command is latched.                                                   *)
LEMMA TypesLatch ==
  ASSUME TInv, Latch
  PROVE  /\ hawk_cmd_reg_ip' \in Command
         /\ {hawk_cmd_flag_s', hawk_cmd_active', calm'} \subseteq BOOLEAN
         /\ want' \in [att : [Pages -> AttEntry], lst : [Entries -> ListEntry]]
         /\ Placed(want'.att)
<1>1. CASE Pending
  <2>1. /\ hawk_cmd_active' = TRUE /\ hawk_cmd_flag_s' = hawk_cmd_flag_m
        /\ hawk_cmd_reg_ip' = hawk_cmd_reg /\ want' = Effect(hawk_cmd_reg, want)
        /\ calm' \in BOOLEAN
    BY <1>1 DEF Latch
  <2>2. hawk_cmd_reg \in Command /\ hawk_cmd_flag_m \in BOOLEAN /\ Placed(want.att)
        /\ want \in [att : [Pages -> AttEntry], lst : [Entries -> ListEntry]]
    BY DEF TInv, RegsTypeOK
  <2> QED BY <2>1, <2>2, EffectType
<1>2. CASE ~ Pending
  BY <1>2 DEF Latch, TInv, RegsTypeOK, cmdVars
<1> QED BY <1>1, <1>2

(* The command whose entry is read.                                        *)
LEMMA CmdNowType == TInv => cmd_now \in Command
BY DEF TInv, RegsTypeOK, cmd_now

(* A cycle of the idle machine.                                            *)
LEMMA TypesIdle ==
  ASSUME TInv, NEW run \in BOOLEAN, NEW r \in ReadOutcomes, IdleTick(run, r)
  PROVE  TInv'
<1>0. cmd_now.page \in Pages
  BY CmdNowType DEF Command
<1>1. UNCHANGED <<hawk_cmd_reg, hawk_cmd_flag_m, state_q, writes, lst_op, lst_r_done,
                  w_done, wch, wline, att, lst>>
  BY DEF IdleTick, cfgVars
<1>2. /\ hawk_cmd_reg_ip' \in Command
      /\ {hawk_cmd_flag_s', hawk_cmd_active', calm'} \subseteq BOOLEAN
      /\ want' \in [att : [Pages -> AttEntry], lst : [Entries -> ListEntry]]
      /\ Placed(want'.att)
  BY TypesLatch DEF IdleTick
<1>3. lst_keep' \in ListEntry
  <2>1. NoListEntry \in ListEntry
    BY RegsAssumption DEF NoListEntry, ListEntry, NULL
  <2> QED BY <2>1 DEF TInv, RegsTypeOK, IdleTick
<1>4. ran' \in BOOLEAN
  BY DEF IdleTick, Running
<1>5. RdWait \/ RdAddr \/ RdAnswer
  BY DEF IdleTick
<1>6. /\ state' \in {"IDLE", "ATT_LOOKUP"}
      /\ rline' \in {NoLine} \cup {p \div PerLine : p \in Pages}
      /\ att_op' \in AttEntry /\ (att_op'.sts # "DALLOC" => att_op'.way # NULL)
  <2>0. state = "IDLE" /\ rline \in {NoLine} \cup {p \div PerLine : p \in Pages}
        /\ att_op \in AttEntry /\ att \in [Pages -> AttEntry] /\ Placed(att)
        /\ (att_op.sts # "DALLOC" => att_op.way # NULL)
    BY DEF TInv, RegsTypeOK, IdleTick
  <2>1. CASE RdWait
    BY <2>0, <2>1 DEF RdWait
  <2>2. CASE RdAddr
    BY <1>0, <2>0, <2>2 DEF RdAddr
  <2>3. CASE RdAnswer
    <3>1. PICK q \in Pages : rline = q \div PerLine
      BY <2>0, <2>3 DEF RdAnswer
    <3>2. At(rline, cmd_now.page) \in Pages
      BY <1>0, <3>1, AtSomePage
    <3> QED BY <2>0, <2>3, <3>2 DEF RdAnswer, Placed
  <2> QED BY <1>5, <2>1, <2>2, <2>3
<1>7. RegsTypeOK'
  BY <1>1, <1>2, <1>3, <1>4, <1>6 DEF TInv, RegsTypeOK
<1> QED BY <1>1, <1>2, <1>6, <1>7 DEF TInv, Placed

(* What the machine writes are entries.                                    *)
LEMMA WrittenTypes ==
  ASSUME TInv
  PROVE  /\ att_write.sts = "DALLOC" /\ att_write \in AttEntry
         /\ WritesList => lst_write \in ListEntry
         /\ att_w_page \in Pages
<1>0. /\ att_op \in AttEntry /\ lst_op \in ListEntry /\ lst_keep \in ListEntry
      /\ hawk_cmd_reg \in Command /\ (att_op.sts # "DALLOC" => att_op.way # NULL)
      /\ ListCnt \in Nat /\ PageCnt \in Nat \ {0}
  BY RegsAssumption DEF TInv, RegsTypeOK
<1>1. Unmaps => 1 <= ListCnt
  BY <1>0 DEF Unmaps, AttEntry, NULL
<1>2. att_write.sts = "DALLOC" /\ att_write \in AttEntry
  BY <1>0, <1>1 DEF att_write, AttEntry
<1>3. att_w_page \in Pages
  BY <1>0 DEF att_w_page, Pages, Command
<1>4. WritesList => lst_write \in ListEntry
  BY <1>0 DEF WritesList, lst_write, ListEntry, NoListEntry, NULL
<1> QED BY <1>2, <1>3, <1>4

(* A cycle of the working machine.                                         *)
LEMMA TypesWork ==
  ASSUME TInv, NEW r \in BOOLEAN, NEW w \in WriteOutcomes, WorkTick(r, w)
  PROVE  TInv'
<1>0. /\ UNCHANGED <<hawk_cmd_reg, hawk_cmd_flag_m, state_q, writes>>
      /\ UNCHANGED <<hawk_cmd_flag_s, hawk_cmd_reg_ip, att_op, rline, want>>
  BY DEF WorkTick, cfgVars
<1>1. /\ lst_r_done \in BOOLEAN /\ w_done \in BOOLEAN /\ hawk_cmd_active \in BOOLEAN
      /\ calm \in BOOLEAN /\ lst_op \in ListEntry /\ lst_keep \in ListEntry
      /\ att \in [Pages -> AttEntry] /\ lst \in [Entries -> ListEntry] /\ Placed(att)
      /\ wline \in {NoLine} \cup {p \div PerLine : p \in Pages}
      /\ wch \in {"IDLE", "ADDR", "DATA"}
      /\ state \in {"IDLE", "ATT_LOOKUP", "TBL_UPDATE", "TBL_UPDATE1", "TBL_UPDATE2"}
  BY DEF TInv, RegsTypeOK
<1>2. lst_op' \in ListEntry
  <2>1. r => lst_r_addr \in Entries
    <3>1. lst_r_addr \in 0 .. ListCnt
      BY <1>1, RegsAssumption DEF lst_r_addr, TInv, RegsTypeOK, AttEntry, ListEntry, NULL
    <3>2. r => lst_r_addr # NULL
      BY DEF WorkTick, lst_r_valid
    <3> QED BY <3>1, <3>2, RegsAssumption DEF Entries, NULL
  <2> QED BY <1>1, <2>1 DEF WorkTick
<1>3. /\ att' \in [Pages -> AttEntry] /\ Placed(att') /\ lst' \in [Entries -> ListEntry]
      /\ wline' \in {NoLine} \cup {p \div PerLine : p \in Pages}
      /\ wch' \in {"IDLE", "ADDR", "DATA"}
  <2>1. WrWait \/ WrAddr \/ WrData \/ WrResp
    BY DEF WorkTick, WriteChannel
  <2>2. CASE WrWait
    BY <1>1, <2>2 DEF WrWait, Placed
  <2>3. CASE WrAddr
    BY <1>1, <2>3, WrittenTypes DEF WrAddr, Placed
  <2>4. CASE WrData
    <3>1. wch' = "DATA" /\ wline' = NoLine /\ w_valid
      BY <2>4 DEF WrData
    <3>2. CASE WritesAtt
      <4>1. PICK i : att' = [att EXCEPT ![i] = att_write] /\ lst' = lst
        BY <2>4, <3>2 DEF WrData
      <4>2. att' \in [Pages -> AttEntry] /\ Placed(att')
        BY <1>1, <4>1, WrittenTypes DEF Placed
      <4> QED BY <1>1, <3>1, <4>1, <4>2
    <3>3. CASE ~ WritesAtt
      <4>1. lst' = [lst EXCEPT ![lst_w_addr] = lst_write] /\ att' = att
        BY <2>4, <3>3 DEF WrData
      <4>2. lst_write \in ListEntry
        BY <3>1, <3>3, WrittenTypes DEF w_valid
      <4>3. lst' \in [Entries -> ListEntry]
        BY <1>1, <4>1, <4>2
      <4> QED BY <1>1, <3>1, <4>1, <4>3
    <3> QED BY <3>2, <3>3
  <2>5. CASE WrResp
    BY <1>1, <2>5 DEF WrResp, Placed
  <2> QED BY <2>1, <2>2, <2>3, <2>4, <2>5
<1>4. /\ state' \in {"IDLE", "ATT_LOOKUP", "TBL_UPDATE", "TBL_UPDATE1", "TBL_UPDATE2"}
      /\ lst_keep' \in ListEntry /\ lst_r_done' \in BOOLEAN /\ w_done' \in BOOLEAN
  <2>1. Advance(r, w = "RESP")
    BY DEF WorkTick
  <2>2. NoListEntry \in ListEntry
    BY RegsAssumption DEF NoListEntry, ListEntry, NULL
  <2>3. state_n \in {"IDLE", "ATT_LOOKUP", "TBL_UPDATE", "TBL_UPDATE1", "TBL_UPDATE2"}
    BY DEF state_n
  <2>4. CASE Listen(r, w = "RESP")
    BY <1>1, <2>1, <2>2, <2>3, <2>4 DEF Advance
  <2>5. CASE ~ Listen(r, w = "RESP")
    BY <1>1, <2>1, <2>5 DEF Advance
  <2> QED BY <2>4, <2>5
<1>5. hawk_cmd_active' \in BOOLEAN /\ calm' \in BOOLEAN /\ ran' \in BOOLEAN
  BY <1>1 DEF WorkTick, Running
<1>6. RegsTypeOK'
  BY <1>0, <1>2, <1>3, <1>4, <1>5 DEF TInv, RegsTypeOK
<1> QED BY <1>0, <1>3, <1>6 DEF TInv, Placed

LEMMA TypesNext == ASSUME TInv, [Next]_vars PROVE TInv'
<1>0. hawk_cmd_reg \in Command
  BY DEF TInv, RegsTypeOK
<1>1. CASE Write64
  BY <1>1, TypesWrite DEF Write64
<1>2. CASE WriteLow
  <2>1. PICK p \in Pages : Write([hawk_cmd_reg EXCEPT !.page = p], FALSE)
    BY <1>2 DEF WriteLow
  <2>2. [hawk_cmd_reg EXCEPT !.page = p] \in Command
    BY <1>0 DEF Command
  <2> QED BY <2>1, <2>2, TypesWrite
<1>3. CASE WriteHigh
  <2>1. PICK op \in {"MAP", "UNMAP", "OTHER"} :
          Write([hawk_cmd_reg EXCEPT !.op = op], TRUE)
    BY <1>3 DEF WriteHigh
  <2>2. [hawk_cmd_reg EXCEPT !.op = op] \in Command
    BY <1>0 DEF Command
  <2> QED BY <2>1, <2>2, TypesWrite
<1>4. CASE WriteResp
  BY <1>4 DEF WriteResp, cmdVars, fsmVars, chVars, TInv, RegsTypeOK, Placed
<1>5. CASE \E run \in BOOLEAN, r \in ReadOutcomes : IdleTick(run, r)
  BY <1>5, TypesIdle
<1>6. CASE \E r \in BOOLEAN, w \in WriteOutcomes : WorkTick(r, w)
  BY <1>6, TypesWork
<1>7. CASE UNCHANGED vars
  BY <1>7 DEF vars, cfgVars, cmdVars, fsmVars, chVars, TInv, RegsTypeOK, Placed
<1> QED BY <1>1, <1>2, <1>3, <1>4, <1>5, <1>6, <1>7 DEF Next

(* Registers, machine and tables keep their types, for any tables a run    *)
(* may start from and however memory answers.                              *)
THEOREM RegsTypeCorrect == Spec => []RegsTypeOK
<1>1. Spec => []TInv
  BY TypesInit, TypesNext, PTL DEF Spec
<1>2. TInv => RegsTypeOK
  BY DEF TInv
<1> QED BY <1>1, <1>2, PTL
-----------------------------------------------------------------------------
(* Commands take effect.  As long as it is calm the machine is at one of   *)
(* six places, each of which says what the tables t were when the command  *)
(* was latched and how much of its effect has been written since.          *)

AllTables == [att : [Pages -> AttEntry], lst : [Entries -> ListEntry]]

(* Unlinking entry e in three writes: e is cleared, then its neighbour     *)
(* before, then its neighbour behind is linked past it.                    *)
Cleared(l, e) == [NoListEntry EXCEPT !.way = l[e].way]
Without(l, e) == [l EXCEPT ![e] = Cleared(l, e)]
Bridged(l, e) ==
  [x \in Entries |-> IF x = e THEN Cleared(l, e)
                     ELSE [l[x] EXCEPT !.next = IF @ = e THEN l[e].next ELSE @]]

Written == wch = "DATA" \/ w_done
Quiet == wch = "IDLE" /\ ~ w_done /\ ~ lst_r_done
Same == ~ Pending /\ hawk_cmd_reg = hawk_cmd_reg_ip
From(t) ==
  /\ Linked(t.lst) /\ want = Effect(hawk_cmd_reg_ip, t)
  /\ hawk_cmd_reg_ip.op = "MAP" /\ want # t => hawk_cmd_reg_ip.page = 0

Rest == /\ state = "IDLE" /\ ~ hawk_cmd_active /\ rline = NoLine /\ Quiet
        /\ Tables = want
Latched == /\ state = "IDLE" /\ hawk_cmd_active /\ Same /\ Quiet /\ From(Tables)
           /\ rline \in {NoLine, hawk_cmd_reg_ip.page \div PerLine}
Working(t) ==
  /\ Same /\ From(t) /\ rline = NoLine /\ att_op = t.att[hawk_cmd_reg_ip.page]
  /\ wch # "IDLE" => ~ w_done
Looked(t) ==
  /\ state = "ATT_LOOKUP" /\ Working(t) /\ Known(hawk_cmd_reg_ip)
  /\ lst = t.lst /\ att = IF WritesAtt /\ Written THEN want.att ELSE t.att
  /\ wch # "IDLE" => WritesAtt
  /\ wch = "ADDR" => wline = att_w_page \div PerLine
  /\ w_done => WritesAtt
  /\ lst_r_done => Unmaps /\ lst_op = lst[att_op.way]
Unlinking(t) ==
  /\ Working(t) /\ Unmaps /\ att = want.att /\ ~ lst_r_done /\ wch # "ADDR"
Clearing(t) ==
  /\ state = "TBL_UPDATE" /\ Unlinking(t) /\ lst_op = t.lst[att_op.way]
  /\ lst = IF Written THEN Without(t.lst, att_op.way) ELSE t.lst
LinkingNext(t) ==
  /\ state = "TBL_UPDATE1" /\ Unlinking(t)
  /\ lst_keep = t.lst[att_op.way] /\ lst_keep.prev # NULL
  /\ lst_op = Without(t.lst, att_op.way)[lst_keep.prev]
  /\ lst = IF Written THEN Bridged(t.lst, att_op.way) ELSE Without(t.lst, att_op.way)
LinkingPrev(t) ==
  /\ state = "TBL_UPDATE2" /\ Unlinking(t)
  /\ lst_keep = t.lst[att_op.way] /\ lst_keep.next # NULL
  /\ lst_op = Bridged(t.lst, att_op.way)[lst_keep.next]
  /\ lst = IF Written THEN Unlinked(t.lst, att_op.way) ELSE Bridged(t.lst, att_op.way)
AtWork(t) == Looked(t) \/ Clearing(t) \/ LinkingNext(t) \/ LinkingPrev(t)
-----------------------------------------------------------------------------
(* Lists.  What an entry is once it, its neighbour before and its neighbour *)
(* behind are written, in that order.                                      *)

LEMMA Neighbours ==
  ASSUME NEW l \in [Entries -> ListEntry], Linked(l), NEW e \in Entries
  PROVE  /\ l[e].prev # NULL => /\ l[e].prev \in Entries \ {e}
                                /\ l[l[e].prev].next = e
         /\ l[e].next # NULL => /\ l[e].next \in Entries \ {e}
                                /\ l[l[e].next].prev = e
         /\ \A x \in Entries : (l[x].next = e => l[e].prev = x)
                            /\ (l[x].prev = e => l[e].next = x)
<1>1. PICK place \in [Entries -> Entries] : \A x, y \in Entries :
        /\ l[x].next = y => place[x] < place[y] /\ l[y].prev = x
        /\ l[x].prev = y => l[y].next = x
  BY DEF Linked
<1>2. \A x \in Entries : place[x] \in Nat
  BY DEF Entries
<1>3. l[e].prev \in 0 .. ListCnt /\ l[e].next \in 0 .. ListCnt
  BY DEF ListEntry
<1>4. ASSUME l[e].prev # NULL
      PROVE  l[e].prev \in Entries \ {e} /\ l[l[e].prev].next = e
  <2>1. l[e].prev \in Entries
    BY <1>3, <1>4, RegsAssumption DEF Entries, NULL
  <2> QED BY <1>1, <1>2, <2>1
<1>5. ASSUME l[e].next # NULL
      PROVE  l[e].next \in Entries \ {e} /\ l[l[e].next].prev = e
  <2>1. l[e].next \in Entries
    BY <1>3, <1>5, RegsAssumption DEF Entries, NULL
  <2> QED BY <1>1, <1>2, <2>1
<1> QED BY <1>1, <1>4, <1>5

(* Lists stay lists without an entry.                                      *)
LEMMA LinkedUnlinked ==
  ASSUME NEW l \in [Entries -> ListEntry], Linked(l), NEW e \in Entries
  PROVE  Linked(Unlinked(l, e))
<1> DEFINE u == Unlinked(l, e)
<1>1. PICK place \in [Entries -> Entries] : \A x, y \in Entries :
        /\ l[x].next = y => place[x] < place[y] /\ l[y].prev = x
        /\ l[x].prev = y => l[y].next = x
  BY DEF Linked
<1>2. \A x \in Entries : place[x] \in Nat
  BY DEF Entries
<1>3. NULL \notin Entries
  BY RegsAssumption DEF Entries, NULL
<1>4. u[e].prev = NULL /\ u[e].next = NULL
  BY DEF Unlinked, NoListEntry
<1>5. \A x \in Entries \ {e} :
        /\ u[x].prev = IF l[x].prev = e THEN l[e].prev ELSE l[x].prev
        /\ u[x].next = IF l[x].next = e THEN l[e].next ELSE l[x].next
  <2> SUFFICES ASSUME NEW x \in Entries \ {e}
               PROVE  /\ u[x].prev = IF l[x].prev = e THEN l[e].prev ELSE l[x].prev
                      /\ u[x].next = IF l[x].next = e THEN l[e].next ELSE l[x].next
    OBVIOUS
  <2>1. l[x] \in ListEntry
    OBVIOUS
  <2> DEFINE p == IF l[x].prev = e THEN l[e].prev ELSE l[x].prev
             n == IF l[x].next = e THEN l[e].next ELSE l[x].next
  <2>2. u[x] = [l[x] EXCEPT !.prev = p, !.next = n]
    BY DEF Unlinked
  <2> HIDE DEF p, n
  <2>3. u[x].prev = p /\ u[x].next = n
    BY <2>1, <2>2 DEF ListEntry
  <2> QED BY <2>3 DEF p, n
<1> HIDE DEF u
<1>6. ASSUME NEW x \in Entries, NEW y \in Entries, u[x].next = y
      PROVE  place[x] < place[y] /\ u[y].prev = x
  <2>1. x # e
    BY <1>3, <1>4, <1>6
  <2>2. CASE l[x].next = e
    <3>1. l[e].next = y /\ l[e].prev = x /\ place[x] < place[e]
      BY <1>1, <1>5, <1>6, <2>1, <2>2
    <3>2. place[e] < place[y] /\ l[y].prev = e
      BY <1>1, <3>1
    <3>3. y # e /\ place[x] < place[y]
      BY <1>2, <3>1, <3>2
    <3> QED BY <1>5, <3>1, <3>2, <3>3
  <2>3. CASE l[x].next # e
    <3>1. l[x].next = y /\ l[y].prev = x /\ place[x] < place[y] /\ y # e
      BY <1>1, <1>5, <1>6, <2>1, <2>3
    <3> QED BY <1>5, <2>1, <3>1
  <2> QED BY <2>2, <2>3
<1>7. ASSUME NEW x \in Entries, NEW y \in Entries, u[x].prev = y
      PROVE  u[y].next = x
  <2>1. x # e
    BY <1>3, <1>4, <1>7
  <2>2. CASE l[x].prev = e
    <3>1. l[e].prev = y /\ l[e].next = x
      BY <1>1, <1>5, <1>7, <2>1, <2>2
    <3>2. l[y].next = e /\ place[y] < place[e]
      BY <1>1, <3>1
    <3>3. y # e
      BY <1>2, <3>2
    <3> QED BY <1>5, <3>1, <3>2, <3>3
  <2>3. CASE l[x].prev # e
    <3>1. l[x].prev = y /\ l[y].next = x /\ y # e
      BY <1>1, <1>5, <1>7, <2>1, <2>3
    <3> QED BY <1>5, <2>1, <3>1
  <2> QED BY <2>2, <2>3
<1>8. \A x, y \in Entries :
        /\ u[x].next = y => place[x] < place[y] /\ u[y].prev = x
        /\ u[x].prev = y => u[y].next = x
  BY <1>6, <1>7
<1>9. Linked(u)
  <2>1. \E f \in [Entries -> Entries] : \A x, y \in Entries :
          /\ u[x].next = y => f[x] < f[y] /\ u[y].prev = x
          /\ u[x].prev = y => u[y].next = x
    <3> WITNESS place \in [Entries -> Entries]
    <3> QED BY <1>8
  <2> QED BY <2>1 DEF Linked
<1> QED BY <1>9 DEF u

(* The first write clears the entry; the second links the neighbour before *)
(* it past it, and is left out when there is none.                         *)
LEMMA BridgedIs ==
  ASSUME NEW l \in [Entries -> ListEntry], Linked(l), NEW e \in Entries
  PROVE  /\ l[e].prev = NULL => Bridged(l, e) = Without(l, e)
         /\ l[e].prev # NULL =>
              Bridged(l, e) =
                [Without(l, e) EXCEPT ![l[e].prev] =
                   [Without(l, e)[l[e].prev] EXCEPT !.next = l[e].next]]
<1> DEFINE b == Bridged(l, e)
           o == Without(l, e)
           y == l[e].prev
<1>1. b[e] = Cleared(l, e) /\ o[e] = Cleared(l, e)
  BY DEF Bridged, Without
<1>2. \A x \in Entries \ {e} : l[x].next # e => b[x] = l[x]
  <2> SUFFICES ASSUME NEW x \in Entries \ {e}, l[x].next # e PROVE b[x] = l[x]
    OBVIOUS
  <2>1. b[x] = [l[x] EXCEPT !.next = l[x].next]
    BY DEF Bridged
  <2> QED BY <2>1 DEF ListEntry
<1>3. \A x \in Entries \ {e} : l[x].next = e => b[x] = [l[x] EXCEPT !.next = l[e].next]
  BY DEF Bridged
<1>4. \A x \in Entries \ {e} : o[x] = l[x]
  BY DEF Without
<1>5. DOMAIN b = Entries /\ DOMAIN o = Entries /\ b = [x \in Entries |-> b[x]]
      /\ o = [x \in Entries |-> o[x]]
  BY DEF Bridged, Without
<1> HIDE DEF b, o
<1>6. ASSUME y = NULL PROVE b = o
  <2>1. \A x \in Entries : l[x].next # e
    BY <1>6, Neighbours, RegsAssumption DEF Entries, NULL
  <2>2. \A x \in Entries : b[x] = o[x]
    BY <1>1, <1>2, <1>4, <2>1
  <2> QED BY <1>5, <2>2
<1>7. ASSUME y # NULL PROVE b = [o EXCEPT ![y] = [o[y] EXCEPT !.next = l[e].next]]
  <2>1. y \in Entries \ {e} /\ l[y].next = e
    BY <1>7, Neighbours
  <2>2. \A x \in Entries : l[x].next = e => x = y
    BY Neighbours
  <2>3. \A x \in Entries \ {y} : b[x] = o[x]
    BY <1>1, <1>2, <1>4, <2>2
  <2>4. b[y] = [o[y] EXCEPT !.next = l[e].next]
    BY <1>3, <1>4, <2>1
  <2> QED BY <1>5, <2>1, <2>3, <2>4
<1> QED BY <1>6, <1>7 DEF b, o

(* The third links the neighbour behind, and with that the entry is out.   *)
LEMMA UnlinkedIs ==
  ASSUME NEW l \in [Entries -> ListEntry], Linked(l), NEW e \in Entries
  PROVE  /\ l[e].next = NULL => Unlinked(l, e) = Bridged(l, e)
         /\ l[e].next # NULL =>
              Unlinked(l, e) =
                [Bridged(l, e) EXCEPT ![l[e].next] =
                   [Bridged(l, e)[l[e].next] EXCEPT !.prev = l[e].prev]]
<1> DEFINE b == Bridged(l, e)
           u == Unlinked(l, e)
           z == l[e].next
<1>1. b[e] = Cleared(l, e) /\ u[e] = Cleared(l, e)
  BY DEF Bridged, Unlinked, Cleared
<1>2. \A x \in Entries \ {e} : l[x].prev # e => u[x] = b[x]
  <2> SUFFICES ASSUME NEW x \in Entries \ {e}, l[x].prev # e PROVE u[x] = b[x]
    OBVIOUS
  <2> DEFINE n == IF l[x].next = e THEN l[e].next ELSE l[x].next
  <2>1. b[x] = [l[x] EXCEPT !.next = n]
    BY DEF Bridged
  <2>2. u[x] = [l[x] EXCEPT !.prev = l[x].prev, !.next = n]
    BY DEF Unlinked
  <2> HIDE DEF n
  <2> QED BY <2>1, <2>2 DEF ListEntry
<1>3. \A x \in Entries \ {e} : l[x].prev = e => u[x] = [b[x] EXCEPT !.prev = l[e].prev]
  <2> SUFFICES ASSUME NEW x \in Entries \ {e}, l[x].prev = e
               PROVE  u[x] = [b[x] EXCEPT !.prev = l[e].prev]
    OBVIOUS
  <2> DEFINE n == IF l[x].next = e THEN l[e].next ELSE l[x].next
  <2>1. b[x] = [l[x] EXCEPT !.next = n]
    BY DEF Bridged
  <2>2. u[x] = [l[x] EXCEPT !.prev = l[e].prev, !.next = n]
    BY DEF Unlinked
  <2> HIDE DEF n
  <2> QED BY <2>1, <2>2 DEF ListEntry
<1>4. b = [x \in Entries |-> b[x]] /\ u = [x \in Entries |-> u[x]]
  BY DEF Bridged, Unlinked
<1> HIDE DEF b, u
<1>5. ASSUME z = NULL PROVE u = b
  <2>1. \A x \in Entries : l[x].prev # e
    BY <1>5, Neighbours, RegsAssumption DEF Entries, NULL
  <2>2. \A x \in Entries : u[x] = b[x]
    BY <1>1, <1>2, <2>1
  <2> QED BY <1>4, <2>2
<1>6. ASSUME z # NULL PROVE u = [b EXCEPT ![z] = [b[z] EXCEPT !.prev = l[e].prev]]
  <2>1. z \in Entries \ {e} /\ l[z].prev = e
    BY <1>6, Neighbours
  <2>2. \A x \in Entries : l[x].prev = e => x = z
    BY Neighbours
  <2>3. \A x \in Entries \ {z} : u[x] = b[x]
    BY <1>1, <1>2, <2>2
  <2>4. u[z] = [b[z] EXCEPT !.prev = l[e].prev]
    BY <1>3, <2>1
  <2> QED BY <1>4, <2>1, <2>3, <2>4
<1> QED BY <1>5, <1>6 DEF b, u
-----------------------------------------------------------------------------
(* The invariant: in calm the machine is at one of the six places.         *)
Commanded ==
  Rest \/ Latched \/ \E t \in AllTables : Placed(t.att) /\ AtWork(t)
CInv == TInv /\ Linked(want.lst) /\ (calm => Commanded)

(* The effect of the command at work, from the entry it read.              *)
LEMMA WorkEffect ==
  ASSUME TInv, NEW t \in AllTables, Placed(t.att), Working(t)
  PROVE  /\ hawk_cmd_reg_ip.page \in Pages
         /\ Unmaps => /\ att_op.way \in Entries
                      /\ want.att = [t.att EXCEPT ![hawk_cmd_reg_ip.page] =
                                       [sts |-> "DALLOC", way |-> 1]]
                      /\ want.lst = Unlinked(t.lst, att_op.way)
         /\ Maps => /\ want.att = [t.att EXCEPT ![0] = [sts |-> "DALLOC", way |-> 0]]
                    /\ want.lst = t.lst /\ hawk_cmd_reg_ip.page = 0
         /\ ~ Maps /\ ~ Unmaps => want = t
<1> DEFINE c == hawk_cmd_reg_ip
           a == t.att[c.page]
<1>0. /\ c \in Command /\ c.page \in Pages /\ a \in AttEntry /\ att_op = a
      /\ t.att \in [Pages -> AttEntry] /\ t.lst \in [Entries -> ListEntry]
      /\ want = Effect(c, t)
  BY DEF TInv, RegsTypeOK, AllTables, Command, Working, From
<1>1. Unmaps <=> c.op = "UNMAP" /\ a.sts # "DALLOC"
  BY <1>0 DEF Unmaps
<1>2. Maps <=> c.op = "MAP" /\ a = [sts |-> "DALLOC", way |-> 1]
  <2>1. a = [sts |-> "DALLOC", way |-> 1] <=> a.sts = "DALLOC" /\ a.way = 1
    BY <1>0 DEF AttEntry
  <2> QED BY <1>0, <2>1 DEF Maps
<1>3. ASSUME Unmaps
      PROVE  /\ att_op.way \in Entries
             /\ want.att = [t.att EXCEPT ![c.page] = [sts |-> "DALLOC", way |-> 1]]
             /\ want.lst = Unlinked(t.lst, att_op.way)
  <2>1. att_op.way \in Entries
    BY <1>0, <1>1, <1>3, RegsAssumption DEF Placed, AttEntry, Entries, NULL
  <2>2. Effect(c, t) = [att |-> [t.att EXCEPT ![c.page] = [sts |-> "DALLOC", way |-> 1]],
                        lst |-> Unlinked(t.lst, a.way)]
    BY <1>1, <1>3 DEF Effect
  <2> QED BY <1>0, <2>1, <2>2
<1>4. ASSUME Maps
      PROVE  /\ want.att = [t.att EXCEPT ![0] = [sts |-> "DALLOC", way |-> 0]]
             /\ want.lst = t.lst /\ c.page = 0
  <2>1. Effect(c, t) = [t EXCEPT !.att[c.page].way = 0]
    BY <1>2, <1>4 DEF Effect
  <2>2. [a EXCEPT !.way = 0] = [sts |-> "DALLOC", way |-> 0]
    BY <1>2, <1>4
  <2>3. Effect(c, t) = [att |-> [t.att EXCEPT ![c.page] = [a EXCEPT !.way = 0]],
                        lst |-> t.lst]
    BY <2>1 DEF AllTables
  <2>4. want.att[c.page].way = 0 /\ a.way = 1
    BY <1>0, <1>2, <1>4, <2>2, <2>3
  <2>5. want # t
    BY <1>0, <2>4
  <2>6. c.page = 0
    BY <1>2, <1>4, <2>5 DEF Working, From
  <2> QED BY <1>0, <2>2, <2>3, <2>6
<1>5. ASSUME ~ Maps, ~ Unmaps PROVE want = t
  BY <1>0, <1>1, <1>2, <1>5 DEF Effect
<1> QED BY <1>0, <1>3, <1>4, <1>5

(* The frame of a working cycle.                                           *)
LEMMA WorkFrame ==
  ASSUME NEW r, NEW w, WorkTick(r, w), NEW t, Working(t)
  PROVE  /\ Same' /\ From(t)' /\ rline' = NoLine
         /\ att_op' = att_op /\ att_op = t.att[hawk_cmd_reg_ip.page]
         /\ hawk_cmd_reg_ip' = hawk_cmd_reg_ip /\ want' = want
         /\ (Unmaps' <=> Unmaps) /\ (Maps' <=> Maps)
BY DEF WorkTick, cfgVars, Working, Same, Pending, From, Unmaps, Maps

(* The write of a list entry, from the tables l the state began with to    *)
(* the tables m it leaves.                                                 *)
LEMMA TableWrite ==
  ASSUME TInv, NEW w \in WriteOutcomes, WriteChannel(w), WritesList,
         wch # "ADDR", wch # "IDLE" => ~ w_done,
         NEW l, NEW m, lst = IF Written THEN m ELSE l,
         m = [l EXCEPT ![lst_w_addr] = lst_write]
  PROVE  /\ att' = att /\ wch' # "ADDR"
         /\ wch' # "IDLE" => ~ w_done /\ w # "RESP"
         /\ lst' = IF wch' = "DATA" \/ w = "RESP" \/ w_done THEN m ELSE l
<1>0. ~ WritesAtt /\ wch \in {"IDLE", "DATA"}
  BY DEF WritesList, WritesAtt, TInv, RegsTypeOK
<1>1. CASE w = "WAIT" /\ WrWait
  BY <1>0, <1>1 DEF WrWait, Written
<1>2. CASE w = "ADDR" /\ WrAddr
  BY <1>0, <1>2 DEF WrAddr
<1>3. CASE w = "DATA" /\ WrData
  <2>1. ~ w_done /\ wch = "IDLE" /\ wch' = "DATA" /\ att' = att
        /\ lst' = [lst EXCEPT ![lst_w_addr] = lst_write]
    BY <1>0, <1>3 DEF WrData, w_valid
  <2>2. lst = l
    BY <2>1 DEF Written
  <2> QED BY <1>3, <2>1, <2>2
<1>4. CASE w = "RESP" /\ WrResp
  BY <1>0, <1>4 DEF WrResp, Written
<1> QED BY <1>1, <1>2, <1>3, <1>4 DEF WriteChannel

(* The write of the page's ATT entry.                                      *)
LEMMA AttWrite ==
  ASSUME TInv, NEW w \in WriteOutcomes, WriteChannel(w),
         NEW t \in AllTables, Placed(t.att), Looked(t)
  PROVE  /\ lst' = lst
         /\ wch' # "IDLE" => WritesAtt /\ ~ w_done /\ w # "RESP"
         /\ wch' = "ADDR" => wline' = att_w_page \div PerLine
         /\ w = "RESP" => WritesAtt
         /\ att' = IF WritesAtt /\ (wch' = "DATA" \/ w = "RESP" \/ w_done)
                   THEN want.att ELSE t.att
<1>0. ~ WritesList /\ wch \in {"IDLE", "ADDR", "DATA"} /\ Working(t)
  BY DEF WritesList, Looked, TInv, RegsTypeOK
<1>1. CASE w = "WAIT" /\ WrWait
  BY <1>0, <1>1 DEF WrWait, Written, Looked, Working
<1>2. CASE w = "ADDR" /\ WrAddr
  BY <1>0, <1>2 DEF WrAddr, w_valid, Written, Looked
<1>3. CASE w = "DATA" /\ WrData
  <2>1. ~ w_done /\ wch \in {"IDLE", "ADDR"} /\ wch' = "DATA" /\ WritesAtt
    BY <1>0, <1>3 DEF WrData, w_valid
  <2>2. att = t.att
    BY <2>1 DEF Written, Looked
  <2>3. lst' = lst /\ att' = [att EXCEPT ![At(att_w_page \div PerLine, att_w_page)]
                                = att_write]
    BY <1>3, <2>1 DEF WrData, Looked
  <2>4. att' = [t.att EXCEPT ![att_w_page] = att_write]
    <3>1. At(att_w_page \div PerLine, att_w_page) = att_w_page
      BY WrittenTypes, AtOwnLine
    <3> QED BY <2>2, <2>3, <3>1
  <2>5. Maps \/ Unmaps
    BY <2>1 DEF WritesAtt
  <2>6. CASE Unmaps
    <3>1. att_w_page = hawk_cmd_reg_ip.page /\ att_write = [sts |-> "DALLOC", way |-> 1]
      BY <1>0, <2>6 DEF att_w_page, att_write, Working, Same
    <3>2. att' = want.att
      BY <1>0, <2>4, <2>6, <3>1, WorkEffect
    <3> QED BY <1>3, <2>1, <2>3, <3>2
  <2>7. CASE ~ Unmaps
    <3>1. att_w_page = 0 /\ att_write = [sts |-> "DALLOC", way |-> 0]
      BY <2>7 DEF att_w_page, att_write
    <3>2. att' = want.att
      BY <1>0, <2>4, <2>5, <2>7, <3>1, WorkEffect
    <3> QED BY <1>3, <2>1, <2>3, <3>2
  <2> QED BY <2>6, <2>7
<1>4. CASE w = "RESP" /\ WrResp
  BY <1>0, <1>4 DEF WrResp, Written, Looked, Working
<1> QED BY <1>1, <1>2, <1>3, <1>4 DEF WriteChannel

-----------------------------------------------------------------------------
(* A cycle takes the machine from one of the places to the next.           *)

(* The ATT entry is looked at, and written.                                *)
LEMMA LookedStep ==
  ASSUME TInv, NEW r \in BOOLEAN, NEW w \in WriteOutcomes, WorkTick(r, w),
         NEW t \in AllTables, Placed(t.att), Looked(t)
  PROVE  Rest' \/ Looked(t)' \/ Clearing(t)'
<1> DEFINE b == w = "RESP"
<1>0. /\ Working(t) /\ state = "ATT_LOOKUP" /\ lst = t.lst /\ Known(hawk_cmd_reg_ip)
      /\ ~ (Maps /\ Unmaps) /\ (WritesAtt <=> Maps \/ Unmaps) /\ ~ WritesList
  BY DEF Looked, Maps, Unmaps, WritesAtt, WritesList
<1>1. /\ Same' /\ From(t)' /\ rline' = NoLine
      /\ att_op' = att_op /\ att_op = t.att[hawk_cmd_reg_ip.page]
      /\ hawk_cmd_reg_ip' = hawk_cmd_reg_ip /\ want' = want
      /\ (Unmaps' <=> Unmaps) /\ (Maps' <=> Maps)
  BY <1>0, WorkFrame
<1>2. /\ lst' = t.lst
      /\ wch' # "IDLE" => WritesAtt /\ ~ w_done /\ ~ b
      /\ wch' = "ADDR" => wline' = att_w_page \div PerLine
      /\ b => WritesAtt
      /\ att' = IF WritesAtt /\ (wch' = "DATA" \/ b \/ w_done) THEN want.att ELSE t.att
  BY <1>0, AttWrite DEF WorkTick
<1>3. lst_r_addr = IF Unmaps THEN att_op.way ELSE NULL
  BY <1>0 DEF lst_r_addr
<1>4. r \/ lst_r_done => Unmaps /\ lst_op' = t.lst[att_op.way]
  <2>1. r => Unmaps /\ lst_op' = t.lst[att_op.way]
    BY <1>0, <1>3 DEF WorkTick, lst_r_valid
  <2>2. ~ r /\ lst_r_done => Unmaps /\ lst_op' = t.lst[att_op.way]
    BY <1>0 DEF WorkTick, Looked
  <2> QED BY <2>1, <2>2
<1>5. Unmaps => att_op.way \in Entries /\ att_op.way # NULL
  <2>1. Unmaps => att_op.way \in Entries
    BY <1>0, WorkEffect
  <2>2. NULL \notin Entries
    BY RegsAssumption DEF Entries, NULL
  <2> QED BY <2>1, <2>2
<1>6. w_done => WritesAtt
  BY DEF Looked
<1>7. /\ hawk_cmd_active' = (hawk_cmd_active /\ state_n # "IDLE")
      /\ hawk_cmd_reg' = hawk_cmd_reg
  BY DEF WorkTick, cfgVars
<1>8. CASE ~ Listen(r, b)
  <2>1. /\ lst_r_done' = (r \/ lst_r_done) /\ w_done' = (b \/ w_done)
        /\ state' = state
    BY <1>8 DEF WorkTick, Advance
  <2>2. (lst_r_done' => r \/ lst_r_done) /\ (w_done' <=> b \/ w_done)
    BY <2>1
  <2>3. WritesAtt' <=> WritesAtt
    BY <1>0, <1>1, <2>1 DEF WritesAtt
  <2>4. att_w_page' = att_w_page
    BY <1>1, <1>7 DEF att_w_page
  <2>5. Written' <=> wch' = "DATA" \/ b \/ w_done
    BY <2>2 DEF Written
  <2>6. Working(t)'
    BY <1>1, <1>2, <2>2 DEF Working
  <2>7. att' = IF WritesAtt' /\ Written' THEN want'.att ELSE t.att
    BY <1>1, <1>2, <2>3, <2>5
  <2>8. lst_r_done' => Unmaps' /\ lst_op' = lst'[att_op'.way]
    BY <1>1, <1>2, <1>4, <2>2
  <2>9. /\ state' = "ATT_LOOKUP" /\ Known(hawk_cmd_reg_ip)' /\ lst' = t.lst
        /\ (wch' # "IDLE" => WritesAtt') /\ (w_done' => WritesAtt')
        /\ (wch' = "ADDR" => wline' = (att_w_page \div PerLine)')
    BY <1>0, <1>1, <1>2, <1>6, <2>1, <2>2, <2>3, <2>4 DEF Known
  <2>10. Looked(t)'
    BY <2>6, <2>7, <2>8, <2>9 DEF Looked
  <2> QED BY <2>10
<1>9. CASE Listen(r, b)
  <2>1. ~ lst_r_done' /\ ~ w_done' /\ state' = state_n
    BY <1>9 DEF WorkTick, Advance
  <2>2. (WritesAtt => b \/ w_done) /\ wch' = "IDLE"
    BY <1>0, <1>2, <1>9 DEF Listen
  <2>3. CASE Unmaps
    <3>1. state' = "TBL_UPDATE" /\ (r \/ lst_r_done)
      BY <1>0, <1>3, <1>5, <1>9, <2>1, <2>3 DEF Listen, state_n
    <3>2. lst_op' = t.lst[att_op'.way] /\ att' = want'.att
      BY <1>0, <1>1, <1>2, <1>4, <2>2, <2>3, <3>1
    <3>3. Unlinking(t)'
      BY <1>1, <2>1, <2>2, <2>3, <3>2 DEF Unlinking, Working
    <3>4. ~ Written'
      BY <2>1, <2>2 DEF Written
    <3>5. Clearing(t)'
      BY <1>2, <3>1, <3>2, <3>3, <3>4 DEF Clearing
    <3> QED BY <3>5
  <2>4. CASE ~ Unmaps
    <3>1. state_n = "IDLE"
      BY <1>0, <2>4 DEF state_n
    <3>2. Quiet' /\ ~ hawk_cmd_active' /\ state' = "IDLE"
      BY <1>7, <2>1, <2>2, <3>1 DEF Quiet
    <3>3. att' = want.att /\ lst' = want.lst
      BY <1>0, <1>2, <2>2, <2>4, WorkEffect
    <3>4. Tables' = want'
      <4>1. want = [att |-> want.att, lst |-> want.lst]
        BY DEF TInv, RegsTypeOK
      <4> QED BY <1>1, <3>3, <4>1 DEF Tables
    <3>5. Rest'
      BY <1>1, <3>2, <3>4 DEF Rest
    <3> QED BY <3>5
  <2> QED BY <2>3, <2>4
<1> QED BY <1>8, <1>9

(* What the three writes of an unlinking have in common: from the tables l *)
(* to the tables m, and a neighbour read, if at all, from m.               *)
LEMMA UnlinkingStep ==
  ASSUME TInv, NEW r \in BOOLEAN, NEW w \in WriteOutcomes, WorkTick(r, w),
         ~ Overtakes(r, w = "RESP"),
         NEW t \in AllTables, Placed(t.att), Unlinking(t), WritesList,
         NEW l, NEW m, lst = IF Written THEN m ELSE l,
         m = [l EXCEPT ![lst_w_addr] = lst_write]
  PROVE  /\ \/ /\ Unlinking(t)' /\ ~ r
               /\ UNCHANGED <<state, lst_op, lst_keep>>
               /\ lst' = IF Written' THEN m ELSE l
            \/ /\ state' = state_n
               /\ hawk_cmd_active' => state_n # "IDLE"
               /\ Unlinking(t)' /\ ~ Written' /\ Quiet' /\ lst' = m
               /\ lst_r_addr # NULL => lst_op' = m[lst_r_addr]
               /\ state = "TBL_UPDATE" => lst_keep' = lst_op
               /\ state = "TBL_UPDATE1" => lst_keep' = lst_keep
         /\ want' = want /\ att_op' = att_op /\ rline' = NoLine
<1> DEFINE b == w = "RESP"
<1>0. /\ Working(t) /\ Unmaps /\ att = want.att /\ ~ lst_r_done /\ wch # "ADDR"
      /\ wch # "IDLE" => ~ w_done
      /\ state \in {"TBL_UPDATE", "TBL_UPDATE1", "TBL_UPDATE2"} /\ ~ WritesAtt
  BY DEF Unlinking, Working, WritesList, WritesAtt
<1>1. /\ Same' /\ From(t)' /\ rline' = NoLine
      /\ att_op' = att_op /\ att_op = t.att[hawk_cmd_reg_ip.page]
      /\ hawk_cmd_reg_ip' = hawk_cmd_reg_ip /\ want' = want
      /\ (Unmaps' <=> Unmaps) /\ (Maps' <=> Maps)
  BY <1>0, WorkFrame
<1>2. /\ att' = att /\ wch' # "ADDR"
      /\ wch' # "IDLE" => ~ w_done /\ ~ b
      /\ lst' = IF wch' = "DATA" \/ b \/ w_done THEN m ELSE l
  BY <1>0, TableWrite DEF WorkTick
<1>3. hawk_cmd_active' => state_n # "IDLE"
  BY DEF WorkTick
<1>4. r => (b \/ w_done) /\ lst_r_addr # NULL
  <2>1. r => lst_r_addr # NULL
    BY DEF WorkTick, lst_r_valid
  <2>2. r => state # "TBL_UPDATE2"
    BY <2>1 DEF lst_r_addr
  <2> QED BY <1>0, <2>1, <2>2 DEF Overtakes
<1>5. b => wch = "DATA"
  BY DEF WorkTick, WriteChannel, WrResp
<1>6. Listen(r, b) <=> (b \/ w_done) /\ (lst_r_addr # NULL => r)
  BY <1>0 DEF Listen
<1>7. CASE ~ Listen(r, b)
  <2>1. ~ r
    BY <1>4, <1>6, <1>7
  <2>2. /\ lst_r_done' = (r \/ lst_r_done) /\ w_done' = (b \/ w_done)
        /\ UNCHANGED <<state, lst_keep>> /\ lst_op' = lst_op
    BY <1>7, <2>1 DEF WorkTick, Advance
  <2>3. ~ lst_r_done' /\ (w_done' <=> b \/ w_done)
    BY <1>0, <2>1, <2>2
  <2>4. Unlinking(t)'
    BY <1>0, <1>1, <1>2, <2>3 DEF Unlinking, Working
  <2>5. lst' = IF Written' THEN m ELSE l
    BY <1>2, <2>3 DEF Written
  <2> QED BY <1>1, <2>1, <2>2, <2>4, <2>5
<1>8. CASE Listen(r, b)
  <2>1. /\ state' = state_n /\ ~ lst_r_done' /\ ~ w_done'
        /\ (state = "TBL_UPDATE" => lst_keep' = lst_op)
        /\ (state = "TBL_UPDATE1" => lst_keep' = lst_keep)
    BY <1>8 DEF WorkTick, Advance
  <2>2. wch' = "IDLE" /\ lst' = m
    BY <1>2, <1>6, <1>8
  <2>3. ~ Written' /\ Quiet'
    BY <2>1, <2>2 DEF Written, Quiet
  <2>4. Unlinking(t)'
    BY <1>0, <1>1, <1>2, <2>1, <2>2 DEF Unlinking, Working
  <2>5. ASSUME lst_r_addr # NULL PROVE lst_op' = m[lst_r_addr]
    <3>1. r /\ lst = m
      BY <1>4, <1>5, <1>6, <1>8, <2>5 DEF Written
    <3> QED BY <3>1 DEF WorkTick
  <2> QED BY <1>1, <1>3, <2>1, <2>2, <2>3, <2>4, <2>5
<1> QED BY <1>7, <1>8

(* With the last of them the tables are as commanded.                      *)
LEMMA UnlinkingEnds ==
  ASSUME TInv, NEW t \in AllTables, Placed(t.att), Unlinking(t), Unlinking(t)',
         want' = want, rline' = NoLine, ~ hawk_cmd_active', state' = "IDLE", Quiet',
         lst' = Unlinked(t.lst, att_op.way)
  PROVE  Rest'
<1>1. lst' = want'.lst /\ att' = want'.att
  BY WorkEffect DEF Unlinking
<1>2. want = [att |-> want.att, lst |-> want.lst]
  BY DEF TInv, RegsTypeOK
<1>3. Tables' = want'
  BY <1>1, <1>2 DEF Tables
<1> QED BY <1>3 DEF Rest

(* The entry of the page's way is cleared.                                 *)
LEMMA ClearingStep ==
  ASSUME TInv, NEW r \in BOOLEAN, NEW w \in WriteOutcomes, WorkTick(r, w),
         ~ Overtakes(r, w = "RESP"),
         NEW t \in AllTables, Placed(t.att), Clearing(t)
  PROVE  Rest' \/ Clearing(t)' \/ LinkingNext(t)' \/ LinkingPrev(t)'
<1> DEFINE e == att_op.way
           m == Without(t.lst, e)
<1>0. /\ Unlinking(t) /\ Working(t) /\ state = "TBL_UPDATE" /\ WritesList
      /\ lst_op = t.lst[e] /\ e \in Entries /\ Linked(t.lst)
      /\ t.lst \in [Entries -> ListEntry]
  BY WorkEffect DEF Clearing, Unlinking, Working, From, WritesList, AllTables
<1>1. m = [t.lst EXCEPT ![lst_w_addr] = lst_write] /\ lst = IF Written THEN m ELSE t.lst
  BY <1>0 DEF Without, Cleared, lst_w_addr, lst_write, Clearing
<1> HIDE DEF m
<1>2. /\ \/ /\ Unlinking(t)' /\ ~ r
            /\ UNCHANGED <<state, lst_op, lst_keep>>
            /\ lst' = IF Written' THEN m ELSE t.lst
         \/ /\ state' = state_n
            /\ hawk_cmd_active' => state_n # "IDLE"
            /\ Unlinking(t)' /\ ~ Written' /\ Quiet' /\ lst' = m
            /\ lst_r_addr # NULL => lst_op' = m[lst_r_addr]
            /\ state = "TBL_UPDATE" => lst_keep' = lst_op
            /\ state = "TBL_UPDATE1" => lst_keep' = lst_keep
      /\ want' = want /\ att_op' = att_op /\ rline' = NoLine
  BY <1>0, <1>1, UnlinkingStep
<1>3. CASE state' = state
  <2>1. Clearing(t)'
    BY <1>0, <1>2, <1>3 DEF Clearing, m, state_n
  <2> QED BY <2>1
<1>4. CASE state' # state
  <2>0. /\ state' = state_n /\ Unlinking(t)' /\ ~ Written' /\ Quiet' /\ lst' = m
        /\ (lst_r_addr # NULL => lst_op' = m[lst_r_addr]) /\ lst_keep' = lst_op
        /\ (state_n = "IDLE" => ~ hawk_cmd_active')
    BY <1>0, <1>2, <1>4
  <2>1. CASE t.lst[e].prev # NULL
    <3>1. state' = "TBL_UPDATE1" /\ lst_op' = m[t.lst[e].prev]
      BY <1>0, <2>0, <2>1 DEF state_n, lst_r_addr
    <3>2. LinkingNext(t)'
      BY <1>0, <1>2, <2>0, <2>1, <3>1 DEF LinkingNext, m
    <3> QED BY <3>2
  <2>2. CASE t.lst[e].prev = NULL /\ t.lst[e].next # NULL
    <3>1. state' = "TBL_UPDATE2" /\ lst_op' = m[t.lst[e].next]
      BY <1>0, <2>0, <2>2 DEF state_n, lst_r_addr
    <3>2. m = Bridged(t.lst, e)
      BY <1>0, <2>2, BridgedIs DEF m
    <3>3. LinkingPrev(t)'
      BY <1>0, <1>2, <2>0, <2>2, <3>1, <3>2 DEF LinkingPrev
    <3> QED BY <3>3
  <2>3. CASE t.lst[e].prev = NULL /\ t.lst[e].next = NULL
    <3>1. state' = "IDLE" /\ ~ hawk_cmd_active'
      BY <1>0, <2>0, <2>3 DEF state_n
    <3>2. lst' = Unlinked(t.lst, e)
      BY <1>0, <2>0, <2>3, BridgedIs, UnlinkedIs DEF m
    <3> QED BY <1>0, <1>2, <2>0, <3>1, <3>2, UnlinkingEnds
  <2> QED BY <2>1, <2>2, <2>3
<1> QED BY <1>3, <1>4

(* The neighbour before it is linked past it.                              *)
LEMMA LinkingNextStep ==
  ASSUME TInv, NEW r \in BOOLEAN, NEW w \in WriteOutcomes, WorkTick(r, w),
         ~ Overtakes(r, w = "RESP"),
         NEW t \in AllTables, Placed(t.att), LinkingNext(t)
  PROVE  Rest' \/ LinkingNext(t)' \/ LinkingPrev(t)'
<1> DEFINE e == att_op.way
           l == Without(t.lst, e)
           m == Bridged(t.lst, e)
<1>0. /\ Unlinking(t) /\ Working(t) /\ state = "TBL_UPDATE1" /\ WritesList
      /\ lst_keep = t.lst[e] /\ e \in Entries /\ Linked(t.lst)
      /\ t.lst \in [Entries -> ListEntry]
      /\ lst_keep.prev # NULL /\ lst_op = l[lst_keep.prev]
  BY WorkEffect DEF LinkingNext, Unlinking, Working, From, WritesList, AllTables
<1>1. m = [l EXCEPT ![lst_w_addr] = lst_write] /\ lst = IF Written THEN m ELSE l
  <2>1. lst_w_addr = t.lst[e].prev
        /\ lst_write = [l[t.lst[e].prev] EXCEPT !.next = t.lst[e].next]
    BY <1>0 DEF lst_w_addr, lst_write
  <2>2. lst = IF Written THEN m ELSE l
    BY DEF LinkingNext
  <2> QED BY <1>0, <2>1, <2>2, BridgedIs
<1> HIDE DEF m, l
<1>2. /\ \/ /\ Unlinking(t)' /\ ~ r
            /\ UNCHANGED <<state, lst_op, lst_keep>>
            /\ lst' = IF Written' THEN m ELSE l
         \/ /\ state' = state_n
            /\ hawk_cmd_active' => state_n # "IDLE"
            /\ Unlinking(t)' /\ ~ Written' /\ Quiet' /\ lst' = m
            /\ lst_r_addr # NULL => lst_op' = m[lst_r_addr]
            /\ state = "TBL_UPDATE" => lst_keep' = lst_op
            /\ state = "TBL_UPDATE1" => lst_keep' = lst_keep
      /\ want' = want /\ att_op' = att_op /\ rline' = NoLine
  BY <1>0, <1>1, UnlinkingStep
<1>3. CASE state' = state
  <2>1. LinkingNext(t)'
    BY <1>0, <1>2, <1>3 DEF LinkingNext, m, l, state_n
  <2> QED BY <2>1
<1>4. CASE state' # state
  <2>0. /\ state' = state_n /\ Unlinking(t)' /\ ~ Written' /\ Quiet' /\ lst' = m
        /\ (lst_r_addr # NULL => lst_op' = m[lst_r_addr]) /\ lst_keep' = lst_keep
        /\ (state_n = "IDLE" => ~ hawk_cmd_active')
    BY <1>0, <1>2, <1>4
  <2>1. CASE t.lst[e].next # NULL
    <3>1. state' = "TBL_UPDATE2" /\ lst_op' = m[t.lst[e].next]
      BY <1>0, <2>0, <2>1 DEF state_n, lst_r_addr
    <3>2. LinkingPrev(t)'
      BY <1>0, <1>2, <2>0, <2>1, <3>1 DEF LinkingPrev, m
    <3> QED BY <3>2
  <2>2. CASE t.lst[e].next = NULL
    <3>1. state' = "IDLE" /\ ~ hawk_cmd_active'
      BY <1>0, <2>0, <2>2 DEF state_n
    <3>2. lst' = Unlinked(t.lst, e)
      BY <1>0, <2>0, <2>2, UnlinkedIs DEF m
    <3> QED BY <1>0, <1>2, <2>0, <3>1, <3>2, UnlinkingEnds
  <2> QED BY <2>1, <2>2
<1> QED BY <1>3, <1>4

(* The neighbour behind it is linked past it.                              *)
LEMMA LinkingPrevStep ==
  ASSUME TInv, NEW r \in BOOLEAN, NEW w \in WriteOutcomes, WorkTick(r, w),
         ~ Overtakes(r, w = "RESP"),
         NEW t \in AllTables, Placed(t.att), LinkingPrev(t)
  PROVE  Rest' \/ LinkingPrev(t)'
<1> DEFINE e == att_op.way
           l == Bridged(t.lst, e)
           m == Unlinked(t.lst, e)
<1>0. /\ Unlinking(t) /\ Working(t) /\ state = "TBL_UPDATE2" /\ WritesList
      /\ lst_keep = t.lst[e] /\ e \in Entries /\ Linked(t.lst)
      /\ t.lst \in [Entries -> ListEntry]
      /\ lst_keep.next # NULL /\ lst_op = l[lst_keep.next]
  BY WorkEffect DEF LinkingPrev, Unlinking, Working, From, WritesList, AllTables
<1>1. m = [l EXCEPT ![lst_w_addr] = lst_write] /\ lst = IF Written THEN m ELSE l
  <2>1. lst_w_addr = t.lst[e].next
        /\ lst_write = [l[t.lst[e].next] EXCEPT !.prev = t.lst[e].prev]
    BY <1>0 DEF lst_w_addr, lst_write
  <2>2. lst = IF Written THEN m ELSE l
    BY DEF LinkingPrev
  <2> QED BY <1>0, <2>1, <2>2, UnlinkedIs
<1> HIDE DEF m, l
<1>2. /\ \/ /\ Unlinking(t)' /\ ~ r
            /\ UNCHANGED <<state, lst_op, lst_keep>>
            /\ lst' = IF Written' THEN m ELSE l
         \/ /\ state' = state_n
            /\ hawk_cmd_active' => state_n # "IDLE"
            /\ Unlinking(t)' /\ ~ Written' /\ Quiet' /\ lst' = m
            /\ lst_r_addr # NULL => lst_op' = m[lst_r_addr]
            /\ state = "TBL_UPDATE" => lst_keep' = lst_op
            /\ state = "TBL_UPDATE1" => lst_keep' = lst_keep
      /\ want' = want /\ att_op' = att_op /\ rline' = NoLine
  BY <1>0, <1>1, UnlinkingStep
<1>3. state_n = "IDLE"
  BY <1>0 DEF state_n
<1>4. CASE state' = state
  <2>1. LinkingPrev(t)'
    BY <1>0, <1>2, <1>3, <1>4 DEF LinkingPrev, m, l
  <2> QED BY <2>1
<1>5. CASE state' # state
  <2>0. /\ state' = "IDLE" /\ Unlinking(t)' /\ Quiet' /\ lst' = m
        /\ ~ hawk_cmd_active'
    BY <1>0, <1>2, <1>3, <1>5
  <2> QED BY <1>0, <1>2, <2>0, UnlinkingEnds DEF m
<1> QED BY <1>4, <1>5

-----------------------------------------------------------------------------
(* Every step keeps the invariant.                                         *)

LEMMA CalmInit == Init => CInv
<1> SUFFICES ASSUME Init PROVE CInv
  OBVIOUS
<1>1. want.lst = lst /\ want = Tables
  BY DEF Init, Tables
<1>2. Linked(want.lst)
  <2>1. PICK t \in Layouts : att = t.att /\ lst = t.lst
    BY DEF Init
  <2> QED BY <1>1, <2>1, LayoutsAssumption
<1>3. calm => Rest
  BY <1>1 DEF Init, Rest, Quiet
<1> QED BY <1>2, <1>3, TypesInit DEF CInv, Commanded

(* What the invariant speaks about besides the register's side of the      *)
(* handshake.                                                              *)
LEMMA CalmSame ==
  ASSUME CInv, TInv',
         UNCHANGED <<hawk_cmd_reg, hawk_cmd_flag_m, cmdVars, fsmVars, chVars, calm, want>>
  PROVE  CInv'
<1>1. calm => Commanded'
  <2>1. Commanded => Commanded'
    BY DEF cmdVars, fsmVars, chVars, Commanded, Rest, Latched, AtWork, Looked, Clearing,
           LinkingNext, LinkingPrev, Unlinking, Working, Same, Pending, From, Quiet, Written,
           Tables, WritesAtt, Maps, Unmaps, att_w_page
  <2> QED BY <2>1 DEF CInv
<1> QED BY <1>1 DEF CInv

(* A write in calm meets an idle machine with no command.                  *)
LEMMA CalmWrite ==
  ASSUME CInv, TInv', NEW c, NEW flips, Write(c, flips)
  PROVE  CInv'
<1>1. ASSUME calm' PROVE Rest'
  <2>1. calm /\ ~ hawk_cmd_ready
    BY <1>1 DEF Write
  <2>2. state = "IDLE" /\ ~ hawk_cmd_active
    BY <2>1 DEF hawk_cmd_ready
  <2>3. Rest
    BY <2>1, <2>2 DEF CInv, Commanded, Latched, AtWork, Looked, Clearing, LinkingNext,
                      LinkingPrev
  <2> QED BY <2>3 DEF Write, cmdVars, fsmVars, chVars, Rest, Quiet, Tables
<1>2. want' = want
  BY DEF Write
<1> QED BY <1>1, <1>2 DEF CInv, Commanded

(* An idle machine at rest latches a command; one that latched it goes on  *)
(* to look at its entry.                                                   *)
LEMMA CalmIdle ==
  ASSUME CInv, TInv', NEW run \in BOOLEAN, NEW r \in ReadOutcomes, IdleTick(run, r)
  PROVE  CInv'
<1>0. /\ TInv /\ RegsTypeOK /\ Placed(att) /\ state = "IDLE"
      /\ UNCHANGED <<hawk_cmd_reg, hawk_cmd_flag_m, lst_r_done, w_done, wch, wline, att, lst>>
      /\ Tables \in AllTables /\ hawk_cmd_reg \in Command
  BY DEF CInv, TInv, RegsTypeOK, IdleTick, cfgVars, AllTables, Tables
<1>1. Tables' = Tables
  BY <1>0 DEF Tables
<1>2. Linked(want'.lst)
  <2>1. CASE Pending
    <3>1. want' = Effect(hawk_cmd_reg, want)
      BY <2>1 DEF IdleTick, Latch
    <3> DEFINE a == want.att[hawk_cmd_reg.page]
    <3>2. a \in AttEntry /\ want.lst \in [Entries -> ListEntry] /\ Placed(want.att)
          /\ want.att \in [Pages -> AttEntry] /\ hawk_cmd_reg.page \in Pages
      BY <1>0 DEF TInv, RegsTypeOK, Command
    <3>3. CASE hawk_cmd_reg.op = "UNMAP" /\ a.sts # "DALLOC"
      <4>1. a.way \in Entries
        BY <3>2, <3>3, RegsAssumption DEF Placed, AttEntry, Entries, NULL
      <4>2. want'.lst = Unlinked(want.lst, a.way)
        BY <3>1, <3>3 DEF Effect
      <4> QED BY <3>2, <4>1, <4>2, LinkedUnlinked DEF CInv
    <3>4. CASE hawk_cmd_reg.op = "MAP" /\ a = [sts |-> "DALLOC", way |-> 1]
      <4>1. want' = [want EXCEPT !.att[hawk_cmd_reg.page].way = 0]
        BY <3>1, <3>4 DEF Effect
      <4>2. want'.lst = want.lst
        BY <1>0, <4>1 DEF RegsTypeOK
      <4> QED BY <4>2 DEF CInv
    <3>5. CASE ~ (hawk_cmd_reg.op = "UNMAP" /\ a.sts # "DALLOC")
               /\ ~ (hawk_cmd_reg.op = "MAP" /\ a = [sts |-> "DALLOC", way |-> 1])
      <4>1. want' = want
        BY <3>1, <3>5 DEF Effect
      <4> QED BY <4>1 DEF CInv
    <3> QED BY <3>3, <3>4, <3>5
  <2>2. CASE ~ Pending
    <3>1. want' = want
      BY <2>2 DEF IdleTick, Latch
    <3> QED BY <3>1 DEF CInv
  <2> QED BY <2>1, <2>2
<1>3. Rest \/ Latched \/ ~ calm
  BY <1>0 DEF CInv, Commanded, AtWork, Looked, Clearing, LinkingNext, LinkingPrev
<1>4. RdWait \/ (att_r_valid(run) /\ RdAddr) \/ (att_r_valid(run) /\ RdAnswer)
  BY DEF IdleTick
<1>5. ASSUME calm', Pending PROVE Latched'
  <2>1. /\ hawk_cmd_active' /\ ~ Pending' /\ hawk_cmd_reg_ip' = hawk_cmd_reg
        /\ want' = Effect(hawk_cmd_reg, want)
    BY <1>0, <1>5 DEF IdleTick, Latch, Pending
  <2>2. /\ calm /\ ~ hawk_cmd_active
        /\ (hawk_cmd_reg.op = "MAP" /\ want # want' => hawk_cmd_reg.page = 0)
    BY <1>5 DEF IdleTick, Latch
  <2>3. Rest
    BY <1>3, <2>2 DEF Latched
  <2>4. From(Tables)'
    <3>1. Linked(lst)
      BY <2>3 DEF CInv, Rest, Tables
    <3> QED BY <1>0, <1>1, <2>1, <2>2, <2>3, <3>1 DEF From, Rest, Tables
  <2>5. Quiet' /\ Same'
    BY <1>0, <2>1, <2>3 DEF Rest, Quiet, Same
  <2>6. state' = "IDLE" /\ rline' \in {NoLine, hawk_cmd_reg_ip'.page \div PerLine}
    <3>1. rline = NoLine /\ cmd_now = hawk_cmd_reg
      BY <2>2, <2>3 DEF Rest, cmd_now
    <3>2. CASE RdWait
      BY <1>0, <3>1, <3>2 DEF RdWait
    <3>3. CASE RdAddr
      BY <1>0, <2>1, <3>1, <3>3 DEF RdAddr
    <3> QED BY <1>4, <3>1, <3>2, <3>3 DEF RdAnswer
  <2> QED BY <2>1, <2>4, <2>5, <2>6 DEF Latched
<1>6. ASSUME calm', ~ Pending PROVE Commanded'
  <2>1. UNCHANGED <<hawk_cmd_flag_s, hawk_cmd_active, hawk_cmd_reg_ip, calm, want>>
    BY <1>6 DEF IdleTick, Latch, cmdVars
  <2>2. CASE Rest
    <3>1. ~ att_r_valid(run)
      BY <1>6, <2>2 DEF Rest, att_r_valid, hawk_cmd_ready
    <3>2. RdWait
      BY <1>4, <3>1
    <3>3. Rest'
      BY <1>0, <1>1, <2>1, <2>2, <3>2 DEF RdWait, Rest, Quiet
    <3> QED BY <3>3 DEF Commanded
  <2>3. CASE Latched
    <3>1. Same' /\ Quiet' /\ From(Tables)' /\ hawk_cmd_active'
      BY <1>0, <1>1, <2>1, <2>3 DEF Latched, Same, Pending, Quiet, From, Tables
    <3>2. cmd_now = hawk_cmd_reg_ip /\ hawk_cmd_reg_ip.page \in Pages
      BY <1>0, <2>3 DEF Latched, cmd_now, RegsTypeOK, Command
    <3>3. CASE RdWait
      <4>1. Latched'
        BY <1>0, <2>1, <2>3, <3>1, <3>3 DEF RdWait, Latched
      <4> QED BY <4>1 DEF Commanded
    <3>4. CASE RdAddr
      <4>1. Latched'
        BY <1>0, <2>1, <3>1, <3>2, <3>4 DEF RdAddr, Latched
      <4> QED BY <4>1 DEF Commanded
    <3>5. CASE RdAnswer /\ att_r_valid(run)
      <4>1. At(rline, cmd_now.page) = hawk_cmd_reg_ip.page
        BY <2>3, <3>2, <3>5, AtOwnLine DEF RdAnswer, Latched
      <4>2. /\ att_op' = att[hawk_cmd_reg_ip.page] /\ rline' = NoLine
            /\ state' = "ATT_LOOKUP" /\ Known(hawk_cmd_reg_ip)
        BY <3>2, <3>5, <4>1 DEF RdAnswer, att_r_valid
      <4>3. wch' = "IDLE" /\ ~ w_done' /\ ~ lst_r_done' /\ ~ Written'
        BY <3>1 DEF Quiet, Written
      <4>4. Tables'.att = att /\ Tables'.lst = lst
        BY <1>0 DEF Tables
      <4>5. Looked(Tables)'
        <5>1. Working(Tables)'
          BY <1>0, <2>1, <3>1, <4>2, <4>3 DEF Working, Tables
        <5> QED BY <1>0, <2>1, <4>2, <4>3, <5>1 DEF Looked, Tables, Known
      <4>6. Tables' \in AllTables /\ Placed(Tables'.att)
        BY <1>0, <1>1 DEF Tables
      <4> QED BY <4>5, <4>6 DEF Commanded, AtWork
    <3> QED BY <1>4, <3>3, <3>4, <3>5
  <2>4. calm
    BY <1>6, <2>1
  <2> QED BY <1>3, <2>2, <2>3, <2>4
<1>7. calm' => Commanded'
  BY <1>5, <1>6 DEF Commanded
<1> QED BY <1>2, <1>7 DEF CInv

(* A working machine goes on or comes to rest.                             *)
LEMMA CalmWork ==
  ASSUME CInv, TInv', NEW r \in BOOLEAN, NEW w \in WriteOutcomes, WorkTick(r, w)
  PROVE  CInv'
<1>1. ASSUME calm' PROVE Commanded'
  <2>1. calm /\ ~ Overtakes(r, w = "RESP") /\ state # "IDLE"
    BY <1>1 DEF WorkTick
  <2>2. PICK t \in AllTables : Placed(t.att) /\ AtWork(t)
    BY <2>1 DEF CInv, Commanded, Rest, Latched
  <2>3. Rest' \/ AtWork(t)'
    <3>1. CASE Looked(t)
      BY <2>2, <3>1, LookedStep DEF CInv, AtWork
    <3>2. CASE Clearing(t)
      BY <2>1, <2>2, <3>2, ClearingStep DEF CInv, AtWork
    <3>3. CASE LinkingNext(t)
      BY <2>1, <2>2, <3>3, LinkingNextStep DEF CInv, AtWork
    <3>4. CASE LinkingPrev(t)
      BY <2>1, <2>2, <3>4, LinkingPrevStep DEF CInv, AtWork
    <3> QED BY <2>2, <3>1, <3>2, <3>3, <3>4 DEF AtWork
  <2> QED BY <2>2, <2>3 DEF Commanded, AllTables
<1>2. want' = want
  BY DEF WorkTick
<1> QED BY <1>1, <1>2 DEF CInv

LEMMA CalmNext == ASSUME CInv, [Next]_vars PROVE CInv'
<1>0. TInv'
  BY TypesNext DEF CInv
<1>1. CASE Write64
  BY <1>0, <1>1, CalmWrite DEF Write64
<1>2. CASE WriteLow
  BY <1>0, <1>2, CalmWrite DEF WriteLow
<1>3. CASE WriteHigh
  BY <1>0, <1>3, CalmWrite DEF WriteHigh
<1>4. CASE WriteResp
  BY <1>0, <1>4, CalmSame DEF WriteResp
<1>5. CASE \E run \in BOOLEAN, r \in ReadOutcomes : IdleTick(run, r)
  BY <1>0, <1>5, CalmIdle
<1>6. CASE \E r \in BOOLEAN, w \in WriteOutcomes : WorkTick(r, w)
  BY <1>0, <1>6, CalmWork
<1>7. CASE UNCHANGED vars
  BY <1>0, <1>7, CalmSame DEF vars, cfgVars
<1> QED BY <1>1, <1>2, <1>3, <1>4, <1>5, <1>6, <1>7 DEF Next

(* For any tables of doubly linked lists, any number of register writes    *)
(* and however memory answers: as long as the CPU writes no command over a *)
(* running one and no read overtakes a write, the tables at rest are what  *)
(* the commands make of them.                                              *)
THEOREM CommandsTakeEffect == Spec => []CalmCommandsTakeEffect
<1>1. Spec => []CInv
  BY CalmInit, CalmNext, PTL DEF Spec
<1>2. CInv => CalmCommandsTakeEffect
  BY DEF CInv, CalmCommandsTakeEffect, Commanded, Rest, Latched, AtWork, Looked, Clearing,
         LinkingNext, LinkingPrev
<1> QED BY <1>1, <1>2, PTL

-----------------------------------------------------------------------------
(* The tables in DRAM, for every layout that fits.                         *)

(* Both configurations of hacd_pkg.sv meet what the theorems below ask for.*)
THEOREM ConfigurationsFit == BringUpFits /\ FpgaFits
  BY DEF BringUpFits, FpgaFits, Fits

(* The entry decode_AttEntry picks by address bits of the page is the one  *)
(* the page writer stored under the page's attEntryId.                     *)
THEOREM AttReadWhereWritten ==
  ASSUME LayoutFits, NEW hppa \in Nat, hppa >= HPPA_BASE
  PROVE  DecodeIndex(hppa) = EntryIndex(AttEntryId(hppa), 8)
<1> DEFINE k == HPPA_BASE \div 8
           d == hppa - HPPA_BASE
<1>1. k \in Nat /\ HPPA_BASE = 8 * k
  BY DEF LayoutFits, Fits
<1>2. d \in Nat /\ d % 8 = hppa % 8
  <2> HIDE DEF k
  <2> QED BY <1>1
<1>3. IF (d + 1) % 8 = 0 THEN d % 8 = 7 ELSE d % 8 = ((d + 1) % 8) - 1
  <2> HIDE DEF d
  <2> QED BY <1>2
<1> QED BY <1>2, <1>3 DEF DecodeIndex, EntryIndex, AttEntryId

(* Two ATT entries never share a byte, nor do two list entries; ATT, list  *)
(* table and ways lie one after the other.                                 *)
THEOREM EntriesDisjoint ==
  ASSUME LayoutFits
  PROVE  /\ \A a, b \in AttEntryIds : a < b => AttByte(a) + 8 <= AttByte(b)
         /\ \A e, f \in ListEntryIds : e < f => ListByte(e) + 16 <= ListByte(f)
         /\ \A a \in AttEntryIds : AttByte(a) + 8 <= HAWK_LIST_START
         /\ \A e \in ListEntryIds : ListByte(e) + 16 <= HAWK_PPA_START
<1> USE DEF LayoutFits, Fits
<1>1. \A a \in AttEntryIds : AttByte(a) = HAWK_ATT_START + 8 * (a - 1)
  BY DEF AttByte, Line, AttEntryIds, EntryIndex
<1>2. \A e \in ListEntryIds : ListByte(e) = HAWK_LIST_START + 16 * (e - 1)
  BY DEF ListByte, Line, ListEntryIds, EntryIndex
<1>3. \A a \in AttEntryIds : AttByte(a) + 8 <= HAWK_LIST_START
  BY <1>1 DEF AttEntryIds
<1>4. \A e \in ListEntryIds : ListByte(e) + 16 <= HAWK_PPA_START
  BY <1>2 DEF ListEntryIds
<1> QED BY <1>1, <1>2, <1>3, <1>4 DEF AttEntryIds, ListEntryIds

(* lst_entry_id leads from the identity way a decompression found back to  *)
(* the list entry INIT_LIST gave that way to.                              *)
THEOREM WayToEntry ==
  ASSUME LayoutFits
  PROVE  \A e \in ListEntryIds : lst_entry_id(WayByte(e)) = e
  BY DEF LayoutFits, Fits, ListEntryIds, WayByte, lst_entry_id

(* Slots of a way lie behind its metadata, inside the way, one behind the  *)
(* other; clearing the low address bits of a slot leads to its way (first  *)
(* read of a decompression); and FREEWAY_OR_CONTINUE goes on to hand over  *)
(* the victim's way for every slot a page can be migrated to.              *)
THEOREM SlotsFit ==
  ASSUME LayoutFits, NEW e \in ListEntryIds, NEW s \in Slots
  PROVE  LET w == WayByte(e)  c == cPage_byteStart(w, s)
         IN  /\ w + ZS_OFFSET <= c /\ c + cpage_size <= w + 4096
             /\ \A t \in Slots : s < t => c + cpage_size <= cPage_byteStart(w, t)
             /\ PageOf(c) = w
             /\ TakesFreeway(c)
<1> DEFINE w == WayByte(e)
           k == w \div 4096
<1>1. k \in Nat /\ w = 4096 * k
  BY DEF WayByte, ListEntryIds, LayoutFits, Fits
<1>2. PageOf(cPage_byteStart(w, s)) = w
  <2> HIDE DEF w, k
  <2> QED BY <1>1 DEF PageOf, cPage_byteStart, ZS_OFFSET, cpage_size, Slots
<1>3. /\ w + ZS_OFFSET <= cPage_byteStart(w, s)
      /\ cPage_byteStart(w, s) + cpage_size <= w + 4096
      /\ \A t \in Slots :
           s < t => cPage_byteStart(w, s) + cpage_size <= cPage_byteStart(w, t)
      /\ cPage_byteStart(w, s) + cpage_size < w + 4096
  <2> HIDE DEF w, k
  <2> QED BY <1>1 DEF cPage_byteStart, ZS_OFFSET, cpage_size, Slots
<1> QED BY <1>2, <1>3 DEF TakesFreeway

(* The room test never refuses a slot of a zspage that has one free, so    *)
(* that a migration always gets a destination: the test adds slot sizes to *)
(* an ATT entry number where it means an address, and ways lie above all   *)
(* of those.                                                               *)
THEOREM RoomTestPasses ==
  ASSUME LayoutFits
  PROVE  \A e \in ListEntryIds, a \in AttEntryIds : SlotHasRoom(WayByte(e), a)
  BY DEF LayoutFits, Fits, SlotHasRoom, WayByte, cpage_size, ListEntryIds, AttEntryIds
=============================================================================
