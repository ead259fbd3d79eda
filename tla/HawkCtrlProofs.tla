----------------------------- MODULE HawkCtrlProofs -----------------------------
(***************************************************************************)
(* Proofs about the control path, for every set of pages and every         *)
(* compaction threshold.  IInv is inductive whatever the compaction switch *)
(* does; SwitchInv, which keeps lookups from getting lost, needs the       *)
(* switch to stay where it is.                                             *)
(***************************************************************************)
EXTENDS HawkCtrlInv, TLAPS

InRead == cu \in {"RD_LKP_REQ", "RD_LOOKUP_ALLOCATE"}
InWrite == cu \in {"WR_LKP_REQ", "WR_LOOKUP_ALLOCATE"}
InAllocate == cu \in {"RD_LOOKUP_ALLOCATE", "WR_LOOKUP_ALLOCATE"}

(* A channel s with its grant o; mine says that the control unit serves it.*)
(* A waiting channel has no translated address left to send and keeps the  *)
(* page the CPU asked for; a permission it holds, or is about to receive,  *)
(* comes with the way looked up for that page.                             *)
ChannelInv(s, o, mine) ==
  /\ s.s_ready => ~ s.m_valid
  /\ s.p_state = "WAIT" =>
       ~ s.m_valid /\ s.addr = [kind |-> "hppa", page |-> s.want]
  /\ s.m_valid => s.addr = [kind |-> "ppa", page |-> s.want]
  /\ o.allow_access => /\ s.p_state = "WAIT" /\ ~ s.allow_cpu_access
                       /\ o.ppa = s.want /\ ~ mine
  /\ s.p_state = "WAIT" /\ s.allow_cpu_access => o.ppa = s.want /\ ~ mine
  /\ mine => s.p_state = "WAIT" /\ lkup.hppa = s.want

(* The page read manager works on, or answers, the page being looked up.   *)
AnswerInv ==
  /\ lkup.lookup => /\ InAllocate /\ prm \in {"IDLE", "COMPACT"}
                    /\ ~ trnsl.allow_access
  /\ prm = "BUSY" => /\ InAllocate /\ attEntryId = lkup.hppa
                     /\ ~ lkup.lookup /\ ~ trnsl.allow_access
  /\ trnsl.allow_access => /\ InAllocate /\ trnsl.ppa = lkup.hppa
                           /\ prm = "IDLE"

IInv == /\ TypeOK
        /\ ChannelInv(rd, ovrd_rd, InRead)
        /\ ChannelInv(wr, ovrd_wr, InWrite)
        /\ AnswerInv

(* An idle page read manager that has just answered nothing is not about   *)
(* to start a compaction.                                                  *)
SwitchInv ==
  /\ LookupKept
  /\ prm = "IDLE" /\ ~ trnsl.allow_access /\ compaction_sw => ~ compact_req

-----------------------------------------------------------------------------
(* Types.                                                                  *)

(* A channel's cycle keeps its registers in their type, given a grant of   *)
(* the right type.                                                         *)
LEMMA ReadTypes ==
  ASSUME rd \in Rd!Stall, ovrd_rd \in Rd!Ovrd,
         NEW m_ready \in BOOLEAN, Rd!Cycle(m_ready)
  PROVE  rd' \in Rd!Stall
<1> USE DEF Rd!Stall, Rd!Addr, Rd!Ovrd, Rd!Drained
<1>1. ASSUME NEW p \in Pages, Rd!Accept(p, m_ready)
      PROVE  rd' \in Rd!Stall
  BY <1>1 DEF Rd!Accept
<1>2. CASE Rd!Idle(m_ready)
  BY <1>2 DEF Rd!Idle
<1>3. CASE Rd!Wait(m_ready)
  BY <1>3 DEF Rd!Wait
<1>4. CASE Rd!Proceed
  BY <1>4 DEF Rd!Proceed
<1> QED BY <1>1, <1>2, <1>3, <1>4 DEF Rd!Cycle

LEMMA WriteTypes ==
  ASSUME wr \in Wr!Stall, ovrd_wr \in Wr!Ovrd,
         NEW m_ready \in BOOLEAN, Wr!Cycle(m_ready)
  PROVE  wr' \in Wr!Stall
<1> USE DEF Wr!Stall, Wr!Addr, Wr!Ovrd, Wr!Drained
<1>1. ASSUME NEW p \in Pages, Wr!Accept(p, m_ready)
      PROVE  wr' \in Wr!Stall
  BY <1>1 DEF Wr!Accept
<1>2. CASE Wr!Idle(m_ready)
  BY <1>2 DEF Wr!Idle
<1>3. CASE Wr!Wait(m_ready)
  BY <1>3 DEF Wr!Wait
<1>4. CASE Wr!Proceed
  BY <1>4 DEF Wr!Proceed
<1> QED BY <1>1, <1>2, <1>3, <1>4 DEF Wr!Cycle

CuTypes == /\ ovrd_rd \in Rd!Ovrd /\ ovrd_wr \in Wr!Ovrd
           /\ cu \in {"IDLE", "CHK_RD_ACTIVE", "CHK_WR_ACTIVE", "RD_LKP_REQ",
                      "WR_LKP_REQ", "RD_LOOKUP_ALLOCATE",
                      "WR_LOOKUP_ALLOCATE", "HAWK_CMD"}
           /\ lkup \in Lkup

(* The control unit's cycle keeps its registers in their types.            *)
LEMMA CuCycleTypes ==
  ASSUME TypeOK, CuCycle
  PROVE  CuTypes'
<1> USE DEF TypeOK, CuTypes, Rd!Ovrd, Wr!Ovrd, Lkup, LookupLow, GrantsLow
<1>1. CASE CuIdle \/ CuCheckNone \/ CuLkpReqWait \/ CuAllocateWait \/ CuHawkCmd
  BY <1>1 DEF CuIdle, CuCheckNone, CuLkpReqWait, CuAllocateWait, CuHawkCmd
<1>2. CASE CuCheckRead
  BY <1>2 DEF CuCheckRead, Rd!Stall, Rd!Addr
<1>3. CASE CuCheckWrite
  BY <1>3 DEF CuCheckWrite, Wr!Stall, Wr!Addr
<1>4. CASE CuLkpReq
  BY <1>4 DEF CuLkpReq
<1>5. CASE CuGrantRead \/ CuGrantWrite
  BY <1>5 DEF CuGrantRead, CuGrantWrite
<1> QED BY <1>1, <1>2, <1>3, <1>4, <1>5 DEF CuCycle

PrmTypes == /\ prm \in {"IDLE", "BUSY", "COMPACT"}
            /\ attEntryId \in Pages \cup {NoPage}
            /\ trnsl \in Rd!Ovrd
            /\ freepage_count \in 0 .. FREE_CPAGE_COMPACT_THRSHLD

(* The page read manager's cycle keeps its registers in their types.       *)
LEMMA PrmCycleTypes ==
  ASSUME TypeOK, PrmCycle
  PROVE  PrmTypes'
<1>1. AllowLow => trnsl' \in Rd!Ovrd
  BY DEF TypeOK, AllowLow, Rd!Ovrd
<1>2. FREE_CPAGE_COMPACT_THRSHLD \in Nat /\ freepage_count \in Nat
      /\ freepage_count <= FREE_CPAGE_COMPACT_THRSHLD
  BY ThresholdAssumption DEF TypeOK
<1>3. CASE PrmIdle
  BY <1>1, <1>3 DEF PrmIdle, TypeOK, PrmTypes, Lkup
<1>4. CASE PrmWork
  BY <1>1, <1>4 DEF PrmWork, TypeOK, PrmTypes
<1>5. CASE PrmAnswer
  <2>1. trnsl' \in Rd!Ovrd
    BY <1>5 DEF PrmAnswer, TypeOK, Rd!Ovrd
  <2>2. freepage_count' \in 0 .. FREE_CPAGE_COMPACT_THRSHLD
    BY <1>2, <1>5 DEF PrmAnswer, compact_req
  <2> QED BY <1>5, <2>1, <2>2 DEF PrmAnswer, TypeOK, PrmTypes
<1>6. CASE PrmCompactDone
  BY <1>1, <1>2, <1>6 DEF PrmCompactDone, TypeOK, PrmTypes
<1> QED BY <1>3, <1>4, <1>5, <1>6 DEF PrmCycle, PrmEnds

LEMMA TypeStep == TypeOK /\ Next => TypeOK'
<1> SUFFICES ASSUME TypeOK, Next PROVE TypeOK' OBVIOUS
<1>1. rd' \in Rd!Stall
  BY ReadTypes DEF TypeOK, Next
<1>2. wr' \in Wr!Stall
  BY WriteTypes DEF TypeOK, Next
<1>3. CuTypes'
  BY CuCycleTypes DEF Next
<1>4. PrmTypes'
  BY PrmCycleTypes DEF Next
<1>5. init_list_done' \in BOOLEAN
  BY DEF TypeOK, Next, InitCycle
<1>6. compaction_sw' \in BOOLEAN
  BY DEF TypeOK, Next, SwitchCycle
<1>7. cmd' \in {"NONE", "PENDING", "ACTIVE"}
  BY DEF TypeOK, Next, Cmd!CmdCycle, Cmd!CmdEnds
<1> QED BY <1>1, <1>2, <1>3, <1>4, <1>5, <1>6, <1>7
        DEF TypeOK, CuTypes, PrmTypes

LEMMA TypeInit == Init => TypeOK
<1> SUFFICES ASSUME Init PROVE TypeOK OBVIOUS
<1>1. rd \in Rd!Stall
  BY DEF Init, Rd!Reset, Rd!NoAddr, Rd!Stall, Rd!Addr
<1>2. wr \in Wr!Stall
  BY DEF Init, Wr!Reset, Wr!NoAddr, Wr!Stall, Wr!Addr
<1>3. ovrd_rd \in Rd!Ovrd /\ ovrd_wr \in Wr!Ovrd /\ trnsl \in Rd!Ovrd
  BY DEF Init, NoOvrd, Rd!Ovrd, Wr!Ovrd
<1>4. lkup \in Lkup
  BY DEF Init, Lkup
<1>5. freepage_count \in 0 .. FREE_CPAGE_COMPACT_THRSHLD
  BY ThresholdAssumption DEF Init
<1> QED BY <1>1, <1>2, <1>3, <1>4, <1>5, SwitchAssumption
        DEF Init, TypeOK, Cmd!CmdInit

(* The registers of the control path always hold values of their types.    *)
THEOREM TypeCorrect == Spec => []TypeOK
<1>1. TypeOK /\ UNCHANGED vars => TypeOK'
  BY DEF TypeOK, vars, cuVars, prmVars
<1> QED BY TypeInit, TypeStep, <1>1, PTL DEF Spec

-----------------------------------------------------------------------------
(* The channels and the lookup.                                            *)

(* A cycle of the control unit, seen from the read channel: it grants the   *)
(* access, or begins to serve it, or leaves it as it is.                   *)
ReadGranted == /\ trnsl.allow_access /\ InRead /\ ~ InRead'
               /\ ovrd_rd' = [allow_access |-> TRUE, ppa |-> trnsl.ppa]
ReadBegun == /\ Rd!valid /\ InRead' /\ lkup'.hppa = rd.addr.page
             /\ ~ ovrd_rd'.allow_access /\ ovrd_rd'.ppa = ovrd_rd.ppa
ReadKept == /\ InRead' = InRead /\ (InRead => lkup'.hppa = lkup.hppa)
            /\ ~ ovrd_rd'.allow_access /\ ovrd_rd'.ppa = ovrd_rd.ppa

LEMMA ReadSide ==
  ASSUME TypeOK, CuCycle
  PROVE  ReadGranted \/ ReadBegun \/ ReadKept
<1>1. /\ GrantsLow => /\ ~ ovrd_rd'.allow_access
                     /\ ovrd_rd'.ppa = ovrd_rd.ppa
      /\ LookupLow => lkup'.hppa = lkup.hppa
  BY DEF TypeOK, GrantsLow, LookupLow, Lkup, Rd!Ovrd, Wr!Ovrd
<1>2. CASE CuIdle \/ CuCheckNone \/ CuLkpReqWait \/ CuAllocateWait \/ CuHawkCmd
  BY <1>1, <1>2 DEF CuIdle, CuCheckNone, CuLkpReqWait, CuAllocateWait,
                    CuHawkCmd, ReadKept, InRead
<1>3. CASE CuCheckRead
  BY <1>1, <1>3 DEF CuCheckRead, ReadBegun, ReadKept, InRead
<1>4. CASE CuCheckWrite
  BY <1>1, <1>4 DEF CuCheckWrite, ReadBegun, ReadKept, InRead
<1>5. CASE CuLkpReq
  <2>1. lkup'.hppa = lkup.hppa
    BY <1>5 DEF CuLkpReq, TypeOK, Lkup
  <2> QED BY <1>1, <1>5, <2>1 DEF CuLkpReq, ReadKept, InRead
<1>6. CASE CuGrantRead
  BY <1>1, <1>6 DEF CuGrantRead, ReadGranted, ReadKept, InRead, TypeOK,
                    Rd!Ovrd, Wr!Ovrd
<1>7. CASE CuGrantWrite
  BY <1>1, <1>7 DEF CuGrantWrite, ReadGranted, ReadKept, InRead, TypeOK,
                    Rd!Ovrd, Wr!Ovrd
<1> QED BY <1>2, <1>3, <1>4, <1>5, <1>6, <1>7 DEF CuCycle

LEMMA ReadChannelStep ==
  ASSUME IInv, Next
  PROVE  ChannelInv(rd, ovrd_rd, InRead)'
<1> USE DEF ChannelInv, Rd!Drained
<1>1. /\ rd \in Rd!Stall /\ ovrd_rd \in Rd!Ovrd
      /\ ChannelInv(rd, ovrd_rd, InRead)
  BY DEF IInv, TypeOK
<1>2. ReadGranted \/ ReadBegun \/ ReadKept
  BY ReadSide DEF IInv, Next
<1>3. ReadGranted => trnsl.ppa = rd.want
  BY <1>1 DEF ReadGranted, IInv, AnswerInv
<1>4. PICK m_ready \in BOOLEAN : Rd!Cycle(m_ready)
  BY DEF Next
<1> USE DEF Rd!Stall, Rd!Ovrd, Rd!Addr, Rd!valid,
            ReadGranted, ReadBegun, ReadKept
<1>5. ASSUME NEW p \in Pages, Rd!Accept(p, m_ready)
      PROVE  ChannelInv(rd, ovrd_rd, InRead)'
  BY <1>1, <1>2, <1>5 DEF Rd!Accept
<1>6. CASE Rd!Idle(m_ready)
  BY <1>1, <1>2, <1>6 DEF Rd!Idle
<1>7. CASE Rd!Wait(m_ready)
  BY <1>1, <1>2, <1>3, <1>7 DEF Rd!Wait
<1>8. CASE Rd!Proceed
  BY <1>1, <1>2, <1>8 DEF Rd!Proceed
<1> QED BY <1>4, <1>5, <1>6, <1>7, <1>8 DEF Rd!Cycle

(* A cycle of the control unit, seen from the write channel: it grants the   *)
(* access, or begins to serve it, or leaves it as it is.                   *)
WriteGranted == /\ trnsl.allow_access /\ InWrite /\ ~ InWrite'
               /\ ovrd_wr' = [allow_access |-> TRUE, ppa |-> trnsl.ppa]
WriteBegun == /\ Wr!valid /\ InWrite' /\ lkup'.hppa = wr.addr.page
             /\ ~ ovrd_wr'.allow_access /\ ovrd_wr'.ppa = ovrd_wr.ppa
WriteKept == /\ InWrite' = InWrite /\ (InWrite => lkup'.hppa = lkup.hppa)
            /\ ~ ovrd_wr'.allow_access /\ ovrd_wr'.ppa = ovrd_wr.ppa

LEMMA WriteSide ==
  ASSUME TypeOK, CuCycle
  PROVE  WriteGranted \/ WriteBegun \/ WriteKept
<1>1. /\ GrantsLow => /\ ~ ovrd_wr'.allow_access
                     /\ ovrd_wr'.ppa = ovrd_wr.ppa
      /\ LookupLow => lkup'.hppa = lkup.hppa
  BY DEF TypeOK, GrantsLow, LookupLow, Lkup, Rd!Ovrd, Wr!Ovrd
<1>2. CASE CuIdle \/ CuCheckNone \/ CuLkpReqWait \/ CuAllocateWait \/ CuHawkCmd
  BY <1>1, <1>2 DEF CuIdle, CuCheckNone, CuLkpReqWait, CuAllocateWait,
                    CuHawkCmd, WriteKept, InWrite
<1>3. CASE CuCheckRead
  BY <1>1, <1>3 DEF CuCheckRead, WriteBegun, WriteKept, InWrite
<1>4. CASE CuCheckWrite
  BY <1>1, <1>4 DEF CuCheckWrite, WriteBegun, WriteKept, InWrite
<1>5. CASE CuLkpReq
  <2>1. lkup'.hppa = lkup.hppa
    BY <1>5 DEF CuLkpReq, TypeOK, Lkup
  <2> QED BY <1>1, <1>5, <2>1 DEF CuLkpReq, WriteKept, InWrite
<1>6. CASE CuGrantRead
  BY <1>1, <1>6 DEF CuGrantRead, WriteGranted, WriteKept, InWrite, TypeOK,
                    Rd!Ovrd, Wr!Ovrd
<1>7. CASE CuGrantWrite
  BY <1>1, <1>7 DEF CuGrantWrite, WriteGranted, WriteKept, InWrite, TypeOK,
                    Rd!Ovrd, Wr!Ovrd
<1> QED BY <1>2, <1>3, <1>4, <1>5, <1>6, <1>7 DEF CuCycle

LEMMA WriteChannelStep ==
  ASSUME IInv, Next
  PROVE  ChannelInv(wr, ovrd_wr, InWrite)'
<1> USE DEF ChannelInv, Wr!Drained
<1>1. /\ wr \in Wr!Stall /\ ovrd_wr \in Wr!Ovrd
      /\ ChannelInv(wr, ovrd_wr, InWrite)
  BY DEF IInv, TypeOK
<1>2. WriteGranted \/ WriteBegun \/ WriteKept
  BY WriteSide DEF IInv, Next
<1>3. WriteGranted => trnsl.ppa = wr.want
  BY <1>1 DEF WriteGranted, IInv, AnswerInv
<1>4. PICK m_ready \in BOOLEAN : Wr!Cycle(m_ready)
  BY DEF Next
<1> USE DEF Wr!Stall, Wr!Ovrd, Wr!Addr, Wr!valid,
            WriteGranted, WriteBegun, WriteKept
<1>5. ASSUME NEW p \in Pages, Wr!Accept(p, m_ready)
      PROVE  ChannelInv(wr, ovrd_wr, InWrite)'
  BY <1>1, <1>2, <1>5 DEF Wr!Accept
<1>6. CASE Wr!Idle(m_ready)
  BY <1>1, <1>2, <1>6 DEF Wr!Idle
<1>7. CASE Wr!Wait(m_ready)
  BY <1>1, <1>2, <1>3, <1>7 DEF Wr!Wait
<1>8. CASE Wr!Proceed
  BY <1>1, <1>2, <1>8 DEF Wr!Proceed
<1> QED BY <1>4, <1>5, <1>6, <1>7, <1>8 DEF Wr!Cycle

(* A lookup is raised only towards an idle page read manager, and its page *)
(* stays put until the answer has come.                                    *)
LookupRaised == lkup'.lookup => /\ cu \in {"RD_LKP_REQ", "WR_LKP_REQ"}
                                /\ prm = "IDLE"
AllocateKept == InAllocate /\ ~ trnsl.allow_access =>
                  InAllocate' /\ lkup'.hppa = lkup.hppa
AllocateEntered == InAllocate' /\ ~ InAllocate => lkup'.lookup
AllocateLeft == InAllocate /\ trnsl.allow_access => ~ InAllocate'

LEMMA LookupSide ==
  ASSUME TypeOK, CuCycle
  PROVE  /\ LookupRaised /\ AllocateKept /\ AllocateEntered /\ AllocateLeft
         /\ lkup'.lookup => InAllocate'
<1> USE DEF LookupRaised, AllocateKept, AllocateEntered, AllocateLeft,
            InAllocate
<1>1. LookupLow => ~ lkup'.lookup /\ lkup'.hppa = lkup.hppa
  BY DEF TypeOK, LookupLow, Lkup
<1>2. CASE CuIdle \/ CuCheckNone \/ CuLkpReqWait \/ CuAllocateWait \/ CuHawkCmd
  BY <1>1, <1>2 DEF CuIdle, CuCheckNone, CuLkpReqWait, CuAllocateWait, CuHawkCmd
<1>3. CASE CuCheckRead \/ CuCheckWrite
  BY <1>3 DEF CuCheckRead, CuCheckWrite
<1>4. CASE CuLkpReq
  BY <1>4 DEF CuLkpReq, pgrd_mngr_ready
<1>5. CASE CuGrantRead \/ CuGrantWrite
  BY <1>1, <1>5 DEF CuGrantRead, CuGrantWrite
<1> QED BY <1>2, <1>3, <1>4, <1>5 DEF CuCycle

LEMMA AnswerStep ==
  ASSUME IInv, Next
  PROVE  AnswerInv'
<1> USE DEF AnswerInv
<1>1. TypeOK /\ AnswerInv
  BY DEF IInv
<1>2. /\ LookupRaised /\ AllocateKept /\ AllocateEntered
      /\ lkup'.lookup => InAllocate'
  BY <1>1, LookupSide DEF Next
<1>3. AllowLow => ~ trnsl'.allow_access
  BY <1>1 DEF TypeOK, AllowLow, Rd!Ovrd
<1> USE DEF LookupRaised, AllocateKept, InAllocate
<1>4. CASE PrmIdle
  BY <1>1, <1>2, <1>3, <1>4 DEF PrmIdle
<1>5. CASE PrmWork
  BY <1>1, <1>2, <1>3, <1>5 DEF PrmWork
<1>6. CASE PrmAnswer
  BY <1>1, <1>2, <1>6 DEF PrmAnswer
<1>7. CASE PrmCompactDone
  BY <1>1, <1>2, <1>3, <1>7 DEF PrmCompactDone
<1> QED BY <1>4, <1>5, <1>6, <1>7 DEF Next, PrmCycle, PrmEnds

LEMMA IInvInit == Init => IInv
<1> SUFFICES ASSUME Init PROVE IInv OBVIOUS
<1>1. ChannelInv(rd, ovrd_rd, InRead) /\ ChannelInv(wr, ovrd_wr, InWrite)
  BY DEF Init, ChannelInv, InRead, InWrite, NoOvrd, Rd!Reset, Wr!Reset
<1>2. AnswerInv
  BY DEF Init, AnswerInv
<1> QED BY <1>1, <1>2, TypeInit DEF IInv

LEMMA IInvStep == IInv /\ [Next]_vars => IInv'
<1>1. ASSUME IInv, Next PROVE IInv'
  BY <1>1, TypeStep, ReadChannelStep, WriteChannelStep, AnswerStep DEF IInv
<1>2. ASSUME IInv, UNCHANGED vars PROVE IInv'
  BY <1>2 DEF IInv, TypeOK, ChannelInv, InRead, InWrite, AnswerInv, InAllocate,
              vars, cuVars, prmVars
<1> QED BY <1>1, <1>2

LEMMA Inductive == Spec => []IInv
  BY IInvInit, IInvStep, PTL DEF Spec

(* The two channels share one lookup packet and one answer; all the same,  *)
(* an address goes to memory only with the way of the page asked for on    *)
(* its own channel (hawk_ctrl_unit.sv, hawk_cpu_stall_rd.sv and _wr.sv).   *)
THEOREM TranslationsAreOwn == Spec => []OwnTranslation
<1>1. IInv => OwnTranslation
  BY DEF IInv, ChannelInv, OwnTranslation
<1> QED BY Inductive, <1>1, PTL

(* A permission only ever reaches a channel that waits for it and holds    *)
(* none, so none is left over for the next access.                         *)
THEOREM GrantsAreAwaited == Spec => []GrantAwaited
<1>1. IInv => GrantAwaited
  BY DEF IInv, ChannelInv, GrantAwaited
<1> QED BY Inductive, <1>1, PTL

(* An address offered to the memory is stable until the memory takes it.   *)
THEOREM AddressesAreStable == Spec => AddressStable
<1> DEFINE Stable == /\ rd.m_valid /\ rd'.m_valid => rd'.addr = rd.addr
                     /\ wr.m_valid /\ wr'.m_valid => wr'.addr = wr.addr
<1>1. IInv /\ [Next]_vars => [Stable]_vars
  <2> SUFFICES ASSUME IInv, Next PROVE Stable OBVIOUS
  <2> USE DEF IInv, TypeOK, ChannelInv
  <2>1. rd.m_valid /\ rd'.m_valid => rd'.addr = rd.addr
    BY DEF Next, Rd!Cycle, Rd!Accept, Rd!Idle, Rd!Wait, Rd!Proceed,
           Rd!Drained, Rd!Stall
  <2>2. wr.m_valid /\ wr'.m_valid => wr'.addr = wr.addr
    BY DEF Next, Wr!Cycle, Wr!Accept, Wr!Idle, Wr!Wait, Wr!Proceed,
           Wr!Drained, Wr!Stall
  <2> QED BY <2>1, <2>2
<1> QED BY Inductive, <1>1, PTL DEF Spec, AddressStable

-----------------------------------------------------------------------------
(* No lookup is lost while the compaction switch stays where it is.        *)

LEMMA SwitchStep ==
  ASSUME SwitchMoves = FALSE, IInv, SwitchInv, Next
  PROVE  SwitchInv'
<1>1. TypeOK /\ AnswerInv /\ LookupKept
  BY DEF IInv, SwitchInv
<1>2. compaction_sw' = compaction_sw
  BY <1>1 DEF Next, SwitchCycle, TypeOK
<1>3. /\ LookupRaised /\ AllocateKept /\ AllocateEntered /\ AllocateLeft
      /\ lkup'.lookup => InAllocate'
  BY <1>1, LookupSide DEF Next
<1>4. trnsl' = [allow_access |-> TRUE, ppa |-> attEntryId] => trnsl'.allow_access
  OBVIOUS
<1> USE DEF LookupKept, AnswerInv, InAllocate
<1>5. LookupKept'
  <2>1. CASE PrmIdle
    <3>1. InAllocate' => lkup.lookup \/ ~ InAllocate
      BY <1>1, <1>3, <2>1 DEF PrmIdle, AllocateLeft
    <3>2. InAllocate' /\ ~ InAllocate => prm' = "IDLE" /\ lkup'.lookup
      BY <1>1, <1>3, <2>1 DEF SwitchInv, PrmIdle, AllocateEntered
    <3> QED BY <2>1, <3>1, <3>2 DEF PrmIdle
  <2>2. CASE PrmWork
    BY <1>1, <1>3, <2>2 DEF PrmWork, LookupRaised, AllocateKept, AllocateEntered
  <2>3. CASE PrmAnswer
    BY <1>4, <2>3 DEF PrmAnswer
  <2>4. CASE PrmCompactDone
    BY <1>1, <1>3, <2>4 DEF PrmCompactDone, LookupRaised, AllocateKept,
                            AllocateEntered
  <2> QED BY <2>1, <2>2, <2>3, <2>4 DEF Next, PrmCycle, PrmEnds
<1>6. (prm = "IDLE" /\ ~ trnsl.allow_access /\ compaction_sw => ~ compact_req)'
  <2>1. CASE PrmIdle
    <3>1. \/ ~ lkup.lookup /\ ~ (compact_req /\ compaction_sw)
          \/ prm' # "IDLE"
      BY <2>1 DEF PrmIdle
    <3> QED BY <1>2, <2>1, <3>1 DEF PrmIdle, compact_req
  <2>2. CASE PrmWork
    BY <2>2 DEF PrmWork
  <2>3. CASE PrmAnswer
    BY <1>4, <2>3 DEF PrmAnswer
  <2>4. CASE PrmCompactDone
    BY <2>4, ThresholdAssumption DEF PrmCompactDone, compact_req
  <2> QED BY <2>1, <2>2, <2>3, <2>4 DEF Next, PrmCycle, PrmEnds
<1> QED BY <1>5, <1>6 DEF SwitchInv

(* With hawk_sw_ctrl[1] fixed, the lookup the control unit pulses for one  *)
(* cycle always finds the page read manager still idle                     *)
(* (hawk_ctrl_unit.sv against hawk_pgrd_mngr.sv).                          *)
THEOREM LookupsAreKept == SwitchMoves = FALSE /\ Spec => []LookupKept
<1> SUFFICES ASSUME SwitchMoves = FALSE PROVE Spec => []LookupKept OBVIOUS
<1>1. Init => SwitchInv
  BY ThresholdAssumption DEF Init, SwitchInv, LookupKept, compact_req
<1>2. IInv /\ SwitchInv /\ [Next]_vars => SwitchInv'
  <2>1. CASE Next
    BY <2>1, SwitchStep
  <2>2. CASE UNCHANGED vars
    BY <2>2 DEF SwitchInv, LookupKept, compact_req, vars, cuVars, prmVars
  <2> QED BY <2>1, <2>2
<1>3. SwitchInv => LookupKept
  BY DEF SwitchInv
<1> QED BY Inductive, <1>1, <1>2, <1>3, PTL DEF Spec

=============================================================================
