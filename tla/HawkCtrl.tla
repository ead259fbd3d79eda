-------------------------------- MODULE HawkCtrl --------------------------------
(***************************************************************************)
(* The control unit (hawk_ctrl_unit.sv) between the two stalled CPU        *)
(* channels and the page read manager, clock cycle by clock cycle: all     *)
(* components step together, each from the registers of the last cycle.    *)
(* The page read manager is reduced to what the control unit sees of it:   *)
(* idle, busy with one lookup for any number of cycles, or compacting.     *)
(* The configuration registers are reduced to their handshake, HawkCmd.    *)
(***************************************************************************)
EXTENDS Naturals

CONSTANTS
  Pages, NoPage,
  FREE_CPAGE_COMPACT_THRSHLD,  \* decompressions between two compactions
  CompactionOn,   \* hawk_sw_ctrl[1] at power up
  SwitchMoves     \* may hawk_sw_ctrl[1] be moved while HAWK runs?

ASSUME CtrlPagesAssumption == NoPage \notin Pages
ASSUME ThresholdAssumption == FREE_CPAGE_COMPACT_THRSHLD \in Nat \ {0}
ASSUME SwitchAssumption == CompactionOn \in BOOLEAN /\ SwitchMoves \in BOOLEAN

VARIABLES
  rd, wr,             \* the stalled channels
  ovrd_rd, ovrd_wr,   \* hawk_cpu_ovrd_rdpkt, hawk_cpu_ovrd_wrpkt
  cu,                 \* control unit: p_state
  lkup,               \*   lkup_reqpkt
  init_list_done,     \* from the page write manager
  prm,                \* page read manager: p_state, abstracted
  attEntryId,         \*   p_attEntryId: the page being looked up
  trnsl,              \*   trnsl_reqpkt
  freepage_count,     \* zspage compacter: decompressions since the last run
  compaction_sw,      \* hawk_sw_ctrl[1]
  cmd                 \* command in the configuration registers

cuVars == <<cu, lkup, ovrd_rd, ovrd_wr>>
prmVars == <<prm, attEntryId, trnsl, freepage_count>>
vars == <<rd, wr, cuVars, prmVars, init_list_done, compaction_sw, cmd>>

Rd == INSTANCE HawkCpuStall WITH stall <- rd, ovrd <- ovrd_rd
Wr == INSTANCE HawkCpuStall WITH stall <- wr, ovrd <- ovrd_wr
Cmd == INSTANCE HawkCmd

NoOvrd == [allow_access |-> FALSE, ppa |-> NoPage]
Lkup == [lookup : BOOLEAN, hppa : Pages \cup {NoPage}]

Init ==
  /\ rd = Rd!Reset /\ wr = Wr!Reset
  /\ ovrd_rd = NoOvrd /\ ovrd_wr = NoOvrd
  /\ cu = "IDLE"
  /\ lkup = [lookup |-> FALSE, hppa |-> NoPage]
  /\ init_list_done = FALSE
  /\ prm = "IDLE" /\ attEntryId = NoPage
  /\ trnsl = [allow_access |-> FALSE, ppa |-> NoPage]
  /\ freepage_count = 0
  /\ compaction_sw = CompactionOn
  /\ Cmd!CmdInit

-----------------------------------------------------------------------------
(* Control unit.                                                           *)

hawk_cmd_ready == Cmd!hawk_cmd_ready
(* Mutant: a compacting page read manager counts as ready.                 *)
MutPgrdMngrReady == prm # "BUSY"

pgrd_mngr_ready == prm = "IDLE"

(* The pulses of the last cycle end unless an action raises them again.    *)
LookupLow == lkup' = [lkup EXCEPT !.lookup = FALSE]
GrantsLow == /\ ovrd_rd' = [ovrd_rd EXCEPT !.allow_access = FALSE]
             /\ ovrd_wr' = [ovrd_wr EXCEPT !.allow_access = FALSE]

CuIdle ==
  /\ cu = "IDLE"
  /\ cu' = IF init_list_done THEN "CHK_RD_ACTIVE" ELSE "IDLE"
  /\ LookupLow /\ GrantsLow

(* A request is taken from the channel whose turn it is, else from the     *)
(* other one.                                                              *)
CuCheckRead ==
  /\ \/ cu = "CHK_RD_ACTIVE" /\ Rd!valid
     \/ cu = "CHK_WR_ACTIVE" /\ ~ Wr!valid /\ Rd!valid
  /\ cu' = "RD_LKP_REQ"
  /\ lkup' = [lookup |-> FALSE, hppa |-> rd.addr.page]
  /\ GrantsLow

CuCheckWrite ==
  /\ \/ cu = "CHK_WR_ACTIVE" /\ Wr!valid
     \/ cu = "CHK_RD_ACTIVE" /\ ~ Rd!valid /\ Wr!valid
  /\ cu' = "WR_LKP_REQ"
  /\ lkup' = [lookup |-> FALSE, hppa |-> wr.addr.page]
  /\ GrantsLow

CuCheckNone ==
  /\ cu \in {"CHK_RD_ACTIVE", "CHK_WR_ACTIVE"}
  /\ ~ Rd!valid /\ ~ Wr!valid
  /\ cu' = IF hawk_cmd_ready THEN "HAWK_CMD" ELSE cu
  /\ LookupLow /\ GrantsLow

(* lookup is high for one cycle only.                                      *)
CuLkpReq ==
  /\ \/ /\ cu = "RD_LKP_REQ" /\ pgrd_mngr_ready /\ ~ ovrd_rd.allow_access
        /\ cu' = "RD_LOOKUP_ALLOCATE"
     \/ /\ cu = "WR_LKP_REQ" /\ pgrd_mngr_ready /\ ~ ovrd_wr.allow_access
        /\ cu' = "WR_LOOKUP_ALLOCATE"
  /\ lkup' = [lkup EXCEPT !.lookup = TRUE]
  /\ GrantsLow

CuLkpReqWait ==
  /\ \/ cu = "RD_LKP_REQ" /\ ~ (pgrd_mngr_ready /\ ~ ovrd_rd.allow_access)
     \/ cu = "WR_LKP_REQ" /\ ~ (pgrd_mngr_ready /\ ~ ovrd_wr.allow_access)
  /\ cu' = cu
  /\ LookupLow /\ GrantsLow

CuGrantRead ==
  /\ cu = "RD_LOOKUP_ALLOCATE"
  /\ trnsl.allow_access
  /\ ovrd_rd' = [allow_access |-> TRUE, ppa |-> trnsl.ppa]
  /\ ovrd_wr' = [ovrd_wr EXCEPT !.allow_access = FALSE]
  /\ cu' = "CHK_WR_ACTIVE"
  /\ LookupLow
(* Mutant: the answer goes out on both channels' packets.                  *)
MutCuGrantWrite ==
  /\ cu = "WR_LOOKUP_ALLOCATE"
  /\ trnsl.allow_access
  /\ ovrd_wr' = [allow_access |-> TRUE, ppa |-> trnsl.ppa]
  /\ ovrd_rd' = ovrd_wr'
  /\ cu' = "CHK_RD_ACTIVE"
  /\ LookupLow

CuGrantWrite ==
  /\ cu = "WR_LOOKUP_ALLOCATE"
  /\ trnsl.allow_access
  /\ ovrd_wr' = [allow_access |-> TRUE, ppa |-> trnsl.ppa]
  /\ ovrd_rd' = [ovrd_rd EXCEPT !.allow_access = FALSE]
  /\ cu' = "CHK_RD_ACTIVE"
  /\ LookupLow

CuAllocateWait ==
  /\ cu \in {"RD_LOOKUP_ALLOCATE", "WR_LOOKUP_ALLOCATE"}
  /\ ~ trnsl.allow_access
  /\ cu' = cu
  /\ LookupLow /\ GrantsLow
(* Mutant: the end of the command is not noticed.                          *)
MutCuHawkCmd ==
  /\ cu = "HAWK_CMD"
  /\ cu' = "HAWK_CMD"
  /\ LookupLow /\ GrantsLow

CuHawkCmd ==
  /\ cu = "HAWK_CMD"
  /\ cu' = IF hawk_cmd_ready THEN "HAWK_CMD" ELSE "CHK_RD_ACTIVE"
  /\ LookupLow /\ GrantsLow

CuCycle == \/ CuIdle \/ CuCheckRead \/ CuCheckWrite \/ CuCheckNone
           \/ CuLkpReq \/ CuLkpReqWait \/ CuGrantRead \/ CuGrantWrite
           \/ CuAllocateWait \/ CuHawkCmd

hawk_cmd_run ==
  /\ hawk_cmd_ready
  /\ \/ cu = "HAWK_CMD"
     \/ cu \in {"CHK_RD_ACTIVE", "CHK_WR_ACTIVE"} /\ ~ Rd!valid /\ ~ Wr!valid

-----------------------------------------------------------------------------
(* Mutant: a compaction is asked for one decompression too late.           *)
MutCompactReq == freepage_count > FREE_CPAGE_COMPACT_THRSHLD

(* Page read manager, as the control unit sees it.                         *)
compact_req == freepage_count >= FREE_CPAGE_COMPACT_THRSHLD
AllowLow == trnsl' = [trnsl EXCEPT !.allow_access = FALSE]

(* IDLE: a lookup goes before a compaction.                                *)
PrmIdle ==
  /\ prm = "IDLE"
  /\ \/ lkup.lookup /\ prm' = "BUSY" /\ attEntryId' = lkup.hppa
     \/ /\ ~ lkup.lookup /\ compact_req /\ compaction_sw
        /\ prm' = "COMPACT" /\ UNCHANGED attEntryId
     \/ /\ ~ lkup.lookup /\ ~ (compact_req /\ compaction_sw)
        /\ UNCHANGED <<prm, attEntryId>>
  /\ AllowLow
  /\ UNCHANGED freepage_count

PrmWork ==
  /\ prm \in {"BUSY", "COMPACT"}
  /\ AllowLow
  /\ UNCHANGED <<prm, attEntryId, freepage_count>>

(* The lookup ends, with a decompression or without one.  The count is     *)
(* capped at the threshold; its 16 bits are never reached here.            *)
PrmAnswer ==
  /\ prm = "BUSY"
  /\ prm' = "IDLE"
  /\ trnsl' = [allow_access |-> TRUE, ppa |-> attEntryId]
  /\ freepage_count' \in {freepage_count,
                          IF compact_req THEN freepage_count ELSE freepage_count + 1}
  /\ UNCHANGED attEntryId

PrmCompactDone ==
  /\ prm = "COMPACT"
  /\ prm' = "IDLE"
  /\ freepage_count' = 0
  /\ AllowLow
  /\ UNCHANGED attEntryId

PrmEnds == PrmAnswer \/ PrmCompactDone
PrmCycle == PrmIdle \/ PrmWork \/ PrmEnds

-----------------------------------------------------------------------------
(* What else changes in a cycle: initialisation ends, the switch is moved, *)
(* the CPU writes a command, and the registers finish one they were told   *)
(* to run.                                                                 *)
InitEnds == init_list_done' = TRUE
InitCycle == init_list_done' \in {init_list_done, TRUE}

SwitchCycle ==
  compaction_sw' \in IF SwitchMoves THEN BOOLEAN ELSE {compaction_sw}

Next ==
  /\ \E m_arready \in BOOLEAN : Rd!Cycle(m_arready)
  /\ \E m_awready \in BOOLEAN : Wr!Cycle(m_awready)
  /\ CuCycle
  /\ PrmCycle
  /\ Cmd!CmdCycle(hawk_cmd_run)
  /\ InitCycle
  /\ SwitchCycle

Spec == Init /\ [][Next]_vars

(* The clock ticks; initialisation, a lookup, a compaction and a command   *)
(* all come to an end.                                                     *)
Fairness == /\ WF_vars(Next)
            /\ WF_vars(Next /\ PrmEnds)
            /\ WF_vars(Next /\ Cmd!CmdEnds)
            /\ WF_vars(Next /\ InitEnds)

FairSpec == Spec /\ Fairness
=============================================================================
