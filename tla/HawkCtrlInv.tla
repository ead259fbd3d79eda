------------------------------- MODULE HawkCtrlInv -------------------------------
(***************************************************************************)
(* What the control unit and the stalled channels promise the CPU: every   *)
(* access is answered once, with the translation of its own page, and is   *)
(* answered at all.                                                        *)
(***************************************************************************)
EXTENDS HawkCtrl

(* Type invariant of the control path's registers.                         *)
TypeOK ==
  /\ rd \in Rd!Stall /\ wr \in Wr!Stall
  /\ ovrd_rd \in Rd!Ovrd /\ ovrd_wr \in Wr!Ovrd
  /\ cu \in {"IDLE", "CHK_RD_ACTIVE", "CHK_WR_ACTIVE", "RD_LKP_REQ",
             "WR_LKP_REQ", "RD_LOOKUP_ALLOCATE", "WR_LOOKUP_ALLOCATE",
             "HAWK_CMD"}
  /\ lkup \in Lkup
  /\ init_list_done \in BOOLEAN
  /\ prm \in {"IDLE", "BUSY", "COMPACT"}
  /\ attEntryId \in Pages \cup {NoPage}
  /\ trnsl \in Rd!Ovrd
  /\ freepage_count \in 0 .. FREE_CPAGE_COMPACT_THRSHLD
  /\ compaction_sw \in BOOLEAN
  /\ cmd \in {"NONE", "PENDING", "ACTIVE"}

(* An address leaves towards memory only translated, and only with the way *)
(* that was looked up for the page the CPU asked for on that channel: the  *)
(* two channels share the lookup packet and the answer and may be served   *)
(* back to back.                                                           *)
OwnTranslation ==
  /\ rd.m_valid => rd.addr = [kind |-> "ppa", page |-> rd.want]
  /\ wr.m_valid => wr.addr = [kind |-> "ppa", page |-> wr.want]

(* A grant arrives at a channel that is waiting for one and was not given  *)
(* one before, so that no permission is left over for the next access.     *)
GrantAwaited ==
  /\ ovrd_rd.allow_access => rd.p_state = "WAIT" /\ ~ rd.allow_cpu_access
  /\ ovrd_wr.allow_access => wr.p_state = "WAIT" /\ ~ wr.allow_cpu_access

(* A lookup the control unit waits for is never lost: it is on its way to  *)
(* an idle page read manager, being worked on, or answered.                *)
LookupKept ==
  cu \in {"RD_LOOKUP_ALLOCATE", "WR_LOOKUP_ALLOCATE"} =>
    \/ lkup.lookup /\ prm = "IDLE"
    \/ prm = "BUSY"
    \/ trnsl.allow_access

(* An address waiting for the memory stays as it is until it is taken: no  *)
(* later access of the CPU is accepted over it.                            *)
AddressStable ==
  [][/\ rd.m_valid /\ rd'.m_valid => rd'.addr = rd.addr
     /\ wr.m_valid /\ wr'.m_valid => wr'.addr = wr.addr]_vars

(* Every access the CPU starts, on either channel, goes on to memory,      *)
(* whatever the other channel and the commands do.                         *)
AccessServed == /\ (rd.p_state = "WAIT") ~> rd.m_valid
                /\ (wr.p_state = "WAIT") ~> wr.m_valid
=============================================================================
