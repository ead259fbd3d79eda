------------------------------ MODULE HawkCompact ------------------------------
(***************************************************************************)
(* The zspage compacter (hawk_zsp_compacter.sv, comp_decomp/migrator.sv)   *)
(* beside the paging engine: it moves the pages of the zspage at the tail  *)
(* of the irregular free list into the slots that are free in the zspage   *)
(* at its head and frees the way that has been drained.  It shares the     *)
(* page writer, the lists and the read FIFO with the other managers.       *)
(*                                                                         *)
(* As in HawkPager a step is one AXI transaction or one handshake, and a   *)
(* step that would use an address that is no way's is not modelled any     *)
(* further (LOST).                                                         *)
(***************************************************************************)
EXTENDS HawkPagerInv

CONSTANT FREE_CPAGE_COMPACT_THRSHLD  \* decompressions after which it starts

ASSUME CompactAssumption == FREE_CPAGE_COMPACT_THRSHLD \in Nat \ {0}

VARIABLES
  cst,            \* compacter: p_state
  cpt,            \*   p_zscpt_pkt
  src_entry,      \*   p_src_listEntry and its number
  dst_entry,      \*   p_dst_listEntry and its number
  compaction_sw,  \* hawk_sw_ctrl[1]: compaction is allowed
  freepage_count, \* decompressions since the last compaction, counted up to
                  \* FREE_CPAGE_COMPACT_THRSHLD only
  exact           \* history: has every compaction so far begun with ExactFit?

cptvars == <<cst, cpt, src_entry, dst_entry>>
cptcnt == <<compaction_sw, freepage_count, exact>>
cvars == <<vars, cptvars, cptcnt>>

(* zsPageCompactPkt_t: metadata and address of the two zspages, the page   *)
(* and its place in them, and the metadata handed to the writer (mig_pkt). *)
NoCpt == [src_md |-> NoMd, dst_md |-> NoMd, md |-> NoMd,
          src_way |-> NoWay, dst_way |-> NoWay, src |-> NoLoc, dst |-> NoLoc,
          page |-> NoPage, src_empty |-> TRUE, dst_full |-> TRUE]
NoEntry == [id |-> NULL, prev |-> NULL, next |-> NULL]
EntryAt(e) == [id |-> e, prev |-> lst[e].prev, next |-> lst[e].next]

ifl_head == ht.head["IFL_SIZE1"]
ifl_tail == ht.tail["IFL_SIZE1"]
Valid(md) == {s \in Slots : md.pg_vld[s]}

(* What a compaction should find: two zspages that together fill one, not  *)
(* under construction, whose metadata and ATT entries name each other, and *)
(* an empty free list; and POP_TAIL's write, which goes to the line of one *)
(* entry at the index of another, must land on one of the two.             *)
ExactFit ==
  LET both == {ifl_head, ifl_tail}
  IN  /\ ifl_head # ifl_tail /\ NULL \notin both
      /\ lst[ifl_head].next = ifl_tail /\ lst[ifl_tail].prev = ifl_head
      /\ Cardinality(Valid(mem[WayOf(ifl_head)].md))
           + Cardinality(Valid(mem[WayOf(ifl_tail)].md)) = MAX_PAGE_ZSPAGE
      /\ \A e \in both :
           /\ WayOf(e) # uc
           /\ \A s \in Valid(mem[WayOf(e)].md) :
                att[mem[WayOf(e)].md.page[s]]
                  = [sts |-> "COMP", loc |-> At(WayOf(e), s)]
      /\ ht.head["FREE"] = NULL
      /\ PopTailTarget([NoPkt EXCEPT !.prev = ifl_head, !.tolEntryId = ifl_tail])
           \in both

CInit == /\ Init
         /\ cst = "IDLE" /\ cpt = NoCpt
         /\ src_entry = NoEntry /\ dst_entry = NoEntry
         /\ compaction_sw = FALSE /\ freepage_count = 0
         /\ exact = TRUE

-----------------------------------------------------------------------------
(* getMigratePkt on the source: take its first valid page.  src_empty is   *)
(* about the metadata before the page is taken.                            *)
TakeSource(c) ==
  IF Valid(c.src_md) = {} THEN [c EXCEPT !.src_empty = TRUE]
  ELSE LET s == CHOOSE s \in Valid(c.src_md) : \A t \in Valid(c.src_md) : s <= t
       IN  [c EXCEPT !.src = At(c.src_way, s), !.page = c.src_md.page[s],
                     !.src_md.pg_vld[s] = FALSE, !.src_empty = FALSE]

(* getMigratePkt on the destination: claim its first free slot; the page   *)
(* that comes to it is not recorded.  A full destination keeps the slot    *)
(* that was claimed last.                                                  *)
PlaceDest(c) ==
  IF AllValid(c.dst_md) THEN [c EXCEPT !.dst_full = TRUE]
  ELSE LET s == FirstFree(c.dst_md)
       IN  [c EXCEPT !.dst = At(c.dst_way, s),
                     !.dst_md.pg_vld[s] = TRUE, !.dst_full = FALSE]

(* Around the compacter nothing but its own registers changes.             *)
reg_others == UNCHANGED <<vars, cptcnt>>

(* IDLE of the page read manager: compact_req, with the switch on.         *)
StartCompact ==
  /\ prm = "IDLE" /\ init_list_done
  /\ compaction_sw
  /\ freepage_count >= FREE_CPAGE_COMPACT_THRSHLD
  /\ prm' = "COMPACT"
  /\ exact' = (exact /\ ExactFit)
  /\ UNCHANGED <<tables, mem, writer, zpkt, req, trnsl, alloc, fw,
                 free_entry_avail, comp, fifo, dec, acc, cptvars, freepage_count,
                 compaction_sw>>

(* The compacter needs two zspages on the list.                            *)
CptIdle ==
  /\ prm = "COMPACT" /\ cst = "IDLE"
  /\ ifl_head # ifl_tail
  /\ cst' = "PEEK_IFL_TAIL"
  /\ cpt' = [cpt EXCEPT !.src_empty = TRUE, !.dst_full = TRUE]
  /\ UNCHANGED <<src_entry, dst_entry>> /\ reg_others

CptPeekTail ==
  /\ cst = "PEEK_IFL_TAIL"
  /\ IF ~ cpt.src_empty
     THEN /\ cpt' = TakeSource(cpt)
          /\ cst' = "PEEK_IFL_HEAD"
          /\ UNCHANGED src_entry
     ELSE IF ifl_tail # NULL
     THEN /\ src_entry' = EntryAt(ifl_tail)
          /\ cst' = "FETCH_SRC_PAGE"
          /\ UNCHANGED cpt
     ELSE cst' = "LOST" /\ UNCHANGED <<cpt, src_entry>>
  /\ UNCHANGED dst_entry /\ reg_others

CptFetchSrc ==
  /\ cst = "FETCH_SRC_PAGE"
  /\ LET m == mem[WayOf(src_entry.id)]
     IN  IF m.iway \in Ways
         THEN /\ cpt' = TakeSource([cpt EXCEPT !.src_md = m.md, !.src_way = m.iway])
              /\ cst' = "CHK_SRC_PAGE"
         ELSE cst' = "LOST" /\ UNCHANGED cpt
  /\ UNCHANGED <<src_entry, dst_entry>> /\ reg_others

CptPeekHead ==
  /\ cst = "PEEK_IFL_HEAD"
  /\ IF ~ cpt.dst_full
     THEN /\ cpt' = PlaceDest(cpt)
          /\ cst' = "BURST_READ"
          /\ UNCHANGED dst_entry
     ELSE IF ifl_head # NULL
     THEN /\ dst_entry' = EntryAt(ifl_head)
          /\ cst' = "FETCH_DST_PAGE"
          /\ UNCHANGED cpt
     ELSE cst' = "LOST" /\ UNCHANGED <<cpt, dst_entry>>
  /\ UNCHANGED src_entry /\ reg_others

CptFetchDst ==
  /\ cst = "FETCH_DST_PAGE"
  /\ LET m == mem[WayOf(dst_entry.id)]
     IN  IF m.iway \in Ways
         THEN /\ cpt' = PlaceDest([cpt EXCEPT !.dst_md = m.md, !.dst_way = m.iway])
              /\ cst' = "BURST_READ"
         ELSE cst' = "LOST" /\ UNCHANGED cpt
  /\ UNCHANGED <<src_entry, dst_entry>> /\ reg_others

(* RESET_FIFO_PTRS to MIGRATE_1: the 17 lines of the compressed page go    *)
(* through the read FIFO and the migrator.  Address 0 is no page's.        *)
CptBurstRead ==
  /\ cst = "BURST_READ"
  /\ fifo' = IF cpt.src.slot \in Slots THEN mem[cpt.src.way].slot[cpt.src.slot]
             ELSE NoPage
  /\ cst' = IF cpt.dst = NoLoc THEN "LOST" ELSE "MIGRATE_2"
  /\ UNCHANGED <<tables, mem, writer, zpkt, reader, comp, dec, acc,
                 cpt, src_entry, dst_entry, cptcnt>>

-----------------------------------------------------------------------------
(* The compacter and the page writer.                                      *)

cpt_idle_others == UNCHANGED <<zpkt, reader, comp, fifo, dec, acc,
                               src_entry, dst_entry, cptcnt>>

(* migrate or zspg_update takes the writer to ZSPG_COMPACT.                *)
StartZspg(c) ==
  /\ pwm = "IDLE"
  /\ pwm' = "ZSPG_COMPACT"
  /\ cpt' = c
  /\ UNCHANGED <<tables, mem, etry_cnt, upd, cst>> /\ cpt_idle_others

(* tbl_update_done or zspg_migrated.                                       *)
CptUpdateDone(st) ==
  /\ UpdateDone
  /\ cst' = st
  /\ UNCHANGED cpt /\ cpt_idle_others

(* ZSPG_MIGRATE: the page goes to its slot.  At the start of a way it lies *)
(* over the metadata and most of the first slot.                           *)
PwmZspgMigrate ==
  /\ pwm = "ZSPG_COMPACT" /\ cst = "MIGRATE_2"
  /\ mem' = [mem EXCEPT ![cpt.dst.way] =
               IF cpt.dst.slot \in Slots
               THEN [@ EXCEPT !.page = NoPage, !.slot[cpt.dst.slot] = fifo]
               ELSE [@ EXCEPT !.page = NoPage, !.slot[1] = NoPage,
                              !.iway = NoWay, !.md = NoMd]]
  /\ pwm' = "WAIT_BRESP"
  /\ UNCHANGED <<tables, etry_cnt, upd, cst, cpt>> /\ cpt_idle_others

(* ZSPG_MIGRATE_MD_UPDATE: a zspage's metadata is written back.            *)
PwmZspgMdUpdate ==
  /\ pwm = "ZSPG_COMPACT" /\ cst # "MIGRATE_2"
  /\ mem' = [mem EXCEPT ![cpt.dst.way] =
               [page |-> NoPage, iway |-> cpt.dst.way, md |-> cpt.md,
                slot |-> [s \in Slots |-> IF cpt.md.pg_vld[s] THEN @.slot[s]
                                          ELSE NoPage]]]
  /\ pwm' = "WAIT_BRESP"
  /\ UNCHANGED <<tables, etry_cnt, upd, cst, cpt>> /\ cpt_idle_others

(* A list-only update from the irregular free list: the writer relinks the *)
(* list if a second entry is on it and empties the registers if not.  (It  *)
(* looks at the source list of the packet before; if that was another, it  *)
(* takes the packet in one cycle and looks again in the next.)             *)
SendTolUpdate(pkt) ==
  /\ pwm = "IDLE"
  /\ upd' = pkt
  /\ IF SrcHasMore(ht, pkt)
     THEN pwm' = "TOL_SLST_UPDATE" /\ UNCHANGED ht
     ELSE pwm' = "TOL_DLST_UPDATE1" /\ ht' = SrcEmptied(ht, pkt)
  /\ UNCHANGED <<att, lst, mem, etry_cnt, cst, cpt>> /\ cpt_idle_others

IflPkt(e, entry, dst) ==
  [NoPkt EXCEPT !.tolEntryId = e, !.prev = entry.prev, !.next = entry.next,
                !.TOL_UPDATE_ONLY = 1,
                !.src_list = "IFL_SIZE1", !.dst_list = dst]

(* CHK_SRC_PAGE: an empty source is freed without a migration.             *)
CptSrcHasPage ==
  /\ cst = "CHK_SRC_PAGE" /\ ifl_head # ifl_tail /\ ~ cpt.src_empty
  /\ cst' = "PEEK_IFL_HEAD"
  /\ UNCHANGED <<cpt, src_entry, dst_entry>> /\ reg_others

CptSendFreeEmpty ==
  /\ cst = "CHK_SRC_PAGE" /\ ifl_head # ifl_tail /\ cpt.src_empty
  /\ SendTolUpdate(IflPkt(ifl_tail, src_entry, "FREE"))

CptFreeEmptyDone ==
  /\ cst = "CHK_SRC_PAGE" /\ ifl_head # ifl_tail /\ cpt.src_empty
  /\ CptUpdateDone("PEEK_IFL_TAIL")

(* Mutant: after the last zspage there is nothing left to do.              *)
MutCptLastEntry ==
  /\ cst = "CHK_SRC_PAGE" /\ ifl_head = ifl_tail
  /\ cst' = "DONE"
  /\ UNCHANGED <<cpt, src_entry, dst_entry>> /\ reg_others

(* The registers are looked at in every cycle: once the writer has moved   *)
(* the tail to the last entry, the end of the update is not waited for.    *)
CptLastEntry ==
  /\ cst = "CHK_SRC_PAGE" /\ ifl_head = ifl_tail
  /\ cst' = "ZSPAGE_UPDATE"
  /\ UNCHANGED <<cpt, src_entry, dst_entry>> /\ reg_others

PwmUnawaited ==
  /\ cst = "ZSPAGE_UPDATE" /\ upd # NoPkt
  /\ CptUpdateDone(cst)

CptSendMigrate == cst = "MIGRATE_2" /\ StartZspg(cpt)
CptMigrateDone == cst = "MIGRATE_2" /\ CptUpdateDone("ATT_UPDATE")

(* Mutant: the ATT entry keeps the place the page was moved from.          *)
MutCptSendAtt ==
  /\ cst = "ATT_UPDATE"
  /\ SendUpdate([NoPkt EXCEPT !.attEntryId = cpt.page, !.loc = cpt.src,
                              !.ATT_UPDATE_ONLY = TRUE, !.ATT_STS = "COMP"])
  /\ UNCHANGED <<cst, cpt>> /\ cpt_idle_others

CptSendAtt ==
  /\ cst = "ATT_UPDATE"
  /\ SendUpdate([NoPkt EXCEPT !.attEntryId = cpt.page, !.loc = cpt.dst,
                              !.ATT_UPDATE_ONLY = TRUE, !.ATT_STS = "COMP"])
  /\ UNCHANGED <<cst, cpt>> /\ cpt_idle_others

CptAttDone ==
  /\ cst = "ATT_UPDATE"
  /\ CptUpdateDone(CASE cpt.src_empty -> "PUSH_FREEWAY"
                     [] ~ cpt.src_empty /\ cpt.dst_full -> "DETACH_IFL_HEAD"
                     [] OTHER -> "ZSPAGE_UPDATE")

CptSendPushFree ==
  /\ cst = "PUSH_FREEWAY"
  /\ SendTolUpdate(IflPkt(EntryOf(cpt.src_way), src_entry, "FREE"))

CptPushFreeDone ==
  /\ cst = "PUSH_FREEWAY"
  /\ CptUpdateDone(IF cpt.dst_full THEN "DETACH_IFL_HEAD" ELSE "ZSPAGE_UPDATE")

(* The entry at the head leaves the list as if it were the one at the tail.*)
CptSendDetach ==
  /\ cst = "DETACH_IFL_HEAD"
  /\ SendTolUpdate(IflPkt(ifl_head, dst_entry, "IFL_DETACH"))

CptDetachDone ==
  /\ cst = "DETACH_IFL_HEAD"
  /\ CptUpdateDone("DETACH_IFL_HEAD_MD_UPDATE")

CptSendDstMd ==
  /\ cst = "DETACH_IFL_HEAD_MD_UPDATE"
  /\ StartZspg([cpt EXCEPT !.dst = At(cpt.dst_way, Frame), !.src = NoLoc,
                           !.md = cpt.dst_md])

CptDstMdDone ==
  /\ cst = "DETACH_IFL_HEAD_MD_UPDATE"
  /\ CptUpdateDone("ZSPAGE_UPDATE")

(* Mutant: an empty list is not the end.                                   *)
MutCptNextRound ==
  /\ cst = "ZSPAGE_UPDATE"
  /\ ifl_head # ifl_tail /\ cst' = "PEEK_IFL_TAIL"
  /\ UNCHANGED <<cpt, src_entry, dst_entry>> /\ reg_others

(* ZSPAGE_UPDATE: go on while two entries are left; with one, the metadata *)
(* of the source is written.                                               *)
CptNextRound ==
  /\ cst = "ZSPAGE_UPDATE"
  /\ \/ ifl_head # ifl_tail /\ cst' = "PEEK_IFL_TAIL"
     \/ ifl_head = ifl_tail /\ ifl_tail = NULL /\ cst' = "DONE"
  /\ UNCHANGED <<cpt, src_entry, dst_entry>> /\ reg_others

CptSendSrcMd ==
  /\ cst = "ZSPAGE_UPDATE"
  /\ ifl_head = ifl_tail /\ ifl_tail # NULL
  /\ StartZspg([cpt EXCEPT !.dst = At(cpt.src_way, Frame), !.src = NoLoc,
                           !.md = cpt.src_md])

CptSrcMdDone ==
  /\ cst = "ZSPAGE_UPDATE" /\ upd = NoPkt
  /\ CptUpdateDone("DONE")

(* compact_done.                                                           *)
CptDone ==
  /\ cst = "DONE"
  /\ cst' = "IDLE" /\ prm' = "IDLE"
  /\ freepage_count' = 0
  /\ fifo' = NoPage
  /\ UNCHANGED <<tables, mem, writer, zpkt, req, trnsl, alloc, fw,
                 free_entry_avail, comp, dec, acc, cpt, src_entry, dst_entry, exact,
                 compaction_sw>>

(* An error response to a read; the one to a read of the page is noticed   *)
(* by the migrator.                                                        *)
CptReadError ==
  /\ MemErrors
  /\ \/ cst \in {"FETCH_SRC_PAGE", "FETCH_DST_PAGE", "BURST_READ"}
     \/ cst = "PEEK_IFL_TAIL" /\ cpt.src_empty
     \/ cst = "PEEK_IFL_HEAD" /\ cpt.dst_full
  /\ cst' = "BUS_ERROR"
  /\ UNCHANGED <<cpt, src_entry, dst_entry>> /\ reg_others

-----------------------------------------------------------------------------
(* The engine with its compacter.                                          *)

(* A compaction can free the zspage under construction, or leave a page's  *)
(* ATT entry at the start of a way; what the other managers then make of a *)
(* way without metadata is not modelled any further.                       *)
Misled == \/ cmp = "COMP_WAIT" /\ uc # NoWay /\ mem[uc].iway # uc
          \/ dec = "BURST_READ" /\ trnsl.loc.slot = Frame
Lost == cst \in {"LOST", "BUS_ERROR"} \/ Misled

(* With fewer than two zspages on the list, the compacter stays in IDLE    *)
(* and the page read manager in COMPACT.                                   *)
NothingToMerge == prm = "COMPACT" /\ cst = "IDLE" /\ ifl_head = ifl_tail

StayStuck == (Lost \/ NothingToMerge) /\ UNCHANGED cvars

(* decomp_mngr_done counts a page.                                         *)
EngineStep ==
  /\ ~ Misled
  /\ ManagerStep
  /\ freepage_count' =
       IF dec = "DONE" /\ dec' = "IDLE" /\ freepage_count < FREE_CPAGE_COMPACT_THRSHLD
       THEN freepage_count + 1 ELSE freepage_count
  /\ UNCHANGED <<cptvars, exact, compaction_sw>>

CptStep ==
  \/ StartCompact \/ CptIdle \/ CptPeekTail \/ CptFetchSrc \/ CptSrcHasPage
  \/ CptSendFreeEmpty \/ CptFreeEmptyDone \/ CptLastEntry \/ PwmUnawaited
  \/ CptPeekHead \/ CptFetchDst \/ CptBurstRead \/ CptSendMigrate
  \/ PwmZspgMigrate \/ CptMigrateDone \/ CptSendAtt \/ CptAttDone
  \/ CptSendPushFree \/ CptPushFreeDone \/ CptSendDetach \/ CptDetachDone
  \/ CptSendDstMd \/ PwmZspgMdUpdate \/ CptDstMdDone \/ CptNextRound
  \/ CptSendSrcMd \/ CptSrcMdDone \/ CptDone

(* The steps of HawkPager that are not a manager's.                        *)
AroundStep == /\ ReadError \/ CpuRead \/ CpuWrite \/ StayParked
              /\ UNCHANGED <<cptvars, cptcnt>>
CLookup(c, p) == Lookup(c, p) /\ UNCHANGED <<cptvars, cptcnt>>

MoveSwitch == /\ compaction_sw' = ~ compaction_sw
              /\ UNCHANGED <<vars, cptvars, freepage_count, exact>>

CNext == \/ EngineStep
         \/ CptStep
         \/ \E c \in Chans, p \in Pages : CLookup(c, p)
         \/ AroundStep
         \/ CptReadError
         \/ MoveSwitch
         \/ StayStuck

CSpec == CInit /\ [][CNext]_cvars

-----------------------------------------------------------------------------
(* Properties.                                                             *)

CptWaits == cst \in {"CHK_SRC_PAGE", "MIGRATE_2", "ATT_UPDATE", "PUSH_FREEWAY",
                     "DETACH_IFL_HEAD", "DETACH_IFL_HEAD_MD_UPDATE",
                     "ZSPAGE_UPDATE"}

(* The page writer still works for one manager at a time, now that the     *)
(* compacter is one of them: whatever it is busy with, the manager that    *)
(* asked for it is waiting (also when an empty source zspage makes the     *)
(* compacter look away from the update that frees it), and no manager is   *)
(* at work while another is.                                               *)
OneManagerCompacting ==
  /\ cst # "IDLE" => prm = "COMPACT" /\ cmp = "IDLE" /\ dec = "IDLE"
  /\ WriterBusy => PrmWaits \/ CmpWaits \/ DecWaits \/ CptWaits

(* A way that a compaction gives back is drained: between two operations   *)
(* no ATT entry names a way of the free list.                              *)
FreedWayDrained ==
  prm = "IDLE" /\ init_list_done =>
    \A e \in Members("FREE"), p \in Pages :
      att[p].sts # "DALLOC" => att[p].loc.way # WayOf(e)

(* As long as every compaction began with an exact fit, no page's latest   *)
(* contents are lost at any instant, and the ATT entry of every accessed   *)
(* page leads to them between any two lookups or compactions, also once    *)
(* pages are decompressed into the ways a compaction has freed; the ways   *)
(* it freed are drained and the lists of the other managers well formed.   *)
KeptByExactCompaction ==
  exact => NeverLost /\ PagesKept /\ ListsWellFormed /\ FreedWayDrained

(* A page is only ever moved to a slot that holds no page ("look for       *)
(* invalid pages").                                                        *)
MovesToFreeSlot ==
  pwm = "ZSPG_COMPACT" /\ cst = "MIGRATE_2" =>
    \A p \in Pages \ {cpt.page} :
      att[p].sts = "COMP" => att[p].loc # cpt.dst

(* A compaction ends, unless it found fewer than two zspages on the list   *)
(* or was led astray.                                                      *)
CompactionEnds == (prm = "COMPACT") ~> (prm = "IDLE" \/ NothingToMerge \/ Lost)
=============================================================================
