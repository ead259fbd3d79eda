------------------------------- MODULE HawkPager -------------------------------
(***************************************************************************)
(* The paging engine: page read manager (hawk_pgrd_mngr.sv), compression   *)
(* manager (hawk_cmpresn_mngr.sv), decompression manager                   *)
(* (hawk_decomp_mngr.sv), page write manager (hawk_pgwr_mngr.sv with       *)
(* hawk_cmpdcmp_wr_mngr.sv), the tables they keep in DRAM, and the CPU     *)
(* accesses that run beside them once granted.                             *)
(*                                                                         *)
(* A step is one AXI transaction or one handshake of the code; a request   *)
(* to the page writer and its acknowledgement are joint steps.  States     *)
(* keep the code's names; a chain of states that only formats or waits for *)
(* one transaction keeps the name of its first state.                      *)
(*                                                                         *)
(* Page data is abstracted to tokens: "page p" in a frame or slot means    *)
(* that it holds the latest contents of p, NoPage that it holds anything   *)
(* else.  Registers nobody reads any more go back to a null value.         *)
(***************************************************************************)
EXTENDS HawkTol

CONSTANTS
  MayNotCompress,  \* may the compressor report a page incompressible?
  MemErrors,       \* may an AXI read come back with an error response?
  PromptMemory,    \* does a granted access reach DRAM before a later burst
                   \* read of the same way?
  Chans            \* the CPU's channels: "rd", "wr" or both

ASSUME PagerAssumption ==
  /\ Chans # {} /\ Chans \subseteq {"rd", "wr"}
  /\ MayNotCompress \in BOOLEAN
  /\ MemErrors \in BOOLEAN
  /\ PromptMemory \in BOOLEAN

VARIABLES
  att,      \* ATT, one entry per page
  lst,      \* list table, one entry per way
  ht,       \* tol_HT: head and tail registers
  mem,      \* the ways
  pwm,      \* page write manager: p_state
  etry_cnt, \*   initialisation counter
  upd,      \*   p_tol_updpkt: the update in progress
  zpkt,     \* iWayORcPagePkt: c_ or dc_iWayORcPagePkt
  prm,      \* page read manager: p_state
  req,      \*   lkup_reqpkt, with its channel
  trnsl,    \*   p_trnsl_reqpkt
  alloc,    \*   p_tol_updpkt / prm_tol_updpkt: the FREE to UNCOMP update
  fw,       \*   decomp_freeWay
  free_entry_avail,
  cmp,      \* compression manager: p_state
  vic,      \*   p_listEntry: the victim
  fifo,     \* contents of the read FIFO, then of the (de)compressed page
  uc,       \* UC_ifLst_iWay: zspage under construction
  dec,      \* decompression manager: p_state
  acc       \* accesses granted and not yet performed, one per channel

tables == <<att, lst, ht>>
writer == <<pwm, etry_cnt, upd>>
reader == <<prm, req, trnsl, alloc, fw, free_entry_avail>>
comp   == <<cmp, vic, uc>>
vars == <<tables, mem, writer, zpkt, reader, comp, fifo, dec, acc>>

NoAcc == [page |-> NoPage, way |-> NoWay]
NoReq == [chan |-> CHOOSE c \in Chans : TRUE, page |-> NoPage, fresh |-> FALSE]
NoVictim == [way |-> NoWay, attEntryId |-> NoPage, prev |-> NULL, next |-> NULL]
NoTrnsl == [sts |-> "DALLOC", loc |-> NoLoc]

(* A way: the page it holds uncompressed, the pages its slots hold, and    *)
(* the iWay_ptr and metadata in its first cache line.                      *)
RawFrame(p) == [page |-> p, slot |-> [s \in Slots |-> NoPage],
                iway |-> NoWay, md |-> NoMd]

Init ==
  /\ att = [p \in Pages |-> [sts |-> "COMP", loc |-> NoLoc]]     \* garbage
  /\ lst = [e \in Entries |-> [attEntryId |-> NoPage, prev |-> NULL, next |-> NULL]]
  /\ ht = [head |-> [x \in Lists |-> NULL], tail |-> [x \in Lists |-> NULL]]
  /\ mem = [w \in Ways |-> RawFrame(NoPage)]
  /\ pwm = "INIT_ATT" /\ etry_cnt = 1 /\ upd = NoPkt
  /\ zpkt = NoZsPkt
  /\ prm = "IDLE" /\ req = NoReq /\ trnsl = NoTrnsl
  /\ alloc = NoPkt /\ fw = NoWay /\ free_entry_avail = FALSE
  /\ cmp = "IDLE" /\ vic = NoVictim /\ uc = NoWay
  /\ fifo = NoPage
  /\ dec = "IDLE"
  /\ acc = [c \in Chans |-> NoAcc]

-----------------------------------------------------------------------------
(* Page write manager.                                                     *)

(* The ATT is cleared, then the list entries are chained into the free     *)
(* list one by one.                                                        *)
InitAtt ==
  /\ pwm = "INIT_ATT"
  /\ att' = [p \in Pages |-> [sts |-> "DALLOC", loc |-> NoLoc]]
  /\ ht' = [ht EXCEPT !.head["FREE"] = 1]
  /\ pwm' = "INIT_LIST"
  /\ UNCHANGED <<lst, mem, etry_cnt, upd, zpkt, reader, comp, fifo, dec, acc>>

(* Mutant: the initialisation stops one list entry short.                  *)
MutInitList ==
  /\ pwm = "INIT_LIST"
  /\ IF etry_cnt < ListEntryCnt
     THEN /\ lst' = [lst EXCEPT ![etry_cnt] =
                       [attEntryId |-> NoPage, prev |-> etry_cnt - 1,
                        next |-> IF etry_cnt = ListEntryCnt THEN NULL
                                 ELSE etry_cnt + 1]]
          /\ etry_cnt' = etry_cnt + 1
          /\ UNCHANGED <<ht, pwm>>
     ELSE /\ ht' = [ht EXCEPT !.tail["FREE"] = etry_cnt - 1]
          /\ pwm' = "IDLE"
          /\ UNCHANGED <<lst, etry_cnt>>
  /\ UNCHANGED <<att, mem, upd, zpkt, reader, comp, fifo, dec, acc>>

InitList ==
  /\ pwm = "INIT_LIST"
  /\ IF etry_cnt <= ListEntryCnt
     THEN /\ lst' = [lst EXCEPT ![etry_cnt] =
                       [attEntryId |-> NoPage, prev |-> etry_cnt - 1,
                        next |-> IF etry_cnt = ListEntryCnt THEN NULL
                                 ELSE etry_cnt + 1]]
          /\ etry_cnt' = etry_cnt + 1
          /\ UNCHANGED <<ht, pwm>>
     ELSE /\ ht' = [ht EXCEPT !.tail["FREE"] = etry_cnt - 1]
          /\ pwm' = "IDLE"
          /\ UNCHANGED <<lst, etry_cnt>>
  /\ UNCHANGED <<att, mem, upd, zpkt, reader, comp, fifo, dec, acc>>

init_list_done == pwm \notin {"INIT_ATT", "INIT_LIST"}

PwmAttUpdate ==
  /\ pwm = "ATT_UPDATE"
  /\ att' = [att EXCEPT ![upd.attEntryId] = [sts |-> AttSts(upd), loc |-> upd.loc]]
  /\ CASE upd.ATT_UPDATE_ONLY ->
            pwm' = "WAIT_BRESP" /\ UNCHANGED ht
       [] ~ upd.ATT_UPDATE_ONLY /\ SrcHasMore(ht, upd) ->
            pwm' = "TOL_SLST_UPDATE" /\ UNCHANGED ht
       [] OTHER ->
            pwm' = "TOL_DLST_UPDATE1" /\ ht' = SrcEmptied(ht, upd)
  /\ UNCHANGED <<lst, mem, etry_cnt, upd, zpkt, reader, comp, fifo, dec, acc>>

PwmSlstUpdate ==
  /\ pwm = "TOL_SLST_UPDATE"
  /\ lst' = SrcWrite(lst, upd)
  /\ ht' = SrcRegs(ht, upd)
  /\ pwm' = "TOL_DLST_UPDATE1"
  /\ UNCHANGED <<att, mem, etry_cnt, upd, zpkt, reader, comp, fifo, dec, acc>>

PwmDlstUpdate1 ==
  /\ pwm = "TOL_DLST_UPDATE1"
  /\ lst' = DstWrite1(lst, ht, upd)
  /\ ht' = DstRegs1(ht, upd)
  /\ pwm' = IF NeedsDst2(ht, upd) THEN "TOL_DLST_UPDATE2" ELSE "WAIT_BRESP"
  /\ UNCHANGED <<att, mem, etry_cnt, upd, zpkt, reader, comp, fifo, dec, acc>>

PwmDlstUpdate2 ==
  /\ pwm = "TOL_DLST_UPDATE2"
  /\ lst' = DstWrite2(lst, ht, upd)
  /\ ht' = DstRegs2(ht, upd)
  /\ pwm' = "WAIT_BRESP"
  /\ UNCHANGED <<att, mem, etry_cnt, upd, zpkt, reader, comp, fifo, dec, acc>>

(* CPAGE_TRNSFR stores a compressed page in its slot, DCPAGE_TRNSFR a      *)
(* decompressed one over a whole way.                                      *)
PwmPageTransfer ==
  /\ pwm = "CMPDCMP"
  /\ mem' = IF prm = "COMPRESS"
            THEN [mem EXCEPT ![zpkt.dest.way] =
                    [@ EXCEPT !.page = NoPage, !.slot[zpkt.dest.slot] = fifo]]
            ELSE [mem EXCEPT ![zpkt.dest.way] = RawFrame(fifo)]
  /\ pwm' = "ZS_PAGE_UPDATE"
  /\ UNCHANGED <<tables, etry_cnt, upd, zpkt, reader, comp, fifo, dec, acc>>

(* The metadata of the zspage follows the page.  What a dropped slot holds *)
(* is no longer counted as anybody's contents.                             *)
PwmZsPageUpdate ==
  /\ pwm = "ZS_PAGE_UPDATE"
  /\ mem' = [mem EXCEPT
               ![zpkt.iWay_ptr] =
                  [page |-> NoPage,
                   slot |-> [s \in Slots |-> IF zpkt.zsPgMd.pg_vld[s]
                                             THEN mem[zpkt.iWay_ptr].slot[s]
                                             ELSE NoPage],
                   iway |-> zpkt.iWay_ptr,
                   md |-> zpkt.zsPgMd]]
  /\ pwm' = "WAIT_BRESP"
  /\ UNCHANGED <<tables, etry_cnt, upd, zpkt, reader, comp, fifo, dec, acc>>

(* A manager hands pkt to the writer and later sees it acknowledged.       *)
SendUpdate(pkt) ==
  /\ pwm = "IDLE"
  /\ upd' = pkt
  /\ pwm' = IF pkt.TOL_UPDATE_ONLY = 2 THEN "TOL_DLST_UPDATE1" ELSE "ATT_UPDATE"
  /\ UNCHANGED <<tables, mem, etry_cnt>>

UpdateDone ==
  /\ pwm = "WAIT_BRESP"
  /\ pwm' = "IDLE"
  /\ upd' = NoPkt
  /\ UNCHANGED <<tables, mem, etry_cnt>>

SendPage ==
  /\ pwm = "IDLE"
  /\ pwm' = "CMPDCMP"
  /\ UNCHANGED <<tables, mem, etry_cnt, upd>>

-----------------------------------------------------------------------------
(* Page read manager.                                                      *)

(* The control unit looks up page p for the read or the write channel.     *)
Lookup(c, p) ==
  /\ prm = "IDLE"
  /\ init_list_done
  /\ acc[c] = NoAcc
  /\ req' = [chan |-> c, page |-> p, fresh |-> FALSE]
  /\ prm' = "LOOKUP_ATT"
  /\ UNCHANGED <<tables, mem, writer, zpkt, trnsl, alloc, fw, free_entry_avail,
                 comp, fifo, dec, acc>>

ReadAtt ==
  /\ prm = "LOOKUP_ATT"
  /\ trnsl' = att[req.page]
  /\ req' = [req EXCEPT !.fresh = att[req.page].sts = "DALLOC"]
  /\ prm' = "CHK_ATT_ENTRY"
  /\ UNCHANGED <<tables, mem, writer, zpkt, alloc, fw, free_entry_avail,
                 comp, fifo, dec, acc>>

(* allow_access: the stalled CPU transaction goes on to way w.  The first  *)
(* access to a fresh page makes what the way holds its contents.           *)
Grant(w) ==
  /\ acc' = [acc EXCEPT ![req.chan] = [page |-> req.page, way |-> w]]
  /\ mem' = IF req.fresh THEN [mem EXCEPT ![w] = RawFrame(req.page)] ELSE mem
  /\ prm' = "IDLE"
  /\ req' = NoReq /\ trnsl' = NoTrnsl /\ alloc' = NoPkt /\ fw' = NoWay
(* Mutant: a compressed page is taken for a hit.                           *)
MutHit ==
  /\ prm = "CHK_ATT_ENTRY"
  /\ trnsl.sts # "DALLOC"
  /\ Grant(trnsl.loc.way)
  /\ UNCHANGED <<tables, writer, zpkt, free_entry_avail, comp, fifo, dec>>

Hit ==
  /\ prm = "CHK_ATT_ENTRY"
  /\ trnsl.sts \in {"UNCOMP", "INCOMP"}
  /\ Grant(trnsl.loc.way)
  /\ UNCHANGED <<tables, writer, zpkt, free_entry_avail, comp, fifo, dec>>

Miss ==
  /\ prm = "CHK_ATT_ENTRY"
  /\ trnsl.sts \in {"COMP", "DALLOC"}
  /\ prm' = "POP_FREE_LST"
  /\ UNCHANGED <<tables, mem, writer, zpkt, req, trnsl, alloc, fw,
                 free_entry_avail, comp, fifo, dec, acc>>

TakeFreeEntry ==
  /\ prm = "POP_FREE_LST"
  /\ ht.head["FREE"] # NULL
  /\ prm' = "WAIT_LST_ENTRY"
  /\ UNCHANGED <<tables, mem, writer, zpkt, req, trnsl, alloc, fw,
                 free_entry_avail, comp, fifo, dec, acc>>
NeedVictim ==
  /\ prm = "POP_FREE_LST"
  /\ ht.head["FREE"] = NULL
  /\ prm' = IF ht.tail["UNCOMP"] # ht.head["UNCOMP"] THEN "COMPRESS"
            ELSE "UNCOMPRESS_LIST_EMPTY"
  /\ UNCHANGED <<tables, mem, writer, zpkt, req, trnsl, alloc, fw,
                 free_entry_avail, comp, fifo, dec, acc>>

(* get_Tolpkt: move entry e of the free list to the UNCOMP list for p.     *)
get_Tolpkt(e, p) ==
  [NoPkt EXCEPT !.attEntryId = p, !.tolEntryId = e, !.loc = At(WayOf(e), Frame),
                !.owner = p, !.prev = lst[e].prev, !.next = lst[e].next,
                !.src_list = "FREE", !.dst_list = "UNCOMP"]

(* DECODE_LST_ENTRY: a fresh page gets the way (ALLOCATE_PPA); for a       *)
(* compressed page the packet is saved over the decompression, which       *)
(* drives the same register (WAIT_STATE).                                  *)
DecodeLstEntry ==
  /\ prm = "WAIT_LST_ENTRY"
  /\ LET pkt == get_Tolpkt(ht.head["FREE"], req.page)
     IN  /\ alloc' = pkt
         /\ IF trnsl.sts = "COMP"
            THEN /\ fw' = pkt.loc.way
                 /\ free_entry_avail' = TRUE
                 /\ prm' = "DECOMPRESS"
                 /\ UNCHANGED trnsl
            ELSE /\ trnsl' = [sts |-> "UNCOMP", loc |-> pkt.loc]
                 /\ prm' = "TBL_UPDATE"
                 /\ UNCHANGED <<fw, free_entry_avail>>
  /\ UNCHANGED <<tables, mem, writer, zpkt, req, comp, fifo, dec, acc>>

SendTblUpdate ==
  /\ prm = "TBL_UPDATE"
  /\ SendUpdate(alloc)
  /\ prm' = "TBL_UPDATE_DONE"
  /\ UNCHANGED <<zpkt, req, trnsl, alloc, fw, free_entry_avail,
                 comp, fifo, dec, acc>>

TblUpdateDone ==
  /\ prm = "TBL_UPDATE_DONE"
  /\ pwm = "WAIT_BRESP"
  /\ pwm' = "IDLE" /\ upd' = NoPkt
  /\ Grant(trnsl.loc.way)
  /\ UNCHANGED <<tables, etry_cnt, zpkt, free_entry_avail, comp, fifo, dec>>

(* cmpresn_done: the freed way serves a fresh page at once, or the         *)
(* decompression of the page that was asked for.                           *)
CompressDone ==
  /\ prm = "COMPRESS"
  /\ cmp = "DONE"
  /\ cmp' = "IDLE" /\ vic' = NoVictim /\ zpkt' = NoZsPkt /\ fifo' = NoPage
  /\ IF trnsl.sts = "COMP"
     THEN /\ fw' = vic.way
          /\ prm' = "DECOMPRESS"
          /\ UNCHANGED <<mem, req, trnsl, alloc, acc>>
     ELSE Grant(vic.way)
  /\ UNCHANGED <<tables, writer, free_entry_avail, uc, dec>>

DecompressDone ==
  /\ prm = "DECOMPRESS"
  /\ dec = "DONE"
  /\ dec' = "IDLE" /\ zpkt' = NoZsPkt /\ fifo' = NoPage
  /\ IF free_entry_avail
     THEN /\ trnsl' = [sts |-> "UNCOMP", loc |-> At(fw, Frame)]
          /\ free_entry_avail' = FALSE
          /\ prm' = "TBL_UPDATE"
          /\ UNCHANGED <<mem, req, alloc, fw, acc>>
     ELSE /\ Grant(fw)
          /\ UNCHANGED free_entry_avail
  /\ UNCHANGED <<tables, writer, comp>>

-----------------------------------------------------------------------------
(* Compression manager.                                                    *)

cmp_idle_others == UNCHANGED <<reader, dec, acc>>

(* PEEK_UCMP_HEAD: read the entry at the head of the UNCOMP list.  A NULL  *)
(* head is not handled: what is then read is not modelled any further.     *)
CmpPeek ==
  /\ prm = "COMPRESS"
  /\ cmp \in {"IDLE", "PEEK_UCMP_HEAD"}
  /\ LET e == ht.head["UNCOMP"]
     IN  IF e # NULL
         THEN /\ vic' = [way |-> WayOf(e), attEntryId |-> lst[e].attEntryId,
                         prev |-> lst[e].prev, next |-> lst[e].next]
              /\ cmp' = "BURST_READ"
         ELSE cmp' = "PEEK_NULL" /\ UNCHANGED vic
  /\ UNCHANGED <<tables, mem, writer, zpkt, uc, fifo>> /\ cmp_idle_others

(* BURST_READ: the victim's 64 cache lines go to the compressor.           *)
CmpBurstRead ==
  /\ cmp = "BURST_READ"
  /\ PromptMemory => \A c \in Chans : acc[c].way # vic.way
  /\ fifo' = mem[vic.way].page
  /\ cmp' = "COMP_WAIT"
  /\ UNCHANGED <<tables, mem, writer, zpkt, vic, uc>> /\ cmp_idle_others

CmpIncompressible ==
  /\ cmp = "COMP_WAIT"
  /\ MayNotCompress
  /\ fifo' = NoPage
  /\ cmp' = "POP_UCMP_PUSH_INCOMP"
  /\ UNCHANGED <<tables, mem, writer, zpkt, vic, uc>> /\ cmp_idle_others
(* Mutant: an incompressible page goes back to the UNCOMP list.            *)
MutSendIncomp ==
  /\ cmp = "POP_UCMP_PUSH_INCOMP"
  /\ SendUpdate([NoPkt EXCEPT
                   !.attEntryId = vic.attEntryId, !.tolEntryId = ht.head["UNCOMP"],
                   !.loc = At(vic.way, Frame), !.owner = vic.attEntryId,
                   !.prev = vic.prev, !.next = vic.next,
                   !.src_list = "UNCOMP", !.dst_list = "UNCOMP"])
  /\ UNCHANGED <<zpkt, comp, fifo>> /\ cmp_idle_others

SendIncomp ==
  /\ cmp = "POP_UCMP_PUSH_INCOMP"
  /\ SendUpdate([NoPkt EXCEPT
                   !.attEntryId = vic.attEntryId, !.tolEntryId = ht.head["UNCOMP"],
                   !.loc = At(vic.way, Frame), !.owner = vic.attEntryId,
                   !.prev = vic.prev, !.next = vic.next,
                   !.src_list = "UNCOMP", !.dst_list = "INCOMP"])
  /\ UNCHANGED <<zpkt, comp, fifo>> /\ cmp_idle_others

IncompDone ==
  /\ cmp = "POP_UCMP_PUSH_INCOMP"
  /\ UpdateDone
  /\ cmp' = "PEEK_UCMP_HEAD" /\ vic' = NoVictim
  /\ UNCHANGED <<zpkt, uc, fifo>> /\ cmp_idle_others

(* COMP_DONE with no zspage under construction, or MIGRATE_TO_ZSPAGE into  *)
(* a full one: the victim's own way becomes the zspage.                    *)
StartZspage ==
  /\ \/ cmp = "COMP_WAIT" /\ uc = NoWay
     \/ cmp = "MIGRATE_TO_ZSPAGE" /\ pwm = "IDLE" /\ zpkt.zspage_full
  /\ uc' = vic.way
  /\ cmp' = "PREP_ZSPAGE_MD"
  /\ UNCHANGED <<tables, mem, writer, zpkt, vic, fifo>> /\ cmp_idle_others

FetchZspage ==
  /\ cmp = "COMP_WAIT"
  /\ uc # NoWay
  /\ zpkt' = getFreeCpage_ZsPageiWay(mem[uc].iway, mem[uc].md, vic.attEntryId)
  /\ cmp' = "MIGRATE_TO_ZSPAGE"
  /\ UNCHANGED <<tables, mem, writer, vic, uc, fifo>> /\ cmp_idle_others

PrepZspage ==
  /\ cmp = "PREP_ZSPAGE_MD"
  /\ SendPage
  /\ zpkt' = [NoZsPkt EXCEPT
                !.dest = At(vic.way, 1), !.iWay_ptr = vic.way,
                !.zsPgMd.pg_vld[1] = TRUE, !.zsPgMd.page[1] = vic.attEntryId]
  /\ UNCHANGED <<comp, fifo>> /\ cmp_idle_others

PrepDone ==
  /\ cmp = "PREP_ZSPAGE_MD"
  /\ UpdateDone
  /\ cmp' = "UPDATE_ATT_POP_UCMP_HEAD"
  /\ UNCHANGED <<zpkt, vic, uc, fifo>> /\ cmp_idle_others

SendPopUcmp ==
  /\ cmp = "UPDATE_ATT_POP_UCMP_HEAD"
  /\ SendUpdate([NoPkt EXCEPT
                   !.attEntryId = vic.attEntryId, !.tolEntryId = ht.head["UNCOMP"],
                   !.loc = zpkt.dest, !.prev = vic.prev, !.next = vic.next,
                   !.src_list = "UNCOMP", !.dst_list = "NULLIFY"])
  /\ UNCHANGED <<zpkt, comp, fifo>> /\ cmp_idle_others

PopUcmpDone ==
  /\ cmp = "UPDATE_ATT_POP_UCMP_HEAD"
  /\ UpdateDone
  /\ cmp' = "PEEK_UCMP_HEAD" /\ vic' = NoVictim /\ zpkt' = NoZsPkt /\ fifo' = NoPage
  /\ UNCHANGED uc /\ cmp_idle_others

SendMigrate ==
  /\ cmp = "MIGRATE_TO_ZSPAGE"
  /\ ~ zpkt.zspage_full
  /\ SendPage
  /\ UNCHANGED <<zpkt, comp, fifo>> /\ cmp_idle_others

(* The slot fits its way (HawkLayout), so FREEWAY_OR_CONTINUE always goes  *)
(* on to hand the victim's way over.                                       *)
MigrateDone ==
  /\ cmp = "MIGRATE_TO_ZSPAGE"
  /\ UpdateDone
  /\ cmp' = "TOL_UPDATE_FREEWAY_ENTRY"
  /\ UNCHANGED <<zpkt, vic, uc, fifo>> /\ cmp_idle_others

(* The victim's entry moves to the tail of the UNCOMP list for the page    *)
(* asked for; the same packet turns the victim's ATT entry to COMP.        *)
SendFreewayTol ==
  /\ cmp = "TOL_UPDATE_FREEWAY_ENTRY"
  /\ SendUpdate([NoPkt EXCEPT
                   !.attEntryId = vic.attEntryId, !.tolEntryId = ht.head["UNCOMP"],
                   !.loc = zpkt.dest, !.owner = req.page,
                   !.prev = vic.prev, !.next = vic.next,
                   !.src_list = "UNCOMP", !.dst_list = "UNCOMP"])
  /\ UNCHANGED <<zpkt, comp, fifo>> /\ cmp_idle_others

FreewayTolDone ==
  /\ cmp = "TOL_UPDATE_FREEWAY_ENTRY"
  /\ UpdateDone
  /\ cmp' = "ATT_UPDATE_FREEWAY_ENTRY"
  /\ UNCHANGED <<zpkt, vic, uc, fifo>> /\ cmp_idle_others

SendFreewayAtt ==
  /\ cmp = "ATT_UPDATE_FREEWAY_ENTRY"
  /\ SendUpdate([NoPkt EXCEPT
                   !.attEntryId = req.page, !.loc = At(vic.way, Frame),
                   !.ATT_UPDATE_ONLY = TRUE, !.ATT_STS = "UNCOMP"])
  /\ UNCHANGED <<zpkt, comp, fifo>> /\ cmp_idle_others

FreewayAttDone ==
  /\ cmp = "ATT_UPDATE_FREEWAY_ENTRY"
  /\ UpdateDone
  /\ cmp' = "DONE"
  /\ UNCHANGED <<zpkt, vic, uc, fifo>> /\ cmp_idle_others

-----------------------------------------------------------------------------
(* Decompression manager.                                                  *)

dec_idle_others == UNCHANGED <<reader, comp, acc>>

(* REQ_IWAY_PTR, FETCH_IWAY_PTR, SET_CPAGEFREE: read the metadata of the   *)
(* way that holds the page and drop the page from it.  A way that is not   *)
(* its own identity way would be chased from pointer to pointer; where     *)
(* that leads, or an address outside the ways, is not modelled any further.*)
DecFetchIway ==
  /\ prm = "DECOMPRESS"
  /\ dec = "IDLE"
  /\ LET w == trnsl.loc.way
     IN  IF w \in Ways /\ mem[w].iway = w
         THEN /\ zpkt' = [setCpageFree_ZsPageiWay(w, mem[w].md, req.page)
                            EXCEPT !.dest = At(fw, Frame)]
              /\ dec' = "BURST_READ"
         ELSE dec' = "NO_IWAY" /\ UNCHANGED zpkt
  /\ UNCHANGED <<tables, mem, writer, fifo>> /\ dec_idle_others

DecBurstRead ==
  /\ dec = "BURST_READ"
  /\ fifo' = mem[trnsl.loc.way].slot[trnsl.loc.slot]
  /\ dec' = "DECOMP_WAIT"
  /\ UNCHANGED <<tables, mem, writer, zpkt>> /\ dec_idle_others

(* Mutant: the acknowledgement of the writer is not waited for.            *)
MutSendDecompressed ==
  /\ dec = "DECOMP_WAIT"
  /\ SendPage
  /\ dec' = "DONE"
  /\ UNCHANGED <<zpkt, fifo>> /\ dec_idle_others

SendDecompressed ==
  /\ dec = "DECOMP_WAIT"
  /\ SendPage
  /\ UNCHANGED <<zpkt, fifo, dec>> /\ dec_idle_others

DecompressedDone ==
  /\ dec = "DECOMP_WAIT"
  /\ UpdateDone
  /\ dec' = IF zpkt.pp_ifl \/ zpkt.push_fl THEN "FETCH_IFL_LST_ENTRY" ELSE "DONE"
  /\ UNCHANGED <<zpkt, fifo>> /\ dec_idle_others

(* An emptied way stays a zspage: the push to the free list is disabled.   *)
FetchIflLstEntry ==
  /\ dec = "FETCH_IFL_LST_ENTRY"
  /\ dec' = IF zpkt.pp_ifl THEN "PUSH_IFL" ELSE "DONE"
  /\ UNCHANGED <<tables, mem, writer, zpkt, fifo>> /\ dec_idle_others

SendPushIfl ==
  /\ dec = "PUSH_IFL"
  /\ LET e == EntryOf(zpkt.iWay_ptr)
     IN  SendUpdate([NoPkt EXCEPT
                       !.tolEntryId = e, !.loc = At(WayOf(e), Frame),
                       !.prev = lst[e].prev, !.next = lst[e].next,
                       !.TOL_UPDATE_ONLY = 2,
                       !.src_list = "IFL_DETACH", !.dst_list = "IFL_SIZE1"])
  /\ UNCHANGED <<zpkt, fifo, dec>> /\ dec_idle_others

PushIflDone ==
  /\ dec = "PUSH_IFL"
  /\ UpdateDone
  /\ dec' = "DONE"
  /\ UNCHANGED <<zpkt, fifo>> /\ dec_idle_others

-----------------------------------------------------------------------------
(* Around the managers.                                                    *)

(* A table or metadata read comes back with an error: the manager parks in *)
(* BUS_ERROR.  The burst reads do not look at the response.                *)
ReadError ==
  /\ MemErrors
  /\ \/ /\ prm \in {"LOOKUP_ATT", "WAIT_LST_ENTRY"}
        /\ prm' = "BUS_ERROR" /\ UNCHANGED <<cmp, dec>>
     \/ /\ prm = "COMPRESS"
        /\ \/ cmp \in {"IDLE", "PEEK_UCMP_HEAD"}
           \/ cmp = "COMP_WAIT" /\ uc # NoWay
        /\ cmp' = "BUS_ERROR" /\ UNCHANGED <<prm, dec>>
     \/ /\ prm = "DECOMPRESS"
        /\ dec \in {"IDLE", "FETCH_IFL_LST_ENTRY"}
        /\ dec' = "BUS_ERROR" /\ UNCHANGED <<prm, cmp>>
  /\ UNCHANGED <<tables, mem, writer, zpkt, req, trnsl, alloc, fw,
                 free_entry_avail, vic, uc, fifo, acc>>

(* A granted access reaches DRAM.  A write makes every other copy of the   *)
(* page stale and overwrites whatever the way held.                        *)
CpuRead ==
  /\ "rd" \in Chans /\ acc["rd"] # NoAcc
  /\ acc' = [acc EXCEPT !["rd"] = NoAcc]
  /\ UNCHANGED <<tables, mem, writer, zpkt, reader, comp, fifo, dec>>

CpuWrite ==
  /\ "wr" \in Chans /\ acc["wr"] # NoAcc
  /\ LET p == acc["wr"].page
     IN  /\ mem' = [w \in Ways |->
                      IF w = acc["wr"].way THEN RawFrame(p)
                      ELSE [mem[w] EXCEPT
                              !.page = IF @ = p THEN NoPage ELSE @,
                              !.slot = [s \in Slots |->
                                          IF @[s] = p THEN NoPage ELSE @[s]]]]
         /\ fifo' = IF fifo = p THEN NoPage ELSE fifo
  /\ acc' = [acc EXCEPT !["wr"] = NoAcc]
  /\ UNCHANGED <<tables, writer, zpkt, reader, comp, dec>>

(* States the managers never leave.                                        *)
Parked == \/ prm \in {"BUS_ERROR", "UNCOMPRESS_LIST_EMPTY"}
          \/ cmp \in {"BUS_ERROR", "PEEK_NULL"}
          \/ dec \in {"BUS_ERROR", "NO_IWAY"}

StayParked == Parked /\ UNCHANGED vars

PwmStep == \/ InitAtt \/ InitList \/ PwmAttUpdate \/ PwmSlstUpdate
           \/ PwmDlstUpdate1 \/ PwmDlstUpdate2 \/ PwmPageTransfer
           \/ PwmZsPageUpdate
PrmStep == \/ ReadAtt \/ Hit \/ Miss \/ TakeFreeEntry \/ NeedVictim
           \/ DecodeLstEntry \/ SendTblUpdate \/ TblUpdateDone
           \/ CompressDone \/ DecompressDone
CmpStep == \/ CmpPeek \/ CmpBurstRead \/ CmpIncompressible \/ SendIncomp
           \/ IncompDone \/ StartZspage \/ FetchZspage \/ PrepZspage
           \/ PrepDone \/ SendPopUcmp \/ PopUcmpDone \/ SendMigrate
           \/ MigrateDone \/ SendFreewayTol \/ FreewayTolDone
           \/ SendFreewayAtt \/ FreewayAttDone
DecStep == \/ DecFetchIway \/ DecBurstRead \/ SendDecompressed
           \/ DecompressedDone \/ FetchIflLstEntry \/ SendPushIfl
           \/ PushIflDone

ManagerStep == PwmStep \/ PrmStep \/ CmpStep \/ DecStep

Next ==
  \/ ManagerStep
  \/ \E c \in Chans, p \in Pages : Lookup(c, p)
  \/ ReadError
  \/ CpuRead
  \/ CpuWrite
  \/ StayParked

Spec == Init /\ [][Next]_vars

(* The managers are clocked and the memory answers; nothing obliges the    *)
(* CPU to ask.                                                             *)
Fairness == /\ WF_vars(ManagerStep)
            /\ WF_vars(CpuRead)
            /\ WF_vars(CpuWrite)

FairSpec == Spec /\ Fairness
=============================================================================
