------------------------------ MODULE HawkPagerInv ------------------------------
(***************************************************************************)
(* What the paging engine promises: the structure of its lists, agreement  *)
(* of its tables with each other and with the ways, and that no page's     *)
(* contents get lost on the way between uncompressed and compressed.       *)
(***************************************************************************)
EXTENDS HawkPager

MemWay == [page : PageOrNone, slot : [Slots -> PageOrNone],
           iway : Ways \cup {NoWay}, md : ZsPg_Md]

TablesType ==
  /\ att \in [Pages -> AttEntry]
  /\ lst \in [Entries -> ListEntry]
  /\ ht \in HeadTail
MemType == mem \in [Ways -> MemWay]
WriterType ==
  /\ pwm \in {"INIT_ATT", "INIT_LIST", "IDLE", "ATT_UPDATE", "TOL_SLST_UPDATE",
              "TOL_DLST_UPDATE1", "TOL_DLST_UPDATE2", "CMPDCMP",
              "ZS_PAGE_UPDATE", "WAIT_BRESP"}
  /\ etry_cnt \in 1 .. ListEntryCnt + 1
  /\ upd \in TolUpdPkt
ReaderType ==
  /\ prm \in {"IDLE", "LOOKUP_ATT", "CHK_ATT_ENTRY", "POP_FREE_LST",
              "WAIT_LST_ENTRY", "TBL_UPDATE", "TBL_UPDATE_DONE", "COMPRESS",
              "DECOMPRESS", "BUS_ERROR", "UNCOMPRESS_LIST_EMPTY"}
  /\ req \in [chan : Chans, page : PageOrNone, fresh : BOOLEAN]
  /\ trnsl \in AttEntry
  /\ alloc \in TolUpdPkt
  /\ fw \in Ways \cup {NoWay}
  /\ free_entry_avail \in BOOLEAN
CompType ==
  /\ cmp \in {"IDLE", "PEEK_UCMP_HEAD", "BURST_READ", "COMP_WAIT",
              "POP_UCMP_PUSH_INCOMP", "PREP_ZSPAGE_MD",
              "UPDATE_ATT_POP_UCMP_HEAD", "MIGRATE_TO_ZSPAGE",
              "TOL_UPDATE_FREEWAY_ENTRY", "ATT_UPDATE_FREEWAY_ENTRY", "DONE",
              "PEEK_NULL", "BUS_ERROR"}
  /\ vic \in [way : Ways \cup {NoWay}, attEntryId : PageOrNone,
              prev : EntryOrNull, next : EntryOrNull]
  /\ uc \in Ways \cup {NoWay}
DecType == dec \in {"IDLE", "BURST_READ", "DECOMP_WAIT", "FETCH_IFL_LST_ENTRY",
                    "PUSH_IFL", "DONE", "NO_IWAY", "BUS_ERROR"}
AccType == acc \in [Chans -> [page : PageOrNone, way : Ways \cup {NoWay}]]

(* Type invariant: every register and table entry of the engine holds a    *)
(* value of its field, whatever the interleaving of managers and CPU.      *)
TypeOK == /\ TablesType /\ MemType /\ WriterType /\ zpkt \in ZsPkt
          /\ ReaderType /\ CompType /\ fifo \in PageOrNone
          /\ DecType /\ AccType

-----------------------------------------------------------------------------
(* The page writer works for one manager, which waits for it.              *)
WriterBusy == pwm \notin {"INIT_ATT", "INIT_LIST", "IDLE"}
PrmWaits == prm = "TBL_UPDATE_DONE"
CmpWaits == cmp \in {"POP_UCMP_PUSH_INCOMP", "PREP_ZSPAGE_MD",
                     "UPDATE_ATT_POP_UCMP_HEAD", "MIGRATE_TO_ZSPAGE",
                     "TOL_UPDATE_FREEWAY_ENTRY", "ATT_UPDATE_FREEWAY_ENTRY"}
DecWaits == dec \in {"DECOMP_WAIT", "PUSH_IFL"}

(* One manager runs at a time, and the page writer, which they share       *)
(* without an arbiter, is busy only while the manager that asked for the   *)
(* update waits for it: nobody replaces a packet that is being worked off. *)
OneManager ==
  /\ ~ init_list_done => prm = "IDLE"
  /\ cmp # "IDLE" => prm = "COMPRESS"
  /\ dec # "IDLE" => prm = "DECOMPRESS"
  /\ WriterBusy => PrmWaits \/ CmpWaits \/ DecWaits

(* The list of x as the hardware walks it: the entry reached from the head *)
(* register after n next links.                                            *)
Walk(x) ==
  LET w[n \in 0 .. ListEntryCnt] ==
        IF n = 0 THEN ht.head[x]
        ELSE IF w[n - 1] = NULL THEN NULL ELSE lst[w[n - 1]].next
  IN  w
Members(x) == {Walk(x)[n] : n \in 0 .. ListEntryCnt} \ {NULL}

(* x is a doubly linked list from its head to its tail register.           *)
Linked(x) ==
  LET w == Walk(x)
  IN  /\ w[ListEntryCnt] = NULL
      /\ (ht.head[x] = NULL) = (ht.tail[x] = NULL)
      /\ \A n \in 0 .. ListEntryCnt - 1 :
           w[n] # NULL =>
             /\ lst[w[n]].prev = IF n = 0 THEN NULL ELSE w[n - 1]
             /\ (w[n + 1] = NULL) = (w[n] = ht.tail[x])

(* Whenever the page writer is idle, the free, uncompressed and            *)
(* incompressible lists are well formed: its two- and three-write updates  *)
(* never leave a link or a register behind.                                *)
ListsWellFormed ==
  pwm = "IDLE" => \A x \in {"FREE", "UNCOMP", "INCOMP"} : Linked(x)

(* Between two lookups, every way is in exactly one role: on one of the    *)
(* three lists or an identity way of a zspage.  None leaks and none is in  *)
(* use twice.                                                              *)
WaysConserved ==
  prm = "IDLE" /\ init_list_done =>
    \A e \in Entries :
      Cardinality({x \in {"FREE", "UNCOMP", "INCOMP"} : e \in Members(x)})
        = IF mem[WayOf(e)].iway = NoWay THEN 1 ELSE 0

(* Between two lookups the ATT agrees with the list table and the zspage   *)
(* metadata in both directions: an entry that says UNCOMP or INCOMP names  *)
(* a way of that list which names the page back, one that says COMP names  *)
(* the valid slot recorded for the page, and no valid slot or list owner   *)
(* is without its ATT entry.                                               *)
TablesAgree ==
  prm = "IDLE" /\ init_list_done =>
    /\ \A p \in Pages :
         LET w == att[p].loc.way  s == att[p].loc.slot
         IN  CASE att[p].sts \in {"UNCOMP", "INCOMP"} ->
                    /\ s = Frame
                    /\ EntryOf(w) \in Members(att[p].sts)
                    /\ lst[EntryOf(w)].attEntryId = p
               [] att[p].sts = "COMP" ->
                    /\ s \in Slots
                    /\ mem[w].iway = w
                    /\ HoldsPage(mem[w].md, p) = {s}
               [] OTHER -> TRUE
    /\ \A x \in {"UNCOMP", "INCOMP"} : \A e \in Members(x) :
         att[lst[e].attEntryId] = [sts |-> x, loc |-> At(WayOf(e), Frame)]
    /\ \A w \in Ways, s \in Slots :
         mem[w].md.pg_vld[s] /\ mem[w].iway = w =>
           att[mem[w].md.page[s]] = [sts |-> "COMP", loc |-> At(w, s)]

-----------------------------------------------------------------------------
(* The contents the ATT entry of p leads to.                               *)
Contents(p) == IF att[p].loc.slot = Frame
               THEN mem[att[p].loc.way].page
               ELSE mem[att[p].loc.way].slot[att[p].loc.slot]

(* Between two lookups, the ATT entry of every page that was ever accessed *)
(* leads to the latest contents of that page.                              *)
PagesKept ==
  prm = "IDLE" /\ init_list_done =>
    \A p \in Pages : att[p].sts # "DALLOC" => Contents(p) = p

(* At every instant, also between two writes of a compression or a         *)
(* decompression, the latest contents of every accessed page are in some   *)
(* way, some slot, or the FIFO on the way from one to the other.           *)
NeverLost ==
  init_list_done =>
    \A p \in Pages :
      \/ att[p].sts = "DALLOC"
      \/ req.page = p /\ req.fresh
      \/ fifo = p
      \/ \E w \in Ways : \/ mem[w].page = p
                         \/ \E s \in Slots : mem[w].slot[s] = p

(* No granted access ever hits a way that holds something else: until it   *)
(* is performed, the way it was sent to holds the page it is for.          *)
AccessHitsPage ==
  \A c \in Chans : acc[c] # NoAcc => mem[acc[c].way].page = acc[c].page

(* The decompression manager always finds the identity way of the zspage   *)
(* at the way the ATT names, in the first read, and its slot valid there.  *)
DecompressionFindsSlot ==
  prm = "DECOMPRESS" /\ dec \in {"IDLE", "NO_IWAY"} =>
    /\ dec # "NO_IWAY"
    /\ trnsl.loc.slot \in HoldsPage(mem[trnsl.loc.way].md, req.page)

(* The zspage way a decompression puts on the irregular free list was      *)
(* detached from it before, as PUSH_IFL says of it.                        *)
DetachedBeforePush ==
  dec = "PUSH_IFL" /\ pwm = "IDLE" =>
    EntryOf(zpkt.iWay_ptr) \notin Members("IFL_SIZE1")

(* A reason to park, as long as there are no more pages than fit: a table  *)
(* or metadata read failed, or an incompressible page takes up a way.      *)
ParkedForCause == \/ "BUS_ERROR" \in {prm, cmp, dec}
                  \/ Parked /\ \E p \in Pages : att[p].sts = "INCOMP"

(* A lookup is served unless the engine has a reason to park: it never     *)
(* livelocks between compressing and decompressing, nor does it give up    *)
(* while every page compresses and memory answers.                         *)
ServedOrParked == (prm = "LOOKUP_ATT") ~> (prm = "IDLE" \/ ParkedForCause)
=============================================================================
