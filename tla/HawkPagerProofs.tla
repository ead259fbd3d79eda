---------------------------- MODULE HawkPagerProofs ----------------------------
(***************************************************************************)
(* Proofs about the paging engine, for every set of pages and every number *)
(* of ways.  IInv is TypeOK with what keeps a register from being read     *)
(* when it holds nothing: who has the page writer, which manager runs, and *)
(* where a location is known to be a slot.                                 *)
(*                                                                         *)
(* The second half is about the engine with the compacter: the page writer *)
(* works for one manager at a time also while zspages are compacted, for   *)
(* every threshold and whatever the tables hold.                           *)
(***************************************************************************)
EXTENDS HawkCompact, TLAPS

(* What a lookup has established when its later states rely on it.         *)
LookupInv ==
  /\ prm # "IDLE" => req.page \in Pages
  /\ prm = "WAIT_LST_ENTRY" => ht.head["FREE"] # NULL
  /\ prm = "DECOMPRESS" => trnsl.sts = "COMP"
  /\ free_entry_avail => prm = "DECOMPRESS"
  /\ prm = "TBL_UPDATE" \/ free_entry_avail => AttSts(alloc) = "UNCOMP"

(* A compressed page's location is a slot, from the choice of the slot to  *)
(* the ATT entry and back.                                                 *)
AttSlots == pwm # "INIT_ATT" =>
              \A p \in Pages : att[p].sts = "COMP" => att[p].loc.slot \in Slots
TrnslSlot == trnsl.sts = "COMP" => trnsl.loc.slot \in Slots
UpdSlot == pwm = "ATT_UPDATE" /\ AttSts(upd) = "COMP" => upd.loc.slot \in Slots
CmpSlot ==
  /\ cmp \in {"UPDATE_ATT_POP_UCMP_HEAD", "TOL_UPDATE_FREEWAY_ENTRY"} =>
       zpkt.dest.slot \in Slots
  /\ cmp = "PREP_ZSPAGE_MD" /\ pwm # "IDLE" => zpkt.dest.slot \in Slots
  /\ cmp = "MIGRATE_TO_ZSPAGE" =>
       IF zpkt.zspage_full THEN pwm = "IDLE" ELSE zpkt.dest.slot \in Slots
DecWay ==
  dec \in {"BURST_READ", "DECOMP_WAIT", "FETCH_IFL_LST_ENTRY", "PUSH_IFL"} =>
    trnsl.loc.way \in Ways /\ zpkt.iWay_ptr \in Ways
SlotInv == AttSlots /\ TrnslSlot /\ UpdSlot /\ CmpSlot /\ DecWay

(* The victim about to be read is a way.                                   *)
VictimInv == cmp = "BURST_READ" => vic.way \in Ways

IInv == TypeOK /\ OneManager /\ LookupInv /\ SlotInv /\ VictimInv

-----------------------------------------------------------------------------
(* Operators on the data types.                                            *)

(* List entries and ways number each other.                                *)
LEMMA WayTypes ==
  /\ \A e \in Entries : WayOf(e) \in Ways
  /\ \A w \in Ways : EntryOf(w) \in Entries
  /\ NoWay \notin Ways
  /\ Entries \subseteq EntryOrNull /\ NULL \in EntryOrNull
  /\ \A e \in EntryOrNull : e # NULL => e \in Entries
BY ListAssumption, PpaAssumption
   DEF WayOf, EntryOf, Ways, Entries, EntryOrNull, NULL, NoWay

(* A zspage that is not full has a first free slot.                        *)
LEMMA FirstFreeSlot ==
  ASSUME NEW md \in ZsPg_Md, ~ AllValid(md)
  PROVE  FirstFree(md) \in Slots
<1> DEFINE Q(s) == /\ s \in Slots /\ ~ md.pg_vld[s]
                   /\ \A t \in Slots : t < s => md.pg_vld[t]
<1>1. Slots = {1, 2, 3}
  BY DEF Slots, MAX_PAGE_ZSPAGE
<1>2. Q(1) \/ Q(2) \/ Q(3)
  BY <1>1 DEF AllValid, ZsPg_Md
<1>3. \E s \in Slots : /\ ~ md.pg_vld[s]
                       /\ \A t \in Slots : t < s => md.pg_vld[t]
  BY <1>2
<1> QED BY <1>3 DEF FirstFree

(* The page packet of a compression is one, and its slot is a slot unless  *)
(* the zspage is full.                                                     *)
LEMMA FreeCpageTypes ==
  ASSUME NEW w \in Ways \cup {NoWay}, NEW md \in ZsPg_Md, NEW p \in PageOrNone
  PROVE  LET z == getFreeCpage_ZsPageiWay(w, md, p)
         IN  z \in ZsPkt /\ (~ z.zspage_full => z.dest.slot \in Slots)
<1>1. CASE AllValid(md)
  BY <1>1 DEF getFreeCpage_ZsPageiWay, NoZsPkt, ZsPkt, NoLoc, At, Loc
<1>2. CASE ~ AllValid(md)
  <2> DEFINE s == FirstFree(md)
             m == [pg_vld |-> [md.pg_vld EXCEPT ![s] = TRUE],
                   page |-> [md.page EXCEPT ![s] = p]]
  <2>1. s \in Slots
    BY <1>2, FirstFreeSlot
  <2>2. m \in ZsPg_Md
    BY DEF ZsPg_Md
  <2>3. AllValid(m) \in BOOLEAN
    BY DEF AllValid
  <2> HIDE DEF s, m
  <2>4. getFreeCpage_ZsPageiWay(w, md, p) =
          [dest |-> At(w, s), iWay_ptr |-> w, zsPgMd |-> m,
           zspage_full |-> FALSE, pp_ifl |-> AllValid(m), push_fl |-> FALSE]
    BY <1>2 DEF getFreeCpage_ZsPageiWay, s, m
  <2> QED BY <2>1, <2>2, <2>3, <2>4 DEF ZsPkt, At, Loc
<1> QED BY <1>1, <1>2

(* So is the page packet of a decompression.                               *)
LEMMA CpageFreeTypes ==
  ASSUME NEW w \in Ways, NEW md \in ZsPg_Md, NEW p \in Pages,
         NEW d \in Loc
  PROVE  LET z == [setCpageFree_ZsPageiWay(w, md, p) EXCEPT !.dest = d]
         IN  z \in ZsPkt /\ z.iWay_ptr = w
<1>1. ClearPage(md, p) \in ZsPg_Md
  BY DEF ClearPage, ZsPg_Md
<1>2. AllValid(md) \in BOOLEAN /\ NoneValid(ClearPage(md, p)) \in BOOLEAN
  BY DEF AllValid, NoneValid
<1> QED BY <1>1, <1>2 DEF setCpageFree_ZsPageiWay, ZsPkt

(* What a CPU write or a whole-page transfer leaves in a way.              *)
LEMMA RawFrameType ==
  ASSUME NEW p \in PageOrNone
  PROVE  RawFrame(p) \in MemWay
BY DEF RawFrame, MemWay, PageOrNone, NoMd, ZsPg_Md

(* The null packets, and the location of a way or slot.                    *)
LEMMA PktTypes == /\ NoPkt \in TolUpdPkt /\ NoZsPkt \in ZsPkt
                  /\ NoLoc \in Loc /\ NoTrnsl \in AttEntry
                  /\ \A w \in Ways \cup {NoWay} : At(w, Frame) \in Loc
<1>1. NoLoc \in Loc /\ \A w \in Ways \cup {NoWay} : At(w, Frame) \in Loc
  BY DEF NoLoc, Loc, At
<1>2. NoMd \in ZsPg_Md
  BY DEF NoMd, ZsPg_Md, PageOrNone
<1>3. NoPkt \in TolUpdPkt
  BY <1>1, WayTypes DEF NoPkt, TolUpdPkt, PageOrNone, TolLists, STS
<1>4. NoZsPkt \in ZsPkt
  BY <1>1, <1>2 DEF NoZsPkt, ZsPkt
<1>5. NoTrnsl \in AttEntry
  BY <1>1 DEF NoTrnsl, AttEntry, STS
<1> QED BY <1>1, <1>3, <1>4, <1>5

-----------------------------------------------------------------------------
(* The list writes keep table and registers in their types, whatever list  *)
(* the packet names.                                                       *)
LEMMA ListWriteTypes ==
  ASSUME NEW l \in [Entries -> ListEntry], NEW h \in HeadTail,
         NEW pkt \in TolUpdPkt
  PROVE  /\ SrcWrite(l, pkt) \in [Entries -> ListEntry]
         /\ DstWrite1(l, h, pkt) \in [Entries -> ListEntry]
         /\ DstWrite2(l, h, pkt) \in [Entries -> ListEntry]
<1> USE DEF ListEntry, TolUpdPkt
<1>1. SrcWrite(l, pkt) \in [Entries -> ListEntry]
  BY DEF SrcWrite
<1>2. DstWrite1(l, h, pkt) \in [Entries -> ListEntry]
  <2>1. /\ PushesTail(pkt) => h.tail[pkt.dst_list] \in EntryOrNull
        /\ PushesHead(pkt) => h.head[pkt.dst_list] \in EntryOrNull
    BY DEF PushesTail, PushesHead, HeadTail, Lists
  <2> QED BY <2>1, WayTypes DEF DstWrite1
<1>3. DstWrite2(l, h, pkt) \in [Entries -> ListEntry]
  BY DEF DstWrite2
<1> QED BY <1>1, <1>2, <1>3

LEMMA RegisterTypes ==
  ASSUME NEW h \in HeadTail, NEW pkt \in TolUpdPkt
  PROVE  /\ SrcEmptied(h, pkt) \in HeadTail
         /\ SrcRegs(h, pkt) \in HeadTail
         /\ DstRegs1(h, pkt) \in HeadTail
         /\ DstRegs2(h, pkt) \in HeadTail
<1> USE WayTypes DEF HeadTail, TolUpdPkt
<1>1. SrcEmptied(h, pkt) \in HeadTail
  BY DEF SrcEmptied
<1>2. SrcRegs(h, pkt) \in HeadTail
  BY DEF SrcRegs
<1>3. DstRegs1(h, pkt) \in HeadTail
  BY DEF DstRegs1
<1>4. DstRegs2(h, pkt) \in HeadTail
  BY DEF DstRegs2
<1> QED BY <1>1, <1>2, <1>3, <1>4

-----------------------------------------------------------------------------
(* Types, one manager at a time.                                           *)

(* What an action leaves alone keeps its type.                             *)
LEMMA SameTypes ==
  ASSUME TypeOK
  PROVE  /\ UNCHANGED tables => TablesType'
         /\ UNCHANGED mem => MemType'
         /\ UNCHANGED writer => WriterType'
         /\ UNCHANGED zpkt => (zpkt \in ZsPkt)'
         /\ UNCHANGED reader => ReaderType'
         /\ UNCHANGED comp => CompType'
         /\ UNCHANGED fifo => (fifo \in PageOrNone)'
         /\ UNCHANGED dec => DecType'
         /\ UNCHANGED acc => AccType'
BY DEF TypeOK, TablesType, MemType, WriterType, ReaderType, CompType, DecType,
       AccType, tables, writer, reader, comp

(* The page writer's own steps.                                            *)
LEMMA WriterTypes == TypeOK /\ PwmStep => TypeOK'
<1> SUFFICES ASSUME TypeOK, PwmStep PROVE TypeOK' OBVIOUS
<1>0. UNCHANGED <<zpkt, reader, comp, fifo, dec, acc>>
  BY DEF PwmStep, InitAtt, InitList, PwmAttUpdate, PwmSlstUpdate,
         PwmDlstUpdate1, PwmDlstUpdate2, PwmPageTransfer, PwmZsPageUpdate
<1> SUFFICES TablesType' /\ MemType' /\ WriterType'
  BY <1>0, SameTypes DEF TypeOK
<1>1. /\ att \in [Pages -> AttEntry] /\ lst \in [Entries -> ListEntry]
      /\ ht \in HeadTail /\ mem \in [Ways -> MemWay]
      /\ etry_cnt \in 1 .. ListEntryCnt + 1 /\ upd \in TolUpdPkt
      /\ fifo \in PageOrNone /\ zpkt \in ZsPkt
  BY DEF TypeOK, TablesType, MemType, WriterType
<1> USE DEF TablesType, MemType, WriterType
<1>2. CASE InitAtt
  <2>1. att' \in [Pages -> AttEntry]
    BY <1>2, PktTypes DEF InitAtt, AttEntry, STS
  <2>2. ht' \in HeadTail
    BY <1>1, <1>2, ListAssumption DEF InitAtt, HeadTail, EntryOrNull, Lists
  <2> QED BY <1>1, <1>2, <2>1, <2>2 DEF InitAtt
<1>3. CASE InitList
  <2>1. CASE etry_cnt <= ListEntryCnt
    <3>1. /\ etry_cnt \in Nat /\ etry_cnt' \in 1 .. ListEntryCnt + 1
          /\ etry_cnt - 1 \in EntryOrNull
          /\ (IF etry_cnt = ListEntryCnt THEN NULL ELSE etry_cnt + 1) \in EntryOrNull
      BY <1>1, <1>3, <2>1, ListAssumption DEF InitList, EntryOrNull, NULL
    <3>2. lst' \in [Entries -> ListEntry]
      BY <1>1, <1>3, <2>1, <3>1 DEF InitList, ListEntry, PageOrNone
    <3> QED BY <1>1, <1>3, <2>1, <3>1, <3>2 DEF InitList
  <2>2. CASE ~ (etry_cnt <= ListEntryCnt)
    <3>1. etry_cnt - 1 \in EntryOrNull
      BY <1>1, <2>2, ListAssumption DEF EntryOrNull
    <3>2. ht' \in HeadTail
      BY <1>1, <1>3, <2>2, <3>1 DEF InitList, HeadTail, Lists
    <3> QED BY <1>1, <1>3, <2>2, <3>2 DEF InitList
  <2> QED BY <2>1, <2>2
<1>4. CASE PwmAttUpdate
  <2>1. [sts |-> AttSts(upd), loc |-> upd.loc] \in AttEntry
    BY <1>1 DEF AttEntry, AttSts, STS, TolUpdPkt
  <2>2. ht' \in HeadTail
    BY <1>1, <1>4, RegisterTypes DEF PwmAttUpdate
  <2> QED BY <1>1, <1>4, <2>1, <2>2 DEF PwmAttUpdate
<1>5. CASE PwmSlstUpdate
  BY <1>1, <1>5, RegisterTypes, ListWriteTypes DEF PwmSlstUpdate
<1>6. CASE PwmDlstUpdate1
  BY <1>1, <1>6, RegisterTypes, ListWriteTypes DEF PwmDlstUpdate1
<1>7. CASE PwmDlstUpdate2
  BY <1>1, <1>7, RegisterTypes, ListWriteTypes DEF PwmDlstUpdate2
<1>8. CASE PwmPageTransfer
  <2>1. mem' \in [Ways -> MemWay]
    <3>1. CASE prm = "COMPRESS"
      <4> DEFINE w == zpkt.dest.way
                 new == [mem[w] EXCEPT !.page = NoPage,
                                       !.slot[zpkt.dest.slot] = fifo]
      <4>1. w \in Ways => new \in MemWay
        BY <1>1 DEF MemWay, PageOrNone
      <4>2. mem' = [mem EXCEPT ![w] = new]
        BY <1>8, <3>1 DEF PwmPageTransfer
      <4> HIDE DEF w, new
      <4> QED BY <1>1, <4>1, <4>2
    <3>2. CASE prm # "COMPRESS"
      BY <1>1, <1>8, <3>2, RawFrameType DEF PwmPageTransfer
    <3> QED BY <3>1, <3>2
  <2> QED BY <1>1, <1>8, <2>1 DEF PwmPageTransfer, tables
<1>9. CASE PwmZsPageUpdate
  <2> DEFINE w == zpkt.iWay_ptr
             new == [page |-> NoPage,
                     slot |-> [s \in Slots |-> IF zpkt.zsPgMd.pg_vld[s]
                                               THEN mem[w].slot[s] ELSE NoPage],
                     iway |-> w, md |-> zpkt.zsPgMd]
  <2>1. w \in Ways => new \in MemWay
    BY <1>1 DEF MemWay, PageOrNone, ZsPkt
  <2>2. mem' = [mem EXCEPT ![w] = new]
    BY <1>9 DEF PwmZsPageUpdate
  <2> HIDE DEF w, new
  <2>3. mem' \in [Ways -> MemWay]
    BY <1>1, <2>1, <2>2
  <2> QED BY <1>1, <1>9, <2>3 DEF PwmZsPageUpdate, tables
<1> QED BY <1>2, <1>3, <1>4, <1>5, <1>6, <1>7, <1>8, <1>9 DEF PwmStep

(* A grant leaves the page read manager's registers, the access and the    *)
(* way in their types.                                                     *)
LEMMA GrantTypes ==
  ASSUME TypeOK, NEW w \in Ways \cup {NoWay}, Grant(w),
         UNCHANGED free_entry_avail \/ free_entry_avail' = FALSE
  PROVE  ReaderType' /\ MemType' /\ AccType'
<1>1. req.page \in PageOrNone /\ req.chan \in Chans
      /\ mem \in [Ways -> MemWay] /\ free_entry_avail \in BOOLEAN
      /\ acc \in [Chans -> [page : PageOrNone, way : Ways \cup {NoWay}]]
  BY DEF TypeOK, ReaderType, MemType, AccType
<1>2. NoReq \in [chan : Chans, page : PageOrNone, fresh : BOOLEAN]
  BY PagerAssumption DEF NoReq, PageOrNone
<1>3. ReaderType'
  BY <1>1, <1>2, PktTypes DEF Grant, ReaderType
<1>4. MemType'
  BY <1>1, RawFrameType DEF Grant, MemType
<1>5. AccType'
  BY <1>1 DEF Grant, AccType
<1> QED BY <1>3, <1>4, <1>5

LEMMA ReaderTypes == IInv /\ PrmStep => TypeOK'
<1> SUFFICES ASSUME IInv, PrmStep PROVE TypeOK' OBVIOUS
<1>0. TypeOK
  BY DEF IInv
<1>1. /\ req \in [chan : Chans, page : PageOrNone, fresh : BOOLEAN]
      /\ trnsl \in AttEntry /\ alloc \in TolUpdPkt
      /\ fw \in Ways \cup {NoWay} /\ free_entry_avail \in BOOLEAN
      /\ att \in [Pages -> AttEntry] /\ lst \in [Entries -> ListEntry]
      /\ ht \in HeadTail
      /\ vic.way \in Ways \cup {NoWay} /\ uc \in Ways \cup {NoWay}
  BY <1>0 DEF TypeOK, ReaderType, TablesType, CompType
<1>2. trnsl.loc.way \in Ways \cup {NoWay}
  BY <1>1 DEF AttEntry, Loc
<1>3. CASE ReadAtt
  <2>1. att[req.page] \in AttEntry
    BY <1>1, <1>3 DEF IInv, LookupInv, ReadAtt
  <2>2. ReaderType'
    BY <1>1, <1>3, <2>1 DEF ReadAtt, ReaderType
  <2> QED BY <1>0, <1>3, <2>2, SameTypes DEF ReadAtt, TypeOK
<1>4. CASE Hit
  <2>1. ReaderType' /\ MemType' /\ AccType'
    BY <1>0, <1>2, <1>4, GrantTypes DEF Hit
  <2> QED BY <1>0, <1>4, <2>1, SameTypes DEF Hit, TypeOK
<1>5. CASE Miss \/ TakeFreeEntry \/ NeedVictim
  <2>1. ReaderType'
    BY <1>1, <1>5 DEF Miss, TakeFreeEntry, NeedVictim, ReaderType
  <2> QED BY <1>0, <1>5, <2>1, SameTypes DEF Miss, TakeFreeEntry, NeedVictim, TypeOK
<1>6. CASE DecodeLstEntry
  <2> DEFINE e == ht.head["FREE"]
             pkt == get_Tolpkt(e, req.page)
  <2>1. e \in Entries
    BY <1>1, <1>6, WayTypes DEF IInv, LookupInv, DecodeLstEntry, HeadTail, Lists
  <2>2. pkt \in TolUpdPkt /\ pkt.loc \in Loc /\ pkt.loc.way \in Ways
    <3> HIDE DEF e
    <3>1. WayOf(e) \in Ways /\ At(WayOf(e), Frame) \in Loc
          /\ At(WayOf(e), Frame).way = WayOf(e)
      BY <2>1, WayTypes, PktTypes DEF At
    <3>2. lst[e].prev \in EntryOrNull /\ lst[e].next \in EntryOrNull
          /\ e \in EntryOrNull
      BY <1>1, <2>1, WayTypes DEF ListEntry
    <3> QED BY <1>1, <3>1, <3>2, PktTypes
            DEF get_Tolpkt, TolUpdPkt, NoPkt, TolLists, Lists
  <2>3. ReaderType'
    <3> HIDE DEF pkt
    <3>1. [sts |-> "UNCOMP", loc |-> pkt.loc] \in AttEntry
      BY <2>2 DEF AttEntry, STS
    <3>2. /\ alloc' = pkt
          /\ \/ /\ fw' = pkt.loc.way /\ free_entry_avail' = TRUE
                /\ prm' = "DECOMPRESS" /\ trnsl' = trnsl
             \/ /\ trnsl' = [sts |-> "UNCOMP", loc |-> pkt.loc]
                /\ prm' = "TBL_UPDATE" /\ fw' = fw
                /\ free_entry_avail' = free_entry_avail
          /\ req' = req
      BY <1>6 DEF DecodeLstEntry, pkt
    <3> QED BY <1>1, <2>2, <3>1, <3>2 DEF ReaderType
  <2> QED BY <1>0, <1>6, <2>3, SameTypes DEF DecodeLstEntry, TypeOK
<1>7. CASE SendTblUpdate
  <2>1. WriterType' /\ UNCHANGED <<tables, mem>>
    BY <1>0, <1>1, <1>7 DEF SendTblUpdate, SendUpdate, WriterType, TypeOK
  <2>2. ReaderType'
    BY <1>1, <1>7 DEF SendTblUpdate, ReaderType
  <2> QED BY <1>0, <1>7, <2>1, <2>2, SameTypes DEF SendTblUpdate, TypeOK
<1>8. CASE TblUpdateDone
  <2>1. ReaderType' /\ MemType' /\ AccType'
    BY <1>0, <1>2, <1>8, GrantTypes DEF TblUpdateDone
  <2>2. WriterType'
    BY <1>0, <1>8, PktTypes DEF TblUpdateDone, WriterType, TypeOK
  <2> QED BY <1>0, <1>8, <2>1, <2>2, SameTypes DEF TblUpdateDone, TypeOK
<1>9. CASE CompressDone
  <2>1. NoVictim \in [way : Ways \cup {NoWay}, attEntryId : PageOrNone,
                     prev : EntryOrNull, next : EntryOrNull]
    BY WayTypes DEF NoVictim, PageOrNone
  <2>2. CompType' /\ (zpkt \in ZsPkt)' /\ (fifo \in PageOrNone)'
    BY <1>1, <1>9, <2>1, PktTypes DEF CompressDone, CompType, PageOrNone
  <2>3. ReaderType' /\ MemType' /\ AccType'
    <3>1. CASE trnsl.sts = "COMP"
      BY <1>0, <1>1, <1>9, <3>1, SameTypes DEF CompressDone, ReaderType
    <3>2. CASE trnsl.sts # "COMP"
      BY <1>0, <1>1, <1>9, <3>2, GrantTypes DEF CompressDone
    <3> QED BY <3>1, <3>2
  <2> QED BY <1>0, <1>9, <2>2, <2>3, SameTypes DEF CompressDone, TypeOK
<1>10. CASE DecompressDone
  <2>1. DecType' /\ (zpkt \in ZsPkt)' /\ (fifo \in PageOrNone)'
    BY <1>10, PktTypes DEF DecompressDone, DecType, PageOrNone
  <2>2. ReaderType' /\ MemType' /\ AccType'
    <3>1. CASE free_entry_avail
      <4>1. [sts |-> "UNCOMP", loc |-> At(fw, Frame)] \in AttEntry
        BY <1>1, PktTypes DEF AttEntry, STS
      <4> QED BY <1>0, <1>1, <1>10, <3>1, <4>1, SameTypes
              DEF DecompressDone, ReaderType
    <3>2. CASE ~ free_entry_avail
      BY <1>0, <1>1, <1>10, <3>2, GrantTypes DEF DecompressDone
    <3> QED BY <3>1, <3>2
  <2> QED BY <1>0, <1>10, <2>1, <2>2, SameTypes DEF DecompressDone, TypeOK
<1> QED BY <1>3, <1>4, <1>5, <1>6, <1>7, <1>8, <1>9, <1>10 DEF PrmStep

(* Handing the writer a packet or a page, and taking it back.              *)
LEMMA SendTypes ==
  ASSUME TypeOK
  PROVE  /\ \A pkt \in TolUpdPkt :
              SendUpdate(pkt) => WriterType' /\ TablesType' /\ MemType'
         /\ SendPage \/ UpdateDone => WriterType' /\ TablesType' /\ MemType'
<1>1. UNCHANGED <<tables, mem>> => TablesType' /\ MemType'
  BY SameTypes
<1>2. \A pkt \in TolUpdPkt : SendUpdate(pkt) => WriterType'
  BY DEF TypeOK, WriterType, SendUpdate
<1>3. SendPage \/ UpdateDone => WriterType'
  BY PktTypes DEF TypeOK, WriterType, SendPage, UpdateDone
<1> QED BY <1>1, <1>2, <1>3 DEF SendUpdate, SendPage, UpdateDone

LEMMA CompTypes == IInv /\ CmpStep => TypeOK'
<1> SUFFICES ASSUME IInv, CmpStep PROVE TypeOK' OBVIOUS
<1>0. TypeOK
  BY DEF IInv
<1>1. /\ vic \in [way : Ways \cup {NoWay}, attEntryId : PageOrNone,
                  prev : EntryOrNull, next : EntryOrNull]
      /\ uc \in Ways \cup {NoWay} /\ zpkt \in ZsPkt /\ fifo \in PageOrNone
      /\ mem \in [Ways -> MemWay] /\ lst \in [Entries -> ListEntry]
      /\ req.page \in PageOrNone
  BY <1>0 DEF TypeOK, CompType, MemType, TablesType, ReaderType
<1>2. ht.head["UNCOMP"] \in EntryOrNull
  BY <1>0 DEF TypeOK, TablesType, HeadTail, Lists
<1>3. UNCHANGED <<reader, dec, acc>>
  BY DEF CmpStep, cmp_idle_others, CmpPeek, CmpBurstRead, CmpIncompressible,
         SendIncomp, IncompDone, StartZspage, FetchZspage, PrepZspage, PrepDone,
         SendPopUcmp, PopUcmpDone, SendMigrate, MigrateDone, SendFreewayTol,
         FreewayTolDone, SendFreewayAtt, FreewayAttDone
<1>4. SUFFICES /\ TablesType' /\ MemType' /\ WriterType' /\ CompType'
               /\ (zpkt \in ZsPkt)' /\ (fifo \in PageOrNone)'
  BY <1>0, <1>3, SameTypes DEF TypeOK
<1>5. NoVictim \in [way : Ways \cup {NoWay}, attEntryId : PageOrNone,
                   prev : EntryOrNull, next : EntryOrNull]
      /\ NoPage \in PageOrNone
  BY WayTypes DEF NoVictim, PageOrNone
<1>6. CASE CmpPeek
  <2>1. CASE ht.head["UNCOMP"] = NULL
    BY <1>0, <1>1, <1>6, <2>1, SameTypes DEF CmpPeek, CompType
  <2>2. CASE ht.head["UNCOMP"] # NULL
    <3> DEFINE e == ht.head["UNCOMP"]
    <3>1. e \in Entries /\ WayOf(e) \in Ways
      BY <1>2, <2>2, WayTypes
    <3>2. lst[e] \in ListEntry
      BY <1>1, <3>1
    <3>3. CompType'
      BY <1>1, <1>6, <2>2, <3>1, <3>2 DEF CmpPeek, CompType, ListEntry
    <3> QED BY <1>0, <1>6, <3>3, SameTypes DEF CmpPeek, TypeOK
  <2> QED BY <2>1, <2>2
<1>7. CASE CmpBurstRead
  <2>1. CompType'
    BY <1>1, <1>7 DEF CmpBurstRead, CompType
  <2>2. fifo' \in PageOrNone
    BY <1>0, <1>1, <1>7 DEF CmpBurstRead, MemWay, IInv, VictimInv
  <2> QED BY <1>0, <1>7, <2>1, <2>2, SameTypes DEF CmpBurstRead, TypeOK
<1>8. CASE CmpIncompressible
  BY <1>0, <1>1, <1>5, <1>8, SameTypes DEF CmpIncompressible, CompType, TypeOK
<1>9. CASE SendIncomp
  <2> DEFINE pkt == [NoPkt EXCEPT
               !.attEntryId = vic.attEntryId, !.tolEntryId = ht.head["UNCOMP"],
               !.loc = At(vic.way, Frame), !.owner = vic.attEntryId,
               !.prev = vic.prev, !.next = vic.next,
               !.src_list = "UNCOMP", !.dst_list = "INCOMP"]
  <2>1. pkt \in TolUpdPkt
    BY <1>1, <1>2, PktTypes DEF TolUpdPkt, NoPkt, TolLists, Lists
  <2>2. SendUpdate(pkt) /\ UNCHANGED <<zpkt, comp, fifo>>
    BY <1>9 DEF SendIncomp
  <2> HIDE DEF pkt
  <2> QED BY <1>0, <2>1, <2>2, SendTypes, SameTypes DEF TypeOK
<1>10. CASE SendPopUcmp
  <2> DEFINE pkt == [NoPkt EXCEPT
               !.attEntryId = vic.attEntryId, !.tolEntryId = ht.head["UNCOMP"],
               !.loc = zpkt.dest, !.prev = vic.prev, !.next = vic.next,
               !.src_list = "UNCOMP", !.dst_list = "NULLIFY"]
  <2>1. pkt \in TolUpdPkt
    BY <1>1, <1>2, PktTypes DEF TolUpdPkt, NoPkt, TolLists, Lists, ZsPkt
  <2>2. SendUpdate(pkt) /\ UNCHANGED <<zpkt, comp, fifo>>
    BY <1>10 DEF SendPopUcmp
  <2> HIDE DEF pkt
  <2> QED BY <1>0, <2>1, <2>2, SendTypes, SameTypes DEF TypeOK
<1>11. CASE SendFreewayTol
  <2> DEFINE pkt == [NoPkt EXCEPT
               !.attEntryId = vic.attEntryId, !.tolEntryId = ht.head["UNCOMP"],
               !.loc = zpkt.dest, !.owner = req.page,
               !.prev = vic.prev, !.next = vic.next,
               !.src_list = "UNCOMP", !.dst_list = "UNCOMP"]
  <2>1. pkt \in TolUpdPkt
    BY <1>1, <1>2, PktTypes DEF TolUpdPkt, NoPkt, TolLists, Lists, ZsPkt
  <2>2. SendUpdate(pkt) /\ UNCHANGED <<zpkt, comp, fifo>>
    BY <1>11 DEF SendFreewayTol
  <2> HIDE DEF pkt
  <2> QED BY <1>0, <2>1, <2>2, SendTypes, SameTypes DEF TypeOK
<1>12. CASE SendFreewayAtt
  <2> DEFINE pkt == [NoPkt EXCEPT
               !.attEntryId = req.page, !.loc = At(vic.way, Frame),
               !.ATT_UPDATE_ONLY = TRUE, !.ATT_STS = "UNCOMP"]
  <2>1. pkt \in TolUpdPkt
    BY <1>1, PktTypes DEF TolUpdPkt, NoPkt, STS
  <2>2. SendUpdate(pkt) /\ UNCHANGED <<zpkt, comp, fifo>>
    BY <1>12 DEF SendFreewayAtt
  <2> HIDE DEF pkt
  <2> QED BY <1>0, <2>1, <2>2, SendTypes, SameTypes DEF TypeOK
<1>13. CASE \/ IncompDone \/ PrepDone \/ PopUcmpDone \/ MigrateDone
            \/ FreewayTolDone \/ FreewayAttDone
  <2>1. UpdateDone
    BY <1>13 DEF IncompDone, PrepDone, PopUcmpDone, MigrateDone, FreewayTolDone,
                 FreewayAttDone
  <2>2. CompType' /\ (zpkt \in ZsPkt)' /\ (fifo \in PageOrNone)'
    BY <1>1, <1>5, <1>13, PktTypes
       DEF IncompDone, PrepDone, PopUcmpDone, MigrateDone, FreewayTolDone,
           FreewayAttDone, CompType
  <2> QED BY <1>0, <2>1, <2>2, SendTypes
<1>14. CASE StartZspage
  <2>1. CompType'
    BY <1>1, <1>14 DEF StartZspage, CompType
  <2> QED BY <1>0, <1>14, <2>1, SameTypes DEF StartZspage, TypeOK
<1>15. CASE FetchZspage
  <2>1. CompType'
    BY <1>1, <1>15 DEF FetchZspage, CompType
  <2>2. mem[uc] \in MemWay
    BY <1>1, <1>15 DEF FetchZspage
  <2>3. zpkt' \in ZsPkt
    BY <1>1, <1>15, <2>2, FreeCpageTypes DEF FetchZspage, MemWay
  <2> QED BY <1>0, <1>15, <2>1, <2>3, SameTypes DEF FetchZspage, TypeOK
<1>16. CASE PrepZspage
  <2>1. At(vic.way, 1) \in Loc
    BY <1>1 DEF At, Loc, Slots, MAX_PAGE_ZSPAGE
  <2>2. [NoMd EXCEPT !.pg_vld[1] = TRUE, !.page[1] = vic.attEntryId] \in ZsPg_Md
    BY <1>1 DEF NoMd, ZsPg_Md, PageOrNone
  <2>3. zpkt' \in ZsPkt
    BY <1>1, <1>16, <2>1, <2>2 DEF PrepZspage, ZsPkt, NoZsPkt
  <2> QED BY <1>0, <1>16, <2>3, SendTypes, SameTypes DEF PrepZspage, TypeOK
<1>17. CASE SendMigrate
  BY <1>0, <1>17, SendTypes, SameTypes DEF SendMigrate, TypeOK
<1> QED BY <1>6, <1>7, <1>8, <1>9, <1>10, <1>11, <1>12, <1>13, <1>14, <1>15,
           <1>16, <1>17 DEF CmpStep

LEMMA DecTypes == IInv /\ DecStep => TypeOK'
<1> SUFFICES ASSUME IInv, DecStep PROVE TypeOK' OBVIOUS
<1>0. TypeOK
  BY DEF IInv
<1>1. /\ zpkt \in ZsPkt /\ fifo \in PageOrNone /\ trnsl \in AttEntry
      /\ mem \in [Ways -> MemWay] /\ lst \in [Entries -> ListEntry]
      /\ fw \in Ways \cup {NoWay}
  BY <1>0 DEF TypeOK, MemType, TablesType, ReaderType
<1>2. UNCHANGED <<reader, comp, acc>>
  BY DEF DecStep, dec_idle_others, DecFetchIway, DecBurstRead, SendDecompressed,
         DecompressedDone, FetchIflLstEntry, SendPushIfl, PushIflDone
<1>3. SUFFICES /\ TablesType' /\ MemType' /\ WriterType' /\ DecType'
               /\ (zpkt \in ZsPkt)' /\ (fifo \in PageOrNone)'
  BY <1>0, <1>2, SameTypes DEF TypeOK
<1>4. CASE DecFetchIway
  <2> DEFINE w == trnsl.loc.way
  <2>1. CASE w \in Ways /\ mem[w].iway = w
    <3>1. mem[w].md \in ZsPg_Md
      BY <1>1, <2>1 DEF MemWay
    <3>2. At(fw, Frame) \in Loc
      BY <1>1, PktTypes
    <3>3. req.page \in Pages
      BY <1>4 DEF DecFetchIway, IInv, LookupInv
    <3>4. /\ zpkt' = [setCpageFree_ZsPageiWay(w, mem[w].md, req.page)
                        EXCEPT !.dest = At(fw, Frame)]
          /\ dec' = "BURST_READ"
      BY <1>4, <2>1 DEF DecFetchIway
    <3>5. zpkt' \in ZsPkt
      <4> HIDE DEF w
      <4> QED BY <2>1, <3>1, <3>2, <3>3, <3>4, CpageFreeTypes
    <3> QED BY <1>0, <1>4, <3>4, <3>5, SameTypes DEF DecFetchIway, DecType, TypeOK
  <2>2. CASE ~ (w \in Ways /\ mem[w].iway = w)
    BY <1>0, <1>4, <2>2, SameTypes DEF DecFetchIway, DecType, TypeOK
  <2> QED BY <2>1, <2>2
<1>5. CASE DecBurstRead
  <2>1. trnsl.loc.way \in Ways /\ trnsl.loc.slot \in Slots
    BY <1>0, <1>5 DEF DecBurstRead, IInv, OneManager, LookupInv, SlotInv,
                        TrnslSlot, DecWay
  <2>2. fifo' \in PageOrNone
    BY <1>1, <1>5, <2>1 DEF DecBurstRead, MemWay
  <2> QED BY <1>0, <1>5, <2>2, SameTypes DEF DecBurstRead, DecType, TypeOK
<1>6. CASE SendDecompressed
  BY <1>0, <1>6, SendTypes, SameTypes DEF SendDecompressed, TypeOK
<1>7. CASE DecompressedDone \/ PushIflDone
  <2>1. DecType' /\ UpdateDone /\ UNCHANGED <<zpkt, fifo>>
    BY <1>7 DEF DecompressedDone, PushIflDone, DecType
  <2> QED BY <1>0, <2>1, SendTypes, SameTypes DEF TypeOK
<1>8. CASE FetchIflLstEntry
  BY <1>0, <1>8, SameTypes DEF FetchIflLstEntry, DecType, TypeOK
<1>9. CASE SendPushIfl
  <2> DEFINE e == EntryOf(zpkt.iWay_ptr)
             pkt == [NoPkt EXCEPT
                       !.tolEntryId = e, !.loc = At(WayOf(e), Frame),
                       !.prev = lst[e].prev, !.next = lst[e].next,
                       !.TOL_UPDATE_ONLY = 2,
                       !.src_list = "IFL_DETACH", !.dst_list = "IFL_SIZE1"]
  <2>1. e \in Entries
    BY <1>9, WayTypes DEF SendPushIfl, IInv, SlotInv, DecWay
  <2>2. pkt \in TolUpdPkt
    <3> HIDE DEF e
    <3>1. At(WayOf(e), Frame) \in Loc
      BY <2>1, WayTypes, PktTypes
    <3>2. lst[e].prev \in EntryOrNull /\ lst[e].next \in EntryOrNull
          /\ e \in EntryOrNull
      BY <1>1, <2>1, WayTypes DEF ListEntry
    <3>3. 2 \in 0 .. 2 /\ {"IFL_DETACH", "IFL_SIZE1"} \subseteq TolLists
      BY DEF TolLists, Lists
    <3> QED BY <3>1, <3>2, <3>3, PktTypes DEF TolUpdPkt, NoPkt
  <2>3. SendUpdate(pkt) /\ UNCHANGED <<zpkt, fifo, dec>>
    BY <1>9 DEF SendPushIfl
  <2> HIDE DEF e, pkt
  <2> QED BY <1>0, <2>2, <2>3, SendTypes, SameTypes DEF TypeOK
<1> QED BY <1>4, <1>5, <1>6, <1>7, <1>8, <1>9 DEF DecStep

(* The steps around the managers.                                          *)
LEMMA OtherTypes ==
  ASSUME IInv,
         \/ \E c \in Chans, p \in Pages : Lookup(c, p)
         \/ ReadError \/ CpuRead \/ CpuWrite
  PROVE  TypeOK'
<1>0. TypeOK
  BY DEF IInv
<1>1. ASSUME NEW c \in Chans, NEW p \in Pages, Lookup(c, p) PROVE TypeOK'
  <2>1. ReaderType'
    BY <1>0, <1>1 DEF Lookup, ReaderType, TypeOK, PageOrNone
  <2> QED BY <1>0, <1>1, <2>1, SameTypes DEF Lookup, TypeOK
<1>2. CASE ReadError
  <2>1. ReaderType' /\ CompType' /\ DecType'
    BY <1>0, <1>2 DEF ReadError, ReaderType, CompType, DecType, TypeOK
  <2> QED BY <1>0, <1>2, <2>1, SameTypes DEF ReadError, TypeOK
<1>3. NoAcc \in [page : PageOrNone, way : Ways \cup {NoWay}]
  BY DEF NoAcc, PageOrNone
<1>4. CASE CpuRead
  <2>1. AccType'
    BY <1>0, <1>3, <1>4 DEF CpuRead, AccType, TypeOK
  <2> QED BY <1>0, <1>4, <2>1, SameTypes DEF CpuRead, TypeOK
<1>5. CASE CpuWrite
  <2> DEFINE p == acc["wr"].page
             stale(w) == [mem[w] EXCEPT
                            !.page = IF @ = p THEN NoPage ELSE @,
                            !.slot = [s \in Slots |->
                                        IF @[s] = p THEN NoPage ELSE @[s]]]
  <2>1. p \in PageOrNone /\ fifo \in PageOrNone /\ mem \in [Ways -> MemWay]
    BY <1>0, <1>5 DEF CpuWrite, AccType, MemType, TypeOK
  <2>2. AccType'
    BY <1>0, <1>3, <1>5 DEF CpuWrite, AccType, TypeOK
  <2>3. \A w \in Ways : stale(w) \in MemWay
    <3> HIDE DEF p
    <3> QED BY <2>1 DEF MemWay, PageOrNone
  <2>4. \A w \in Ways : mem'[w] \in {RawFrame(p), stale(w)}
    BY <1>5 DEF CpuWrite
  <2>5. mem' = [w \in Ways |-> mem'[w]]
    BY <1>5 DEF CpuWrite
  <2>6. MemType'
    <3> HIDE DEF p, stale
    <3> QED BY <2>1, <2>3, <2>4, <2>5, RawFrameType DEF MemType
  <2>7. fifo' \in PageOrNone
    BY <1>5, <2>1 DEF CpuWrite, PageOrNone
  <2> QED BY <1>0, <1>5, <2>2, <2>6, <2>7, SameTypes DEF CpuWrite, TypeOK
<1> QED BY <1>1, <1>2, <1>4, <1>5

(* Every step keeps the types.                                             *)
LEMMA TypeStep == IInv /\ Next => TypeOK'
<1> SUFFICES ASSUME IInv, Next PROVE TypeOK' OBVIOUS
<1>1. CASE PwmStep
  BY <1>1, WriterTypes DEF IInv
<1>2. CASE PrmStep \/ CmpStep \/ DecStep
  BY <1>2, ReaderTypes, CompTypes, DecTypes
<1>3. CASE StayParked
  BY <1>3, SameTypes DEF StayParked, vars, IInv, TypeOK
<1>4. CASE \/ \E c \in Chans, p \in Pages : Lookup(c, p)
           \/ ReadError \/ CpuRead \/ CpuWrite
  BY <1>4, OtherTypes
<1> QED BY <1>1, <1>2, <1>3, <1>4 DEF Next, ManagerStep

-----------------------------------------------------------------------------
(* One manager at a time.                                                  *)
LEMMA OneManagerStep == IInv /\ Next => OneManager'
<1> SUFFICES ASSUME OneManager, Next PROVE OneManager'
  BY DEF IInv
<1> USE DEF OneManager, init_list_done, WriterBusy, PrmWaits, CmpWaits, DecWaits,
            writer, reader, comp
<1>1. CASE PwmStep
  <2>1. UNCHANGED <<reader, comp, dec>>
    BY <1>1 DEF PwmStep, InitAtt, InitList, PwmAttUpdate, PwmSlstUpdate,
                PwmDlstUpdate1, PwmDlstUpdate2, PwmPageTransfer, PwmZsPageUpdate
  <2>2. CASE InitAtt \/ InitList
    BY <2>1, <2>2 DEF InitAtt, InitList
  <2>3. \/ WriterBusy /\ pwm' \notin {"INIT_ATT", "INIT_LIST"}
        \/ InitAtt \/ InitList
    BY <1>1 DEF PwmStep, PwmAttUpdate, PwmSlstUpdate,
                PwmDlstUpdate1, PwmDlstUpdate2, PwmPageTransfer, PwmZsPageUpdate
  <2> QED BY <2>1, <2>2, <2>3
<1>2. CASE PrmStep
  <2>1. CASE ReadAtt \/ Miss \/ TakeFreeEntry \/ NeedVictim \/ DecodeLstEntry
    BY <2>1 DEF ReadAtt, Miss, TakeFreeEntry, NeedVictim, DecodeLstEntry
  <2>2. CASE Hit
    BY <2>2 DEF Hit, Grant
  <2>3. CASE SendTblUpdate
    BY <2>3 DEF SendTblUpdate, SendUpdate
  <2>4. CASE TblUpdateDone
    BY <2>4 DEF TblUpdateDone, Grant
  <2>5. CASE CompressDone
    BY <2>5 DEF CompressDone, Grant
  <2>6. CASE DecompressDone
    BY <2>6 DEF DecompressDone, Grant
  <2> QED BY <1>2, <2>1, <2>2, <2>3, <2>4, <2>5, <2>6 DEF PrmStep
<1>3. CASE CmpStep
  <2>1. UNCHANGED <<reader, dec>>
    BY <1>3 DEF CmpStep, cmp_idle_others, CmpPeek, CmpBurstRead,
         CmpIncompressible, SendIncomp, IncompDone, StartZspage, FetchZspage,
         PrepZspage, PrepDone, SendPopUcmp, PopUcmpDone, SendMigrate, MigrateDone,
         SendFreewayTol, FreewayTolDone, SendFreewayAtt, FreewayAttDone
  <2>2. prm = "COMPRESS" /\ dec = "IDLE"
    BY <1>3 DEF CmpStep, CmpPeek, CmpBurstRead,
         CmpIncompressible, SendIncomp, IncompDone, StartZspage, FetchZspage,
         PrepZspage, PrepDone, SendPopUcmp, PopUcmpDone, SendMigrate, MigrateDone,
         SendFreewayTol, FreewayTolDone, SendFreewayAtt, FreewayAttDone
  <2>3. pwm' \notin {"INIT_ATT", "INIT_LIST"} /\ (WriterBusy' => CmpWaits')
    <3>1. CASE CmpPeek \/ CmpBurstRead \/ CmpIncompressible \/ StartZspage
               \/ FetchZspage
      BY <2>2, <3>1 DEF CmpPeek, CmpBurstRead, CmpIncompressible, StartZspage,
                        FetchZspage
    <3>2. CASE SendIncomp \/ PrepZspage \/ SendPopUcmp \/ SendMigrate
               \/ SendFreewayTol \/ SendFreewayAtt
      BY <3>2 DEF SendIncomp, PrepZspage, SendPopUcmp, SendMigrate,
                  SendFreewayTol, SendFreewayAtt, SendUpdate, SendPage
    <3>3. CASE IncompDone \/ PrepDone \/ PopUcmpDone \/ MigrateDone
               \/ FreewayTolDone \/ FreewayAttDone
      BY <3>3 DEF IncompDone, PrepDone, PopUcmpDone, MigrateDone,
                  FreewayTolDone, FreewayAttDone, UpdateDone
    <3> QED BY <1>3, <3>1, <3>2, <3>3 DEF CmpStep
  <2> QED BY <2>1, <2>2, <2>3
<1>4. CASE DecStep
  <2>1. UNCHANGED <<reader, comp>>
    BY <1>4 DEF DecStep, dec_idle_others, DecFetchIway, DecBurstRead,
         SendDecompressed, DecompressedDone, FetchIflLstEntry, SendPushIfl,
         PushIflDone
  <2>2. prm = "DECOMPRESS" /\ cmp = "IDLE"
    BY <1>4 DEF DecStep, DecFetchIway, DecBurstRead,
         SendDecompressed, DecompressedDone, FetchIflLstEntry, SendPushIfl,
         PushIflDone
  <2>3. pwm' \notin {"INIT_ATT", "INIT_LIST"} /\ (WriterBusy' => DecWaits')
    <3>1. CASE DecFetchIway \/ DecBurstRead \/ FetchIflLstEntry
      BY <2>2, <3>1 DEF DecFetchIway, DecBurstRead, FetchIflLstEntry
    <3>2. CASE SendDecompressed \/ SendPushIfl
      BY <3>2 DEF SendDecompressed, SendPushIfl, SendUpdate, SendPage
    <3>3. CASE DecompressedDone \/ PushIflDone
      BY <3>3 DEF DecompressedDone, PushIflDone, UpdateDone
    <3> QED BY <1>4, <3>1, <3>2, <3>3 DEF DecStep
  <2> QED BY <2>1, <2>2, <2>3
<1>5. CASE \E c \in Chans, p \in Pages : Lookup(c, p)
  BY <1>5 DEF Lookup
<1>6. CASE ReadError
  BY <1>6 DEF ReadError
<1>7. CASE CpuRead \/ CpuWrite \/ StayParked
  BY <1>7 DEF CpuRead, CpuWrite, StayParked, vars
<1> QED BY <1>1, <1>2, <1>3, <1>4, <1>5, <1>6, <1>7 DEF Next, ManagerStep

(* What each kind of step leaves alone.                                    *)
LEMMA WriterFrame ==
  PwmStep => /\ UNCHANGED <<zpkt, reader, comp, fifo, dec, acc>>
             /\ UNCHANGED upd /\ pwm # "IDLE"
BY DEF PwmStep, InitAtt, InitList, PwmAttUpdate, PwmSlstUpdate, PwmDlstUpdate1,
       PwmDlstUpdate2, PwmPageTransfer, PwmZsPageUpdate

LEMMA CompFrame ==
  OneManager /\ CmpStep => UNCHANGED <<tables, reader, dec, acc>> /\ prm = "COMPRESS"
BY DEF CmpStep, cmp_idle_others, SendUpdate, SendPage, UpdateDone, CmpPeek,
       CmpBurstRead, CmpIncompressible, SendIncomp, IncompDone, StartZspage,
       FetchZspage, PrepZspage, PrepDone, SendPopUcmp, PopUcmpDone, SendMigrate,
       MigrateDone, SendFreewayTol, FreewayTolDone, SendFreewayAtt,
       FreewayAttDone, OneManager

LEMMA DecFrame == DecStep => UNCHANGED <<tables, reader, comp, acc>>
BY DEF DecStep, dec_idle_others, SendUpdate, SendPage, UpdateDone, DecFetchIway,
       DecBurstRead, SendDecompressed, DecompressedDone, FetchIflLstEntry,
       SendPushIfl, PushIflDone

(* What the read manager's states rely on.                                 *)
LEMMA LookupStep == IInv /\ Next => LookupInv'
<1> SUFFICES ASSUME IInv, Next PROVE LookupInv' OBVIOUS
<1>0. OneManager /\ LookupInv
  BY DEF IInv
<1>9. UNCHANGED alloc => AttSts(alloc)' = AttSts(alloc)
  BY DEF AttSts
<1> USE DEF LookupInv, reader, tables
<1>1. CASE PwmStep
  <2>1. UNCHANGED reader /\ prm # "WAIT_LST_ENTRY"
    BY <1>0, <1>1, WriterFrame
       DEF OneManager, init_list_done, WriterBusy, PrmWaits, CmpWaits, DecWaits
  <2> QED BY <1>0, <2>1 DEF AttSts
<1>2. CASE CmpStep \/ DecStep
  BY <1>0, <1>2, CompFrame, DecFrame DEF AttSts
<1>3. CASE PrmStep
  <2>1. CASE ReadAtt \/ Miss \/ TakeFreeEntry \/ NeedVictim
    <3>1. req \in [chan : Chans, page : PageOrNone, fresh : BOOLEAN]
      BY DEF IInv, TypeOK, ReaderType
    <3>2. CASE ReadAtt
      BY <1>0, <1>9, <3>1, <3>2 DEF ReadAtt
    <3>3. CASE Miss \/ TakeFreeEntry \/ NeedVictim
      BY <1>0, <1>9, <3>3 DEF Miss, TakeFreeEntry, NeedVictim
    <3> QED BY <2>1, <3>2, <3>3
  <2>2. CASE Hit
    BY <1>0, <2>2 DEF Hit, Grant
  <2>3. CASE DecodeLstEntry
    <3>1. AttSts(get_Tolpkt(ht.head["FREE"], req.page)) = "UNCOMP"
      BY DEF AttSts, get_Tolpkt, NoPkt
    <3>2. alloc' = get_Tolpkt(ht.head["FREE"], req.page)
      BY <2>3 DEF DecodeLstEntry
    <3>3. AttSts(alloc)' = AttSts(alloc')
      BY DEF AttSts
    <3> QED BY <1>0, <2>3, <3>1, <3>2, <3>3 DEF DecodeLstEntry
  <2>4. CASE SendTblUpdate
    BY <1>0, <2>4 DEF SendTblUpdate
  <2>5. CASE TblUpdateDone
    BY <1>0, <2>5 DEF TblUpdateDone, Grant
  <2>6. CASE CompressDone
    BY <1>0, <2>6 DEF CompressDone, Grant
  <2>7. CASE DecompressDone
    BY <1>0, <2>7 DEF DecompressDone, Grant, AttSts
  <2> QED BY <1>3, <2>1, <2>2, <2>3, <2>4, <2>5, <2>6, <2>7 DEF PrmStep
<1>4. CASE \E c \in Chans, p \in Pages : Lookup(c, p)
  BY <1>0, <1>4 DEF Lookup
<1>5. CASE ReadError \/ CpuRead \/ CpuWrite \/ StayParked
  <2>1. UNCHANGED <<req, trnsl, alloc, free_entry_avail, tables>>
        /\ \/ prm' = prm
           \/ prm # "IDLE" /\ ~ free_entry_avail /\ prm' = "BUS_ERROR"
    <3>1. CASE ReadError
      BY <1>0, <3>1 DEF ReadError
    <3>2. CASE CpuRead \/ CpuWrite
      BY <1>0, <3>2 DEF CpuRead, CpuWrite
    <3>3. CASE StayParked
      BY <1>0, <3>3 DEF StayParked, vars
    <3> QED BY <1>5, <3>1, <3>2, <3>3
  <2> QED BY <1>0, <1>9, <2>1
<1> QED BY <1>1, <1>2, <1>3, <1>4, <1>5 DEF Next, ManagerStep

(* The victim is a way when it is read.                                    *)
LEMMA VictimStep == IInv /\ Next => VictimInv'
<1> SUFFICES ASSUME IInv, Next PROVE VictimInv' OBVIOUS
<1>0. VictimInv /\ ht.head["UNCOMP"] \in EntryOrNull
  BY DEF IInv, TypeOK, TablesType, HeadTail, Lists
<1> USE DEF VictimInv, comp
<1>1. CASE PwmStep \/ DecStep
  BY <1>0, <1>1, WriterFrame, DecFrame
<1>2. CASE CmpStep
  <2>1. CASE CmpPeek
    BY <1>0, <2>1, WayTypes DEF CmpPeek
  <2>2. CASE ~ CmpPeek
    BY <1>2, <2>2
       DEF CmpStep, CmpBurstRead, CmpIncompressible, SendIncomp, IncompDone,
           StartZspage, FetchZspage, PrepZspage, PrepDone, SendPopUcmp,
           PopUcmpDone, SendMigrate, MigrateDone, SendFreewayTol,
           FreewayTolDone, SendFreewayAtt, FreewayAttDone
  <2> QED BY <2>1, <2>2
<1>3. CASE PrmStep
  BY <1>0, <1>3
     DEF PrmStep, ReadAtt, Hit, Miss, TakeFreeEntry, NeedVictim, DecodeLstEntry,
         SendTblUpdate, TblUpdateDone, CompressDone, DecompressDone
<1>4. CASE \E c \in Chans, p \in Pages : Lookup(c, p)
  BY <1>0, <1>4 DEF Lookup
<1>5. CASE ReadError \/ CpuRead \/ CpuWrite \/ StayParked
  BY <1>0, <1>5 DEF ReadError, CpuRead, CpuWrite, StayParked, vars
<1> QED BY <1>1, <1>2, <1>3, <1>4, <1>5 DEF Next, ManagerStep

(* The ATT only ever names slots for compressed pages.                     *)
LEMMA AttSlotsStep == IInv /\ Next => AttSlots'
<1> SUFFICES ASSUME IInv, Next PROVE AttSlots' OBVIOUS
<1>0. AttSlots /\ UpdSlot /\ OneManager /\ att \in [Pages -> AttEntry]
  BY DEF IInv, SlotInv, TypeOK, TablesType
<1> USE DEF AttSlots
<1>1. CASE PwmStep
  <2>1. CASE InitAtt
    BY <2>1 DEF InitAtt
  <2>2. CASE PwmAttUpdate
    <3>1. pwm = "ATT_UPDATE"
          /\ att' = [att EXCEPT ![upd.attEntryId] =
                       [sts |-> AttSts(upd), loc |-> upd.loc]]
      BY <2>2 DEF PwmAttUpdate
    <3> QED BY <1>0, <3>1 DEF UpdSlot
  <2>3. CASE ~ InitAtt /\ ~ PwmAttUpdate
    <3>1. UNCHANGED att /\ pwm # "INIT_ATT"
      BY <1>1, <2>3
         DEF PwmStep, InitList, PwmSlstUpdate, PwmDlstUpdate1, PwmDlstUpdate2,
             PwmPageTransfer, PwmZsPageUpdate, tables
    <3> QED BY <1>0, <3>1
  <2> QED BY <2>1, <2>2, <2>3
<1>2. CASE ~ PwmStep
  <2>1. UNCHANGED att
    <3>1. CASE CmpStep \/ DecStep
      BY <1>0, <3>1, CompFrame, DecFrame DEF tables
    <3>2. CASE PrmStep
      BY <3>2 DEF PrmStep, ReadAtt, Hit, Miss, TakeFreeEntry, NeedVictim,
                  DecodeLstEntry, SendTblUpdate, SendUpdate, TblUpdateDone,
                  CompressDone, DecompressDone, tables
    <3>3. CASE \/ \E c \in Chans, p \in Pages : Lookup(c, p)
               \/ ReadError \/ CpuRead \/ CpuWrite \/ StayParked
      BY <3>3 DEF Lookup, ReadError, CpuRead, CpuWrite, StayParked, vars, tables
    <3> QED BY <1>2, <3>1, <3>2, <3>3 DEF Next, ManagerStep
  <2>2. pwm = "INIT_ATT" => pwm' = "INIT_ATT"
    <3>1. CASE CmpStep \/ DecStep
      BY <1>0, <3>1
         DEF OneManager, init_list_done, CmpStep, DecStep, CmpPeek, CmpBurstRead,
             CmpIncompressible, SendIncomp, IncompDone, StartZspage, FetchZspage,
             PrepZspage, PrepDone, SendPopUcmp, PopUcmpDone, SendMigrate,
             MigrateDone, SendFreewayTol, FreewayTolDone, SendFreewayAtt,
             FreewayAttDone, DecFetchIway, DecBurstRead, SendDecompressed,
             DecompressedDone, FetchIflLstEntry, SendPushIfl, PushIflDone
    <3>2. CASE PrmStep
      BY <1>0, <3>2
         DEF OneManager, init_list_done, PrmStep, ReadAtt, Hit, Miss,
             TakeFreeEntry, NeedVictim, DecodeLstEntry, SendTblUpdate,
             TblUpdateDone, CompressDone, DecompressDone
    <3>3. CASE \/ \E c \in Chans, p \in Pages : Lookup(c, p)
               \/ ReadError \/ CpuRead \/ CpuWrite \/ StayParked
      BY <3>3 DEF Lookup, ReadError, CpuRead, CpuWrite, StayParked, vars, writer
    <3> QED BY <1>2, <3>1, <3>2, <3>3 DEF Next, ManagerStep
  <2> QED BY <1>0, <2>1, <2>2
<1> QED BY <1>1, <1>2

(* The same of the copy a lookup keeps.                                    *)
LEMMA TrnslSlotStep == IInv /\ Next => TrnslSlot'
<1> SUFFICES ASSUME IInv, Next PROVE TrnslSlot' OBVIOUS
<1>0. TrnslSlot /\ AttSlots /\ OneManager /\ LookupInv
  BY DEF IInv, SlotInv
<1> USE DEF TrnslSlot
<1>1. CASE PwmStep \/ CmpStep \/ DecStep
  BY <1>0, <1>1, WriterFrame, CompFrame, DecFrame DEF reader
<1>2. CASE PrmStep
  <2>1. CASE ReadAtt
    BY <1>0, <2>1 DEF ReadAtt, AttSlots, OneManager, LookupInv, init_list_done
  <2>2. CASE Hit \/ TblUpdateDone
    BY <2>2 DEF Hit, TblUpdateDone, Grant, NoTrnsl
  <2>3. CASE CompressDone \/ DecompressDone
    BY <1>0, <2>3 DEF CompressDone, DecompressDone, Grant, NoTrnsl
  <2>4. CASE \/ Miss \/ TakeFreeEntry \/ NeedVictim \/ DecodeLstEntry
             \/ SendTblUpdate
    BY <1>0, <2>4 DEF Miss, TakeFreeEntry, NeedVictim, DecodeLstEntry, SendTblUpdate
  <2> QED BY <1>2, <2>1, <2>2, <2>3, <2>4 DEF PrmStep
<1>3. CASE \/ \E c \in Chans, p \in Pages : Lookup(c, p)
           \/ ReadError \/ CpuRead \/ CpuWrite \/ StayParked
  BY <1>0, <1>3 DEF Lookup, ReadError, CpuRead, CpuWrite, StayParked, vars, reader
<1> QED BY <1>1, <1>2, <1>3 DEF Next, ManagerStep

(* A packet that will turn an ATT entry to COMP carries a slot.            *)
LEMMA UpdSlotStep == IInv /\ Next => UpdSlot'
<1> SUFFICES ASSUME IInv, Next PROVE UpdSlot' OBVIOUS
<1>0. UpdSlot /\ CmpSlot /\ LookupInv
  BY DEF IInv, SlotInv
<1>1. UNCHANGED upd => AttSts(upd)' = AttSts(upd)
  BY DEF AttSts
<1>2. AttSts(upd)' = AttSts(upd')
  BY DEF AttSts
<1>3. ASSUME NEW pkt, SendUpdate(pkt),
             pkt.TOL_UPDATE_ONLY = 2 \/ AttSts(pkt) # "COMP" \/ pkt.loc.slot \in Slots
      PROVE  UpdSlot'
  BY <1>2, <1>3 DEF SendUpdate, UpdSlot
<1>4. pwm' # "ATT_UPDATE" \/ UNCHANGED <<pwm, upd>> => UpdSlot'
  BY <1>0, <1>1 DEF UpdSlot
<1>5. CASE PwmStep
  BY <1>4, <1>5
     DEF PwmStep, InitAtt, InitList, PwmAttUpdate, PwmSlstUpdate, PwmDlstUpdate1,
         PwmDlstUpdate2, PwmPageTransfer, PwmZsPageUpdate
<1>6. CASE PrmStep
  <2>1. CASE SendTblUpdate
    BY <1>0, <1>3, <2>1 DEF SendTblUpdate, LookupInv
  <2>2. CASE ~ SendTblUpdate
    BY <1>4, <1>6, <2>2
       DEF PrmStep, ReadAtt, Hit, Miss, TakeFreeEntry, NeedVictim, DecodeLstEntry,
           TblUpdateDone, CompressDone, DecompressDone, writer
  <2> QED BY <2>1, <2>2
<1>7. CASE CmpStep
  <2>1. CASE SendIncomp
    BY <1>3, <2>1 DEF SendIncomp, AttSts, NoPkt
  <2>2. CASE SendPopUcmp
    BY <1>0, <1>3, <2>2 DEF SendPopUcmp, CmpSlot, NoPkt
  <2>3. CASE SendFreewayTol
    BY <1>0, <1>3, <2>3 DEF SendFreewayTol, CmpSlot, NoPkt
  <2>4. CASE SendFreewayAtt
    BY <1>3, <2>4 DEF SendFreewayAtt, AttSts, NoPkt
  <2>5. CASE ~ SendIncomp /\ ~ SendPopUcmp /\ ~ SendFreewayTol /\ ~ SendFreewayAtt
    BY <1>4, <1>7, <2>5
       DEF CmpStep, CmpPeek, CmpBurstRead, CmpIncompressible, IncompDone,
           StartZspage, FetchZspage, PrepZspage, PrepDone, PopUcmpDone,
           SendMigrate, MigrateDone, FreewayTolDone, FreewayAttDone,
           SendPage, UpdateDone, writer
  <2> QED BY <2>1, <2>2, <2>3, <2>4, <2>5
<1>8. CASE DecStep
  <2>1. CASE SendPushIfl
    BY <1>3, <2>1 DEF SendPushIfl, NoPkt
  <2>2. CASE ~ SendPushIfl
    BY <1>4, <1>8, <2>2
       DEF DecStep, DecFetchIway, DecBurstRead, SendDecompressed,
           DecompressedDone, FetchIflLstEntry, PushIflDone, SendPage,
           UpdateDone, writer
  <2> QED BY <2>1, <2>2
<1>9. CASE \/ \E c \in Chans, p \in Pages : Lookup(c, p)
           \/ ReadError \/ CpuRead \/ CpuWrite \/ StayParked
  BY <1>4, <1>9 DEF Lookup, ReadError, CpuRead, CpuWrite, StayParked, vars, writer
<1> QED BY <1>5, <1>6, <1>7, <1>8, <1>9 DEF Next, ManagerStep

(* The page packet of a compression carries a slot when it is sent, and    *)
(* keeps it until the ATT update that names it.                            *)
LEMMA CmpSlotStep == IInv /\ Next => CmpSlot'
<1> SUFFICES ASSUME IInv, Next PROVE CmpSlot' OBVIOUS
<1>0. CmpSlot /\ OneManager /\ TypeOK
  BY DEF IInv, SlotInv
<1> USE DEF CmpSlot
<1>1. CASE PwmStep
  BY <1>0, <1>1, WriterFrame DEF comp
<1>2. CASE CmpStep
  <2>1. CASE FetchZspage
    <3>1. /\ uc \in Ways /\ mem[uc] \in MemWay /\ vic.attEntryId \in PageOrNone
      BY <1>0, <2>1 DEF FetchZspage, TypeOK, CompType, MemType
    <3>2. ~ zpkt'.zspage_full => zpkt'.dest.slot \in Slots
      BY <2>1, <3>1, FreeCpageTypes DEF FetchZspage, MemWay
    <3>3. pwm = "IDLE" /\ pwm' = pwm /\ cmp' = "MIGRATE_TO_ZSPAGE"
      BY <1>0, <2>1 DEF FetchZspage, OneManager, WriterBusy, PrmWaits, CmpWaits,
                        DecWaits, init_list_done, writer, TypeOK, CompType
    <3> QED BY <3>2, <3>3
  <2>2. CASE PrepZspage
    <3>1. zpkt'.dest.slot = 1
      BY <2>2 DEF PrepZspage, NoZsPkt, At
    <3> QED BY <2>2, <3>1 DEF PrepZspage, comp, Slots, MAX_PAGE_ZSPAGE
  <2>3. CASE StartZspage
    BY <1>0, <2>3 DEF StartZspage, OneManager, WriterBusy, PrmWaits, CmpWaits,
                      DecWaits, init_list_done, writer, TypeOK, CompType
  <2>4. CASE SendPopUcmp \/ SendMigrate \/ SendFreewayTol \/ SendFreewayAtt
             \/ SendIncomp
    BY <1>0, <2>4 DEF SendPopUcmp, SendMigrate, SendFreewayTol, SendFreewayAtt,
                      SendIncomp, comp
  <2>5. CASE PrepDone \/ MigrateDone
    BY <1>0, <2>5 DEF PrepDone, MigrateDone, UpdateDone
  <2>6. CASE \/ CmpPeek \/ CmpBurstRead \/ CmpIncompressible \/ IncompDone
             \/ PopUcmpDone \/ FreewayTolDone \/ FreewayAttDone
    BY <1>0, <2>6 DEF CmpPeek, CmpBurstRead, CmpIncompressible, IncompDone,
                      PopUcmpDone, FreewayTolDone, FreewayAttDone
  <2> QED BY <1>2, <2>1, <2>2, <2>3, <2>4, <2>5, <2>6 DEF CmpStep
<1>3. CASE ~ PwmStep /\ ~ CmpStep
  <2>1. \/ cmp' \in {"IDLE", "BUS_ERROR"}
        \/ UNCHANGED <<cmp, zpkt, pwm>>
        \/ prm # "COMPRESS" /\ UNCHANGED cmp
    <3>1. CASE PrmStep
      BY <3>1 DEF PrmStep, ReadAtt, Hit, Miss, TakeFreeEntry, NeedVictim,
                  DecodeLstEntry, SendTblUpdate, TblUpdateDone, CompressDone,
                  DecompressDone, comp, writer
    <3>2. CASE DecStep
      BY <1>0, <3>2, DecFrame
         DEF DecStep, DecFetchIway, DecBurstRead, SendDecompressed,
             DecompressedDone, FetchIflLstEntry, SendPushIfl, PushIflDone,
             OneManager, comp
    <3>3. CASE \/ \E c \in Chans, p \in Pages : Lookup(c, p)
               \/ ReadError \/ CpuRead \/ CpuWrite \/ StayParked
      BY <3>3 DEF Lookup, ReadError, CpuRead, CpuWrite, StayParked, vars,
                  comp, writer
    <3> QED BY <1>3, <3>1, <3>2, <3>3 DEF Next, ManagerStep
  <2>2. prm # "COMPRESS" => cmp = "IDLE"
    BY <1>0 DEF OneManager
  <2> QED BY <1>0, <2>1, <2>2
<1> QED BY <1>1, <1>2, <1>3

(* A decompression that has read the metadata works on ways.               *)
LEMMA DecWayStep == IInv /\ Next => DecWay'
<1> SUFFICES ASSUME IInv, Next PROVE DecWay' OBVIOUS
<1>0. DecWay /\ OneManager /\ TypeOK
  BY DEF IInv, SlotInv
<1> USE DEF DecWay
<1>1. CASE PwmStep
  BY <1>0, <1>1, WriterFrame DEF reader
<1>2. CASE DecStep
  <2>1. CASE DecFetchIway
    <3> DEFINE w == trnsl.loc.way
    <3>1. CASE w \in Ways /\ mem[w].iway = w
      <4>1. zpkt' = [setCpageFree_ZsPageiWay(w, mem[w].md, req.page)
                       EXCEPT !.dest = At(fw, Frame)]
        BY <2>1, <3>1 DEF DecFetchIway
      <4>2. zpkt'.iWay_ptr = w
        BY <4>1 DEF setCpageFree_ZsPageiWay
      <4>3. UNCHANGED trnsl
        BY <1>2, DecFrame DEF reader
      <4> QED BY <3>1, <4>2, <4>3
    <3>2. CASE ~ (w \in Ways /\ mem[w].iway = w)
      BY <2>1, <3>2 DEF DecFetchIway
    <3> QED BY <3>1, <3>2
  <2>2. CASE ~ DecFetchIway
    BY <1>0, <1>2, <2>2
       DEF DecStep, DecBurstRead, SendDecompressed, DecompressedDone,
           FetchIflLstEntry, SendPushIfl, PushIflDone, dec_idle_others, reader
  <2> QED BY <2>1, <2>2
<1>3. CASE ~ PwmStep /\ ~ DecStep
  <2>1. \/ dec' \in {"IDLE", "BUS_ERROR"}
        \/ UNCHANGED <<dec, zpkt, trnsl>>
        \/ prm # "DECOMPRESS" /\ UNCHANGED dec
    <3>1. CASE PrmStep
      BY <3>1 DEF PrmStep, ReadAtt, Hit, Miss, TakeFreeEntry, NeedVictim,
                  DecodeLstEntry, SendTblUpdate, TblUpdateDone, CompressDone,
                  DecompressDone
    <3>2. CASE CmpStep
      BY <1>0, <3>2, CompFrame
    <3>3. CASE \/ \E c \in Chans, p \in Pages : Lookup(c, p)
               \/ ReadError \/ CpuRead \/ CpuWrite \/ StayParked
      BY <3>3 DEF Lookup, ReadError, CpuRead, CpuWrite, StayParked, vars, reader
    <3> QED BY <1>3, <3>1, <3>2, <3>3 DEF Next, ManagerStep
  <2>2. prm # "DECOMPRESS" => dec = "IDLE"
    BY <1>0 DEF OneManager
  <2> QED BY <1>0, <2>1, <2>2
<1> QED BY <1>1, <1>2, <1>3

-----------------------------------------------------------------------------
LEMMA Inductive ==
  /\ Init => IInv
  /\ IInv /\ [Next]_vars => IInv'
<1>1. Init => IInv
  <2> SUFFICES ASSUME Init PROVE IInv OBVIOUS
  <2>1. TablesType
    BY PktTypes, WayTypes DEF Init, TablesType, AttEntry, STS, ListEntry, HeadTail,
                              PageOrNone
  <2>2. MemType
    BY RawFrameType DEF Init, MemType, PageOrNone
  <2>3. WriterType
    BY PktTypes, ListAssumption DEF Init, WriterType
  <2>4. ReaderType
    BY PktTypes, PagerAssumption DEF Init, ReaderType, NoReq, PageOrNone
  <2>5. CompType
    BY WayTypes DEF Init, CompType, NoVictim, PageOrNone
  <2>6. AccType
    BY DEF Init, AccType, NoAcc, PageOrNone
  <2>7. TypeOK
    BY <2>1, <2>2, <2>3, <2>4, <2>5, <2>6, PktTypes
       DEF Init, TypeOK, DecType, PageOrNone
  <2>8. OneManager /\ LookupInv /\ VictimInv
    BY DEF Init, OneManager, init_list_done, WriterBusy, LookupInv, VictimInv
  <2>9. SlotInv
    BY DEF Init, SlotInv, AttSlots, TrnslSlot, UpdSlot, CmpSlot, DecWay, NoTrnsl
  <2> QED BY <2>7, <2>8, <2>9 DEF IInv
<1>2. IInv /\ Next => IInv'
  BY TypeStep, OneManagerStep, LookupStep, VictimStep, AttSlotsStep, TrnslSlotStep,
     UpdSlotStep, CmpSlotStep, DecWayStep DEF IInv, SlotInv
<1>3. IInv /\ UNCHANGED vars => IInv'
  <2> SUFFICES ASSUME IInv, UNCHANGED vars PROVE IInv' OBVIOUS
  <2>1. TypeOK'
    BY SameTypes DEF vars, IInv, TypeOK
  <2> QED BY <2>1 DEF IInv, OneManager, LookupInv, SlotInv, VictimInv, AttSlots,
                      TrnslSlot, UpdSlot, CmpSlot, DecWay, AttSts,
                      init_list_done, WriterBusy, PrmWaits, CmpWaits, DecWaits,
                      vars, tables, writer, reader, comp
<1> QED BY <1>1, <1>2, <1>3

(* The registers and tables of the paging engine keep their types, for     *)
(* every set of pages and every number of ways (hawk_pgrd_mngr.sv, the     *)
(* managers it starts and hawk_pgwr_mngr.sv): a value that is used as an   *)
(* entry, a way or a slot is one when it is used.                          *)
THEOREM TypeCorrect == Spec => []TypeOK
<1>1. IInv => TypeOK
  BY DEF IInv
<1> QED BY Inductive, <1>1, PTL DEF Spec

(* The page writer, which all managers share without an arbiter, is never  *)
(* asked for a second update before it acknowledged the first, and only    *)
(* the manager that asked is waiting (hawk_pgwr_mngr.sv:410).              *)
THEOREM WriterServesOne == Spec => []OneManager
<1>1. IInv => OneManager
  BY DEF IInv
<1> QED BY Inductive, <1>1, PTL DEF Spec

-----------------------------------------------------------------------------
(* The registers of the lists, and of the irregular free list.             *)
HasRegs(h) == DOMAIN h = {"head", "tail"} /\ DOMAIN h.head = Lists /\ DOMAIN h.tail = Lists
IflHead(h) == h.head["IFL_SIZE1"]
IflTail(h) == h.tail["IFL_SIZE1"]
IflRegs(h) == IflHead(h) = NULL => IflTail(h) = NULL

(* At most one manager is away from IDLE, and the read manager says which. *)
ManagersInv ==
  /\ ~ init_list_done => prm = "IDLE"
  /\ cmp # "IDLE" => prm = "COMPRESS"
  /\ dec # "IDLE" => prm = "DECOMPRESS"
  /\ cst # "IDLE" => prm = "COMPACT"
WriterInv == WriterBusy => PrmWaits \/ CmpWaits \/ DecWaits \/ CptWaits

(* A head register is never NULL alone: an entry is pushed with its        *)
(* number, and the tail only moves while the list has a head.              *)
IflInv ==
  /\ HasRegs(ht) /\ IflRegs(ht)
  /\ dec \in {"BURST_READ", "DECOMP_WAIT", "FETCH_IFL_LST_ENTRY", "PUSH_IFL"}
       => zpkt.iWay_ptr \in Ways
  /\ upd.dst_list = "IFL_SIZE1" => upd.tolEntryId # NULL
  /\ alloc.dst_list # "IFL_SIZE1"
  /\ pwm = "TOL_SLST_UPDATE" => IflHead(ht) # IflTail(ht) \/ upd.src_list # "IFL_SIZE1"

(* The compacter leaves CHK_SRC_PAGE with the writer at work only for the  *)
(* update that frees an empty source, and then stays in ZSPAGE_UPDATE      *)
(* until it is done because one entry is left.                             *)
Freeing ==
  /\ pwm \in {"TOL_SLST_UPDATE", "TOL_DLST_UPDATE1", "TOL_DLST_UPDATE2", "WAIT_BRESP"}
  /\ upd.src_list = "IFL_SIZE1" /\ upd.dst_list = "FREE"
FreeInv ==
  /\ cst = "CHK_SRC_PAGE" /\ WriterBusy => cpt.src_empty /\ Freeing /\ ifl_head # NULL
  /\ cst = "ZSPAGE_UPDATE" /\ WriterBusy =>
       /\ ifl_head = ifl_tail /\ ifl_tail # NULL
       /\ \/ pwm \in {"ZSPG_COMPACT", "WAIT_BRESP"}
          \/ Freeing /\ pwm # "TOL_SLST_UPDATE"

CInv == ManagersInv /\ WriterInv /\ IflInv /\ FreeInv

-----------------------------------------------------------------------------
(* What the list operators do to the registers of the irregular free list. *)
LEMMA RegsKept ==
  ASSUME NEW h, NEW pkt, HasRegs(h)
  PROVE  /\ HasRegs(SrcEmptied(h, pkt)) /\ HasRegs(SrcRegs(h, pkt))
         /\ HasRegs(DstRegs1(h, pkt)) /\ HasRegs(DstRegs2(h, pkt))
BY DEF HasRegs, SrcEmptied, SrcRegs, DstRegs1, DstRegs2

LEMMA SrcEmptiedRegs ==
  ASSUME NEW h, NEW pkt, HasRegs(h), IflRegs(h)
  PROVE  IflRegs(SrcEmptied(h, pkt))
BY DEF HasRegs, SrcEmptied, IflRegs, IflHead, IflTail, Lists

LEMMA SrcRegsRegs ==
  ASSUME NEW h, NEW pkt, HasRegs(h), IflRegs(h),
         IflHead(h) # IflTail(h) \/ pkt.src_list # "IFL_SIZE1"
  PROVE  IflRegs(SrcRegs(h, pkt)) /\ IflHead(SrcRegs(h, pkt)) = IflHead(h)
BY DEF HasRegs, SrcRegs, IflRegs, IflHead, IflTail, Lists

LEMMA DstRegsRegs ==
  ASSUME NEW h, NEW pkt, HasRegs(h), IflRegs(h),
         pkt.dst_list = "IFL_SIZE1" => pkt.tolEntryId # NULL
  PROVE  /\ IflRegs(DstRegs1(h, pkt)) /\ IflRegs(DstRegs2(h, pkt))
         /\ pkt.dst_list = "FREE" =>
              /\ IflHead(DstRegs1(h, pkt)) = IflHead(h)
              /\ IflTail(DstRegs1(h, pkt)) = IflTail(h)
              /\ IflHead(DstRegs2(h, pkt)) = IflHead(h)
              /\ IflTail(DstRegs2(h, pkt)) = IflTail(h)
BY DEF HasRegs, DstRegs1, DstRegs2, PushesTail, IflRegs, IflHead, IflTail, Lists

(* A zspage's way has a list entry.                                        *)
LEMMA WayHasEntry == \A w \in Ways : EntryOf(w) # NULL
BY ListAssumption, PpaAssumption DEF Ways, EntryOf, NULL

LEMMA InitStep == CInit => CInv
<1> SUFFICES ASSUME CInit PROVE CInv
  OBVIOUS
<1>1. HasRegs(ht) /\ IflRegs(ht)
  BY DEF CInit, Init, HasRegs, IflRegs, IflHead, IflTail, Lists
<1> QED BY <1>1 DEF CInit, Init, CInv, ManagersInv, WriterInv, IflInv, FreeInv,
             WriterBusy, init_list_done, NoPkt, IflHead, IflTail

-----------------------------------------------------------------------------
(* The steps of the engine.                                                *)

(* A manager other than the compacter works only while that is idle.       *)
LEMMA CompacterIdle ==
  ManagersInv /\ (PrmStep \/ CmpStep \/ DecStep) => cst = "IDLE"
BY DEF ManagersInv, PrmStep, CmpStep, DecStep, ReadAtt, Hit, Miss, TakeFreeEntry,
       NeedVictim, DecodeLstEntry, SendTblUpdate, TblUpdateDone, CompressDone,
       DecompressDone, CmpPeek, CmpBurstRead, CmpIncompressible, SendIncomp,
       IncompDone, StartZspage, FetchZspage, PrepZspage, PrepDone, SendPopUcmp,
       PopUcmpDone, SendMigrate, MigrateDone, SendFreewayTol, FreewayTolDone,
       SendFreewayAtt, FreewayAttDone, DecFetchIway, DecBurstRead,
       SendDecompressed, DecompressedDone, FetchIflLstEntry, SendPushIfl,
       PushIflDone

LEMMA PwmManagers == CInv /\ PwmStep /\ UNCHANGED cptvars => ManagersInv' /\ WriterInv'
<1> SUFFICES ASSUME CInv, PwmStep, UNCHANGED cptvars PROVE ManagersInv' /\ WriterInv'
  OBVIOUS
<1>1. UNCHANGED <<reader, comp, dec, cptvars>>
  BY DEF PwmStep, InitAtt, InitList, PwmAttUpdate, PwmSlstUpdate,
         PwmDlstUpdate1, PwmDlstUpdate2, PwmPageTransfer, PwmZsPageUpdate
<1>2. \/ WriterBusy /\ pwm' \notin {"INIT_ATT", "INIT_LIST"}
      \/ ~ WriterBusy' /\ ~ init_list_done
  <2>1. CASE InitAtt \/ InitList
    BY <2>1 DEF InitAtt, InitList, WriterBusy, init_list_done
  <2>2. CASE PwmAttUpdate
    BY <2>2 DEF PwmAttUpdate, WriterBusy
  <2>3. CASE \/ PwmSlstUpdate \/ PwmDlstUpdate1 \/ PwmDlstUpdate2
             \/ PwmPageTransfer \/ PwmZsPageUpdate
    BY <2>3 DEF PwmSlstUpdate, PwmDlstUpdate1, PwmDlstUpdate2, PwmPageTransfer,
                PwmZsPageUpdate, WriterBusy
  <2> QED BY <2>1, <2>2, <2>3 DEF PwmStep
<1> QED BY <1>1, <1>2 DEF CInv, ManagersInv, WriterInv, WriterBusy, init_list_done,
           PrmWaits, CmpWaits, DecWaits, CptWaits, reader, comp, cptvars

LEMMA PwmIfl == CInv /\ PwmStep => IflInv'
<1> SUFFICES ASSUME CInv, PwmStep PROVE IflInv'
  OBVIOUS
<1> USE DEF CInv, IflInv, reader
<1>1. CASE InitAtt \/ InitList
  <2>1. HasRegs(ht') /\ IflRegs(ht')
    BY <1>1 DEF InitAtt, InitList, HasRegs, IflRegs, IflHead, IflTail, Lists
  <2> QED BY <1>1, <2>1 DEF InitAtt, InitList
<1>2. CASE PwmAttUpdate
  <2>1. \/ ht' = ht
        \/ ht' = SrcEmptied(ht, upd)
    BY <1>2 DEF PwmAttUpdate
  <2>2. HasRegs(ht') /\ IflRegs(ht')
    BY <2>1, RegsKept, SrcEmptiedRegs
  <2>3. pwm' = "TOL_SLST_UPDATE" => ht' = ht /\ SrcHasMore(ht, upd)
    BY <1>2 DEF PwmAttUpdate
  <2> QED BY <1>2, <2>2, <2>3 DEF PwmAttUpdate, SrcHasMore, IflHead, IflTail
<1>3. CASE PwmSlstUpdate
  BY <1>3, RegsKept, SrcRegsRegs DEF PwmSlstUpdate
<1>4. CASE PwmDlstUpdate1 \/ PwmDlstUpdate2
  BY <1>4, RegsKept, DstRegsRegs DEF PwmDlstUpdate1, PwmDlstUpdate2
<1>5. CASE PwmPageTransfer \/ PwmZsPageUpdate
  BY <1>5 DEF PwmPageTransfer, PwmZsPageUpdate, tables
<1> QED BY <1>1, <1>2, <1>3, <1>4, <1>5 DEF PwmStep

LEMMA PwmFree == CInv /\ PwmStep /\ UNCHANGED cptvars => FreeInv'
<1> SUFFICES ASSUME CInv, PwmStep, UNCHANGED cptvars PROVE FreeInv'
  OBVIOUS
<1> USE DEF CInv, FreeInv, Freeing, WriterBusy, IflInv, cptvars
<1>1. CASE InitAtt \/ InitList
  BY <1>1 DEF InitAtt, InitList, ManagersInv, init_list_done
<1>2. CASE PwmAttUpdate \/ PwmPageTransfer \/ PwmZsPageUpdate
  BY <1>2 DEF PwmAttUpdate, PwmPageTransfer, PwmZsPageUpdate
<1>3. CASE PwmSlstUpdate
  <2>1. ifl_head' = ifl_head
    BY <1>3, SrcRegsRegs DEF PwmSlstUpdate, ifl_head, IflHead
  <2> QED BY <1>3, <2>1 DEF PwmSlstUpdate
<1>4. CASE PwmDlstUpdate1 \/ PwmDlstUpdate2
  <2>1. upd.dst_list = "FREE" => ifl_head' = ifl_head /\ ifl_tail' = ifl_tail
    BY <1>4, DstRegsRegs DEF PwmDlstUpdate1, PwmDlstUpdate2, ifl_head, ifl_tail,
                              IflHead, IflTail
  <2> QED BY <1>4, <2>1 DEF PwmDlstUpdate1, PwmDlstUpdate2
<1> QED BY <1>1, <1>2, <1>3, <1>4 DEF PwmStep

(* The managers of the engine.  While one of them works the compacter is   *)
(* idle, so FreeInv asks for nothing, and none of them writes the tables.  *)
LEMMA Elsewhere ==
  ASSUME IflInv, cst' = "IDLE", UNCHANGED tables,
         pwm' = "TOL_SLST_UPDATE" => UNCHANGED <<pwm, upd>>,
         upd'.dst_list = "IFL_SIZE1" => upd'.tolEntryId # NULL,
         alloc'.dst_list # "IFL_SIZE1",
         dec' \in {"BURST_READ", "DECOMP_WAIT", "FETCH_IFL_LST_ENTRY", "PUSH_IFL"}
           => zpkt'.iWay_ptr \in Ways
  PROVE  IflInv' /\ FreeInv'
BY DEF IflInv, FreeInv, tables

LEMMA NoPktList == NoPkt.dst_list # "IFL_SIZE1"
BY DEF NoPkt

LEMMA PrmMove == CInv /\ PrmStep /\ UNCHANGED cptvars => CInv'
<1> SUFFICES ASSUME CInv, PrmStep, UNCHANGED cptvars PROVE CInv'
  OBVIOUS
<1>1. cst = "IDLE" /\ cst' = "IDLE"
  BY CompacterIdle DEF CInv, cptvars
<1>2. UNCHANGED tables
  BY DEF PrmStep, ReadAtt, Hit, Miss, TakeFreeEntry,
         NeedVictim, DecodeLstEntry, SendTblUpdate, SendUpdate, TblUpdateDone,
         CompressDone, DecompressDone
<1> USE DEF CInv, ManagersInv, WriterInv, WriterBusy, PrmWaits, CmpWaits, DecWaits,
            CptWaits, init_list_done, writer, comp, reader
<1>3. CASE ReadAtt \/ Miss \/ TakeFreeEntry \/ NeedVictim
  <2>1. UNCHANGED <<writer, zpkt, dec, cmp, alloc>>
    BY <1>3 DEF ReadAtt, Miss, TakeFreeEntry, NeedVictim
  <2>2. ManagersInv' /\ WriterInv'
    BY <1>1, <1>3, <2>1 DEF ReadAtt, Miss, TakeFreeEntry, NeedVictim
  <2> QED BY <1>1, <1>2, <2>1, <2>2, Elsewhere DEF IflInv
<1>4. CASE Hit
  <2>1. /\ UNCHANGED <<writer, zpkt, dec, cmp>> /\ alloc' = NoPkt
        /\ prm = "CHK_ATT_ENTRY" /\ prm' = "IDLE"
    BY <1>4 DEF Hit, Grant
  <2> QED BY <1>1, <1>2, <2>1, Elsewhere, NoPktList DEF IflInv
<1>5. CASE DecodeLstEntry
  <2>1. /\ UNCHANGED <<writer, zpkt, dec, cmp>> /\ alloc'.dst_list = "UNCOMP"
        /\ prm = "WAIT_LST_ENTRY" /\ prm' \in {"DECOMPRESS", "TBL_UPDATE"}
    BY <1>5 DEF DecodeLstEntry, get_Tolpkt, NoPkt
  <2> QED BY <1>1, <1>2, <2>1, Elsewhere DEF IflInv
<1>6. CASE SendTblUpdate
  <2>1. /\ UNCHANGED <<zpkt, dec, cmp, alloc>> /\ upd' = alloc
        /\ prm = "TBL_UPDATE" /\ prm' = "TBL_UPDATE_DONE"
        /\ pwm' \in {"TOL_DLST_UPDATE1", "ATT_UPDATE"}
    BY <1>6 DEF SendTblUpdate, SendUpdate
  <2> QED BY <1>1, <1>2, <2>1, Elsewhere DEF IflInv
<1>7. CASE TblUpdateDone
  <2>1. /\ UNCHANGED <<zpkt, dec, cmp>> /\ upd' = NoPkt /\ alloc' = NoPkt
        /\ prm = "TBL_UPDATE_DONE" /\ prm' = "IDLE" /\ pwm' = "IDLE"
    BY <1>7 DEF TblUpdateDone, Grant
  <2> QED BY <1>1, <1>2, <2>1, Elsewhere, NoPktList DEF IflInv
<1>8. CASE CompressDone
  <2>1. /\ UNCHANGED <<writer, dec>> /\ alloc' \in {alloc, NoPkt}
        /\ prm = "COMPRESS" /\ prm' \in {"DECOMPRESS", "IDLE"}
        /\ cmp = "DONE" /\ cmp' = "IDLE"
    BY <1>8 DEF CompressDone, Grant
  <2> QED BY <1>1, <1>2, <2>1, Elsewhere, NoPktList DEF IflInv
<1>9. CASE DecompressDone
  <2>1. /\ UNCHANGED <<writer, cmp>> /\ alloc' \in {alloc, NoPkt}
        /\ prm = "DECOMPRESS" /\ prm' \in {"TBL_UPDATE", "IDLE"}
        /\ dec = "DONE" /\ dec' = "IDLE"
    BY <1>9 DEF DecompressDone, Grant
  <2> QED BY <1>1, <1>2, <2>1, Elsewhere, NoPktList DEF IflInv
<1> QED BY <1>3, <1>4, <1>5, <1>6, <1>7, <1>8, <1>9 DEF PrmStep

LEMMA CmpMove == CInv /\ CmpStep /\ UNCHANGED cptvars => CInv'
<1> SUFFICES ASSUME CInv, CmpStep, UNCHANGED cptvars PROVE CInv'
  OBVIOUS
<1> USE DEF cmp_idle_others, reader, comp, writer
<1>1. cst = "IDLE" /\ cst' = "IDLE"
  BY CompacterIdle DEF CInv, cptvars
<1>2. UNCHANGED <<tables, reader, dec>>
  BY DEF CmpStep, SendUpdate, SendPage, UpdateDone, CmpPeek,
         CmpBurstRead, CmpIncompressible, SendIncomp, IncompDone, StartZspage,
         FetchZspage, PrepZspage, PrepDone, SendPopUcmp, PopUcmpDone, SendMigrate,
         MigrateDone, SendFreewayTol, FreewayTolDone, SendFreewayAtt, FreewayAttDone
<1>3. prm = "COMPRESS"
  BY DEF CInv, ManagersInv, CmpStep, CmpPeek,
         CmpBurstRead, CmpIncompressible, SendIncomp, IncompDone, StartZspage,
         FetchZspage, PrepZspage, PrepDone, SendPopUcmp, PopUcmpDone, SendMigrate,
         MigrateDone, SendFreewayTol, FreewayTolDone, SendFreewayAtt, FreewayAttDone
<1>4. /\ pwm' \notin {"INIT_ATT", "INIT_LIST"} /\ (WriterBusy' => CmpWaits')
      /\ pwm' = "TOL_SLST_UPDATE" => UNCHANGED <<pwm, upd>>
      /\ upd'.dst_list = "IFL_SIZE1" => upd' = upd
  <2> USE DEF CInv, ManagersInv, WriterInv, WriterBusy, CmpWaits, PrmWaits, DecWaits,
              CptWaits, init_list_done
  <2>1. CASE CmpPeek \/ CmpBurstRead \/ CmpIncompressible \/ StartZspage
             \/ FetchZspage
    BY <1>1, <1>3, <2>1 DEF CmpPeek, CmpBurstRead, CmpIncompressible, StartZspage,
                      FetchZspage
  <2>2. CASE SendIncomp \/ SendPopUcmp \/ SendFreewayTol \/ SendFreewayAtt
    BY <2>2 DEF SendIncomp, SendPopUcmp, SendFreewayTol, SendFreewayAtt, SendUpdate,
                NoPkt
  <2>3. CASE PrepZspage \/ SendMigrate
    BY <2>3 DEF PrepZspage, SendMigrate, SendPage
  <2>4. CASE IncompDone \/ PrepDone \/ PopUcmpDone \/ MigrateDone
             \/ FreewayTolDone \/ FreewayAttDone
    BY <2>4 DEF IncompDone, PrepDone, PopUcmpDone, MigrateDone,
                FreewayTolDone, FreewayAttDone, UpdateDone, NoPkt
  <2> QED BY <2>1, <2>2, <2>3, <2>4 DEF CmpStep
<1>5. IflInv' /\ FreeInv'
  BY <1>1, <1>2, <1>3, <1>4, Elsewhere DEF CInv, ManagersInv, IflInv
<1> QED BY <1>1, <1>2, <1>3, <1>4, <1>5 DEF CInv, ManagersInv, WriterInv,
           PrmWaits, DecWaits, init_list_done

LEMMA DecMove == CInv /\ DecStep /\ UNCHANGED cptvars => CInv'
<1> SUFFICES ASSUME CInv, DecStep, UNCHANGED cptvars PROVE CInv'
  OBVIOUS
<1> USE DEF dec_idle_others, reader, comp, writer
<1>1. cst = "IDLE" /\ cst' = "IDLE"
  BY CompacterIdle DEF CInv, cptvars
<1>2. UNCHANGED <<tables, reader, comp>>
  BY DEF DecStep, SendUpdate, SendPage, UpdateDone, DecFetchIway, DecBurstRead,
         SendDecompressed, DecompressedDone, FetchIflLstEntry, SendPushIfl, PushIflDone
<1>3. prm = "DECOMPRESS"
  BY DEF CInv, ManagersInv, DecStep, DecFetchIway, DecBurstRead,
         SendDecompressed, DecompressedDone, FetchIflLstEntry, SendPushIfl, PushIflDone
<1>4. dec' \in {"BURST_READ", "DECOMP_WAIT", "FETCH_IFL_LST_ENTRY", "PUSH_IFL"}
        => zpkt'.iWay_ptr \in Ways
  <2>1. CASE DecFetchIway
    BY <2>1 DEF DecFetchIway, setCpageFree_ZsPageiWay
  <2>2. CASE DecBurstRead \/ SendDecompressed \/ DecompressedDone
             \/ FetchIflLstEntry \/ SendPushIfl \/ PushIflDone
    BY <2>2 DEF CInv, IflInv, DecBurstRead,
         SendDecompressed, DecompressedDone, FetchIflLstEntry, SendPushIfl, PushIflDone
  <2> QED BY <2>1, <2>2 DEF DecStep
<1>5. /\ pwm' \notin {"INIT_ATT", "INIT_LIST"} /\ (WriterBusy' => DecWaits')
      /\ pwm' = "TOL_SLST_UPDATE" => UNCHANGED <<pwm, upd>>
      /\ upd'.dst_list = "IFL_SIZE1" => upd'.tolEntryId # NULL
  <2> USE DEF CInv, ManagersInv, WriterInv, IflInv, WriterBusy, CmpWaits, PrmWaits,
              DecWaits, CptWaits, init_list_done
  <2>1. CASE DecFetchIway \/ DecBurstRead \/ FetchIflLstEntry
    BY <1>1, <1>3, <2>1 DEF DecFetchIway, DecBurstRead, FetchIflLstEntry
  <2>2. CASE SendDecompressed
    BY <2>2 DEF SendDecompressed, SendPage
  <2>3. CASE SendPushIfl
    <3>1. zpkt.iWay_ptr \in Ways
      BY <2>3 DEF SendPushIfl
    <3>2. upd'.tolEntryId = EntryOf(zpkt.iWay_ptr)
      BY <2>3 DEF SendPushIfl, SendUpdate, NoPkt
    <3> QED BY <2>3, <3>1, <3>2, WayHasEntry DEF SendPushIfl, SendUpdate
  <2>4. CASE DecompressedDone \/ PushIflDone
    BY <2>4 DEF DecompressedDone, PushIflDone, UpdateDone, NoPkt
  <2> QED BY <2>1, <2>2, <2>3, <2>4 DEF DecStep
<1>6. IflInv' /\ FreeInv'
  BY <1>1, <1>2, <1>4, <1>5, Elsewhere DEF CInv, IflInv
<1> QED BY <1>1, <1>2, <1>3, <1>5, <1>6 DEF CInv, ManagersInv, WriterInv,
           PrmWaits, CmpWaits, init_list_done

(* The rest of the engine leaves writer and tables alone.                  *)
LEMMA AroundMove ==
  CInv /\ UNCHANGED <<cptvars, cptcnt>>
    /\ (\/ \E c \in Chans, p \in Pages : Lookup(c, p)
        \/ ReadError \/ CpuRead \/ CpuWrite \/ StayParked)
  => CInv'
<1> SUFFICES ASSUME CInv, UNCHANGED cptvars,
                    \/ \E c \in Chans, p \in Pages : Lookup(c, p)
                    \/ ReadError \/ CpuRead \/ CpuWrite \/ StayParked
             PROVE  CInv'
  OBVIOUS
<1>1. UNCHANGED <<tables, writer, zpkt, alloc, cptvars>>
  BY DEF Lookup, ReadError, CpuRead, CpuWrite, StayParked, vars, reader
<1>2. ManagersInv' /\ WriterInv'
  <2> USE DEF CInv, ManagersInv, WriterInv, WriterBusy, PrmWaits, CmpWaits, DecWaits,
              CptWaits, init_list_done, writer, comp, reader, cptvars
  <2>1. CASE \E c \in Chans, p \in Pages : Lookup(c, p)
    BY <1>1, <2>1 DEF Lookup
  <2>2. CASE ReadError
    BY <1>1, <2>2 DEF ReadError
  <2>3. CASE CpuRead \/ CpuWrite \/ StayParked
    BY <1>1, <2>3 DEF CpuRead, CpuWrite, StayParked, vars
  <2> QED BY <2>1, <2>2, <2>3
<1>3. dec' \in {"BURST_READ", "DECOMP_WAIT", "FETCH_IFL_LST_ENTRY", "PUSH_IFL"}
        => dec' = dec
  BY DEF Lookup, ReadError, CpuRead, CpuWrite, StayParked, vars
<1>4. IflInv'
  BY <1>1, <1>3 DEF CInv, IflInv, tables, writer
<1>5. FreeInv'
  BY <1>1 DEF CInv, FreeInv, Freeing, WriterBusy, ifl_head, ifl_tail, tables, writer,
              cptvars
<1> QED BY <1>2, <1>4, <1>5 DEF CInv

-----------------------------------------------------------------------------
(* The compacter.                                                          *)

(* While the compacter works nobody else waits for the writer.             *)
LEMMA OnlyCompacterWaits == CInv /\ prm = "COMPACT" /\ WriterBusy => CptWaits
BY DEF CInv, ManagersInv, WriterInv, PrmWaits, CmpWaits, DecWaits

(* Steps that change registers of the compacter, or of the read manager    *)
(* when a compaction begins and ends.                                      *)
LEMMA RegisterMove ==
  ASSUME CInv, UNCHANGED <<tables, writer, zpkt, alloc, cmp, dec>>,
         \/ prm = "IDLE" /\ prm' = "COMPACT" /\ init_list_done /\ cst' = cst
         \/ prm = "COMPACT" /\ prm' = "COMPACT"
         \/ prm = "COMPACT" /\ prm' = "IDLE" /\ cst' = "IDLE",
         \/ ~ WriterBusy
         \/ /\ cst = "CHK_SRC_PAGE" /\ cst' = "ZSPAGE_UPDATE"
            /\ ifl_head = ifl_tail
  PROVE  CInv'
<1>1. ManagersInv'
  BY DEF CInv, ManagersInv, init_list_done, writer
<1>2. WriterInv'
  BY DEF CInv, WriterInv, WriterBusy, CptWaits, writer
<1>3. IflInv'
  BY DEF CInv, IflInv, tables, writer
<1>4. FreeInv'
  BY DEF CInv, FreeInv, Freeing, IflInv, IflHead, IflTail, WriterBusy, ifl_head,
         ifl_tail, tables, writer
<1> QED BY <1>1, <1>2, <1>3, <1>4 DEF CInv

LEMMA CptRegisterStep ==
  CInv /\ (\/ StartCompact \/ CptIdle \/ CptPeekTail \/ CptFetchSrc \/ CptSrcHasPage
           \/ CptLastEntry \/ CptPeekHead \/ CptFetchDst \/ CptBurstRead
           \/ CptNextRound \/ CptDone \/ CptReadError)
  => CInv'
<1> SUFFICES ASSUME CInv,
                    \/ StartCompact \/ CptIdle \/ CptPeekTail \/ CptFetchSrc
                    \/ CptSrcHasPage \/ CptLastEntry \/ CptPeekHead \/ CptFetchDst
                    \/ CptBurstRead \/ CptNextRound \/ CptDone \/ CptReadError
             PROVE  CInv'
  OBVIOUS
<1> USE DEF reg_others, vars, comp, reader
<1>1. UNCHANGED <<tables, writer, zpkt, alloc, cmp, dec>>
  BY DEF StartCompact, CptIdle, CptPeekTail, CptFetchSrc, CptSrcHasPage,
         CptLastEntry, CptPeekHead, CptFetchDst, CptBurstRead, CptNextRound,
         CptDone, CptReadError
<1>2. \/ prm = "IDLE" /\ prm' = "COMPACT" /\ init_list_done /\ cst' = cst
      \/ prm = "COMPACT" /\ prm' = "COMPACT"
      \/ prm = "COMPACT" /\ prm' = "IDLE" /\ cst' = "IDLE"
  BY DEF CInv, ManagersInv, cptvars, StartCompact, CptIdle, CptPeekTail, CptFetchSrc,
         CptSrcHasPage, CptLastEntry, CptPeekHead, CptFetchDst, CptBurstRead,
         CptNextRound, CptDone, CptReadError
<1>3. \/ ~ WriterBusy
      \/ cst = "CHK_SRC_PAGE" /\ cst' = "ZSPAGE_UPDATE" /\ ifl_head = ifl_tail
  <2>1. CASE StartCompact
    BY <2>1 DEF StartCompact, CInv, ManagersInv, WriterInv, PrmWaits, CmpWaits,
                DecWaits, CptWaits
  <2>2. CASE CptIdle \/ CptPeekTail \/ CptFetchSrc \/ CptPeekHead \/ CptFetchDst
             \/ CptBurstRead \/ CptDone \/ CptReadError
    <3>1. ~ CptWaits
      BY <2>2 DEF CptWaits, CptIdle, CptPeekTail, CptFetchSrc, CptPeekHead,
                  CptFetchDst, CptBurstRead, CptDone, CptReadError
    <3>2. prm = "COMPACT"
      BY <2>2 DEF CInv, ManagersInv, CptIdle, CptPeekTail, CptFetchSrc, CptPeekHead,
                  CptFetchDst, CptBurstRead, CptDone, CptReadError
    <3> QED BY <3>1, <3>2, OnlyCompacterWaits
  <2>3. CASE CptSrcHasPage
    BY <2>3 DEF CptSrcHasPage, CInv, FreeInv
  <2>4. CASE CptLastEntry
    BY <2>4 DEF CptLastEntry
  <2>5. CASE CptNextRound
    BY <2>5 DEF CptNextRound, CInv, FreeInv
  <2> QED BY <2>1, <2>2, <2>3, <2>4, <2>5
<1> QED BY <1>1, <1>2, <1>3, RegisterMove

(* The writer takes an update of the compacter, works or is done.          *)
LEMMA CptWriterFrame ==
  CInv /\ (\/ CptSendFreeEmpty \/ CptFreeEmptyDone \/ PwmUnawaited \/ CptSendMigrate
           \/ PwmZspgMigrate \/ CptMigrateDone \/ CptSendAtt \/ CptAttDone
           \/ CptSendPushFree \/ CptPushFreeDone \/ CptSendDetach \/ CptDetachDone
           \/ CptSendDstMd \/ PwmZspgMdUpdate \/ CptDstMdDone \/ CptSendSrcMd
           \/ CptSrcMdDone)
  => UNCHANGED <<zpkt, reader, comp, dec>>
BY DEF cpt_idle_others, StartZspg, CptUpdateDone, SendTolUpdate, CptSendFreeEmpty,
       CptFreeEmptyDone, PwmUnawaited, CptSendMigrate, PwmZspgMigrate,
       CptMigrateDone, CptSendAtt, CptAttDone, CptSendPushFree, CptPushFreeDone,
       CptSendDetach, CptDetachDone, CptSendDstMd, PwmZspgMdUpdate, CptDstMdDone,
       CptSendSrcMd, CptSrcMdDone

(* The writer is done: wherever the compacter goes, it goes with the       *)
(* writer idle.                                                            *)
LEMMA CptDoneMove ==
  CInv /\ (\/ CptFreeEmptyDone \/ PwmUnawaited \/ CptMigrateDone \/ CptAttDone
           \/ CptPushFreeDone \/ CptDetachDone \/ CptDstMdDone \/ CptSrcMdDone)
  => CInv'
<1> SUFFICES ASSUME CInv,
                    \/ CptFreeEmptyDone \/ PwmUnawaited \/ CptMigrateDone
                    \/ CptAttDone \/ CptPushFreeDone \/ CptDetachDone
                    \/ CptDstMdDone \/ CptSrcMdDone
             PROVE  CInv'
  OBVIOUS
<1>1. UNCHANGED <<zpkt, reader, comp, dec>>
  BY CptWriterFrame
<1>2. pwm' = "IDLE" /\ upd' = NoPkt /\ UNCHANGED tables /\ init_list_done
  BY DEF CptUpdateDone, UpdateDone, CptFreeEmptyDone, PwmUnawaited, CptMigrateDone,
         CptAttDone, CptPushFreeDone, CptDetachDone, CptDstMdDone, CptSrcMdDone,
         init_list_done
<1>3. cst # "IDLE"
  BY DEF CptFreeEmptyDone, PwmUnawaited, CptMigrateDone, CptAttDone, CptPushFreeDone,
         CptDetachDone, CptDstMdDone, CptSrcMdDone
<1>4. ManagersInv' /\ WriterInv'
  BY <1>1, <1>2, <1>3 DEF CInv, ManagersInv, WriterInv, WriterBusy, init_list_done,
                          reader, comp
<1>5. IflInv' /\ FreeInv'
  BY <1>1, <1>2, NoPktList DEF CInv, IflInv, FreeInv, WriterBusy, tables, reader
<1> QED BY <1>4, <1>5 DEF CInv

(* The writer is asked: the compacter waits.                               *)
LEMMA CptSendMove ==
  CInv /\ (\/ CptSendMigrate \/ CptSendAtt \/ CptSendDstMd \/ CptSendSrcMd) => CInv'
<1> SUFFICES ASSUME CInv,
                    \/ CptSendMigrate \/ CptSendAtt \/ CptSendDstMd \/ CptSendSrcMd
             PROVE  CInv'
  OBVIOUS
<1>1. UNCHANGED <<zpkt, reader, comp, dec>>
  BY CptWriterFrame
<1>2. /\ pwm = "IDLE" /\ UNCHANGED <<tables, cst>>
      /\ pwm' \in {"ZSPG_COMPACT", "ATT_UPDATE", "TOL_DLST_UPDATE1"}
      /\ upd' = upd \/ upd'.dst_list = "NULLIFY"
      /\ cst \in {"MIGRATE_2", "ATT_UPDATE", "DETACH_IFL_HEAD_MD_UPDATE", "ZSPAGE_UPDATE"}
      /\ cst = "ZSPAGE_UPDATE" => /\ ifl_head = ifl_tail /\ ifl_tail # NULL
                                  /\ pwm' = "ZSPG_COMPACT"
  BY DEF StartZspg, SendUpdate, CptSendMigrate, CptSendAtt, CptSendDstMd,
         CptSendSrcMd, NoPkt
<1>3. ManagersInv' /\ WriterInv'
  BY <1>1, <1>2 DEF CInv, ManagersInv, WriterInv, CptWaits, init_list_done,
                    reader, comp
<1>4. IflInv'
  BY <1>1, <1>2 DEF CInv, IflInv, tables, reader
<1>5. FreeInv'
  BY <1>2 DEF FreeInv, ifl_head, ifl_tail, tables
<1> QED BY <1>3, <1>4, <1>5 DEF CInv

LEMMA CptListMove ==
  CInv /\ (CptSendFreeEmpty \/ CptSendPushFree \/ CptSendDetach) => CInv'
<1> SUFFICES ASSUME CInv, CptSendFreeEmpty \/ CptSendPushFree \/ CptSendDetach
             PROVE  CInv'
  OBVIOUS
<1>1. UNCHANGED <<zpkt, reader, comp, dec>>
  BY CptWriterFrame
<1>2. PICK pkt : /\ SendTolUpdate(pkt)
                 /\ pkt.src_list = "IFL_SIZE1" /\ pkt.dst_list \in {"FREE", "IFL_DETACH"}
                 /\ cst = "CHK_SRC_PAGE" => pkt.dst_list = "FREE"
  <2>1. \A e, entry, dst : /\ IflPkt(e, entry, dst).src_list = "IFL_SIZE1"
                           /\ IflPkt(e, entry, dst).dst_list = dst
    BY DEF IflPkt, NoPkt
  <2>2. CASE CptSendFreeEmpty
    BY <2>1, <2>2 DEF CptSendFreeEmpty
  <2>3. CASE CptSendPushFree
    BY <2>1, <2>3 DEF CptSendPushFree
  <2>4. CASE CptSendDetach
    BY <2>1, <2>4 DEF CptSendDetach
  <2> QED BY <2>2, <2>3, <2>4
<1>3. cst \in {"CHK_SRC_PAGE", "PUSH_FREEWAY", "DETACH_IFL_HEAD"} /\ cst' = cst
  BY <1>2 DEF CptSendFreeEmpty, CptSendPushFree, CptSendDetach, SendTolUpdate
<1>4. /\ pwm = "IDLE" /\ upd' = pkt
      /\ \/ pwm' = "TOL_SLST_UPDATE" /\ ht' = ht /\ SrcHasMore(ht, pkt)
         \/ /\ pwm' = "TOL_DLST_UPDATE1" /\ ht' = SrcEmptied(ht, pkt)
            /\ ~ SrcHasMore(ht, pkt)
  BY <1>2 DEF SendTolUpdate
<1>5. ManagersInv' /\ WriterInv'
  BY <1>1, <1>3, <1>4 DEF CInv, ManagersInv, WriterInv, CptWaits, init_list_done,
                          reader, comp
<1>6. IflInv'
  <2>1. HasRegs(ht') /\ IflRegs(ht')
    BY <1>4, RegsKept, SrcEmptiedRegs DEF CInv, IflInv
  <2> QED BY <1>1, <1>2, <1>4, <2>1 DEF CInv, IflInv, reader, SrcHasMore, IflHead,
                                        IflTail
<1>7. FreeInv'
  <2>1. CASE cst = "CHK_SRC_PAGE"
    <3>1. /\ ifl_head # ifl_tail /\ cpt.src_empty /\ cpt' = cpt
      BY <2>1 DEF CptSendFreeEmpty, CptSendPushFree, CptSendDetach, SendTolUpdate
    <3>2. SrcHasMore(ht, pkt) /\ ifl_head # NULL
      BY <1>2, <3>1 DEF SrcHasMore, Lists, ifl_head, ifl_tail, CInv, IflInv, IflRegs,
                        IflHead, IflTail
    <3> QED BY <1>2, <1>3, <1>4, <2>1, <3>1, <3>2 DEF FreeInv, Freeing, ifl_head
  <2>2. CASE cst # "CHK_SRC_PAGE"
    BY <1>3, <2>2 DEF FreeInv
  <2> QED BY <2>1, <2>2
<1> QED BY <1>5, <1>6, <1>7 DEF CInv

(* The writer writes to a zspage.                                          *)
LEMMA CptWriteMove == CInv /\ (PwmZspgMigrate \/ PwmZspgMdUpdate) => CInv'
<1> SUFFICES ASSUME CInv, PwmZspgMigrate \/ PwmZspgMdUpdate PROVE CInv'
  OBVIOUS
<1>1. UNCHANGED <<zpkt, reader, comp, dec>>
  BY CptWriterFrame
<1>2. pwm = "ZSPG_COMPACT" /\ pwm' = "WAIT_BRESP" /\ UNCHANGED <<tables, upd, cst, cpt>>
  BY DEF PwmZspgMigrate, PwmZspgMdUpdate
<1>3. ManagersInv' /\ WriterInv'
  BY <1>1, <1>2 DEF CInv, ManagersInv, WriterInv, WriterBusy, PrmWaits, CmpWaits,
                    DecWaits, CptWaits, init_list_done, reader, comp
<1>4. IflInv'
  BY <1>1, <1>2 DEF CInv, IflInv, tables, reader
<1>5. FreeInv'
  BY <1>2 DEF CInv, FreeInv, Freeing, WriterBusy, ifl_head, ifl_tail, tables
<1> QED BY <1>3, <1>4, <1>5 DEF CInv

-----------------------------------------------------------------------------
LEMMA NextStep == CInv /\ [CNext]_cvars => CInv'
<1> SUFFICES ASSUME CInv, [CNext]_cvars PROVE CInv'
  OBVIOUS
<1>1. CASE EngineStep
  <2>1. ManagerStep /\ UNCHANGED cptvars
    BY <1>1 DEF EngineStep, cptvars
  <2>2. CASE PwmStep
    BY <2>1, <2>2, PwmManagers, PwmIfl, PwmFree DEF CInv
  <2> QED BY <2>1, <2>2, PrmMove, CmpMove, DecMove DEF ManagerStep
<1>2. CASE CptStep
  BY <1>2, CptRegisterStep, CptDoneMove, CptSendMove, CptListMove, CptWriteMove
     DEF CptStep
<1>3. CASE (\E c \in Chans, p \in Pages : CLookup(c, p)) \/ AroundStep
  <2>1. /\ UNCHANGED <<cptvars, cptcnt>>
        /\ \/ \E c \in Chans, p \in Pages : Lookup(c, p)
           \/ ReadError \/ CpuRead \/ CpuWrite \/ StayParked
    BY <1>3 DEF CLookup, AroundStep
  <2> QED BY <2>1, AroundMove
<1>4. CASE CptReadError
  BY <1>4, CptRegisterStep
<1>5. CASE MoveSwitch \/ StayStuck \/ UNCHANGED cvars
  <2>1. UNCHANGED <<vars, cptvars>>
    BY <1>5 DEF MoveSwitch, StayStuck, cvars
  <2> QED BY <2>1 DEF CInv, ManagersInv, WriterInv, IflInv, FreeInv, Freeing,
             WriterBusy, PrmWaits, CmpWaits, DecWaits, CptWaits, init_list_done,
             ifl_head, ifl_tail, vars, cptvars, tables, writer, reader, comp
<1> QED BY <1>1, <1>2, <1>3, <1>4, <1>5 DEF CNext

(* The page writer, shared without an arbiter, is busy only for a manager  *)
(* that waits for it, and the compacter is at work only while no other     *)
(* manager is.                                                             *)
THEOREM CompacterAlone == CSpec => []OneManagerCompacting
<1>1. CInv => OneManagerCompacting
  BY DEF CInv, ManagersInv, WriterInv, OneManagerCompacting
<1>2. CSpec => []CInv
  BY InitStep, NextStep, PTL DEF CSpec
<1> QED BY <1>1, <1>2, PTL

(* When the compacter looks away from the update that frees an empty       *)
(* zspage, it stays in ZSPAGE_UPDATE, asking for nothing, until that       *)
(* update is done.                                                         *)
StaysForUpdate ==
  cst = "ZSPAGE_UPDATE" /\ WriterBusy => ifl_head = ifl_tail /\ ifl_tail # NULL

THEOREM UnawaitedEnds == CSpec => []StaysForUpdate
<1>1. CInv => StaysForUpdate
  BY DEF CInv, FreeInv, StaysForUpdate
<1>2. CSpec => []CInv
  BY InitStep, NextStep, PTL DEF CSpec
<1> QED BY <1>1, <1>2, PTL
================================================================================
