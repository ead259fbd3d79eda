------------------------------- MODULE HawkDefs -------------------------------
(***************************************************************************)
(* The data HAWK keeps in DRAM and the packets its managers exchange       *)
(* (hacd_pkg.sv, hawk_rd_pkg.sv).                                          *)
(*                                                                         *)
(* An ATT entry is named by its page (the code numbers it                  *)
(* hppa - HPPA_BASE_ADDR + 1); a list entry by its number, 0 being NULL.   *)
(* A physical address is abstracted to a location: the way (4KB frame) and *)
(* the slot inside it, slot 0 standing for the whole frame.  HawkLayout    *)
(* does the byte arithmetic behind the slots.                              *)
(***************************************************************************)
EXTENDS Naturals, FiniteSets

CONSTANTS
  Pages,         \* the ATT entries: one per page the CPU can address
  NoPage,        \* attEntryId 0
  ListEntryCnt,  \* LIST_ENTRY_CNT: one list entry per way
  PpaStart       \* HAWK_PPA_START >> 12: frame number of the first way

ASSUME PagesAssumption == Pages # {} /\ NoPage \notin Pages
ASSUME ListAssumption == ListEntryCnt \in Nat \ {0}
ASSUME PpaAssumption == PpaStart \in Nat \ {0}

NULL == 0
Entries == 1 .. ListEntryCnt
EntryOrNull == 0 .. ListEntryCnt
PageOrNone == Pages \cup {NoPage}

(* Mutant: the writer counts ways from zero where entries count from one.  *)
MutWayOf(e) == PpaStart + e

(* The list entry's way field, written once by INIT_LIST and never again.  *)
WayOf(e) == PpaStart + e - 1
(* lst_entry_id: back from an identity way pointer to its list entry.      *)
EntryOf(w) == w - PpaStart + 1
Ways == PpaStart .. PpaStart + ListEntryCnt - 1
NoWay == 0

MAX_PAGE_ZSPAGE == 3
Slots == 1 .. MAX_PAGE_ZSPAGE
Frame == 0                       \* the whole way, not a slot of it

Loc == [way : Ways \cup {NoWay}, slot : Slots \cup {Frame}]
At(w, s) == [way |-> w, slot |-> s]
NoLoc == At(NoWay, Frame)

STS == {"DALLOC", "UNCOMP", "COMP", "INCOMP"}
AttEntry == [sts : STS, loc : Loc]

ListEntry == [attEntryId : PageOrNone, prev : EntryOrNull, next : EntryOrNull]

(* Lists with head and tail registers.  IFL_SIZE1 is the irregular free    *)
(* list of the only supported compressed size.  NULLIFY and IFL_DETACH are *)
(* pseudo lists: an entry sent there is on no list.                        *)
Lists == {"FREE", "UNCOMP", "INCOMP", "IFL_SIZE1"}
TolLists == Lists \cup {"NULLIFY", "IFL_DETACH"}
HeadTail == [head : [Lists -> EntryOrNull], tail : [Lists -> EntryOrNull]]

(* tol_updpkt_t: the update the page read managers ask of the page writer. *)
(* loc is lstEntry.way, owner is lstEntry.attEntryId.                      *)
TolUpdPkt ==
  [attEntryId : PageOrNone, tolEntryId : EntryOrNull, loc : Loc,
   owner : PageOrNone, prev : EntryOrNull, next : EntryOrNull,
   src_list : TolLists, dst_list : TolLists,
   ATT_UPDATE_ONLY : BOOLEAN, TOL_UPDATE_ONLY : 0 .. 2, ATT_STS : STS]

NoPkt ==
  [attEntryId |-> NoPage, tolEntryId |-> NULL, loc |-> NoLoc,
   owner |-> NoPage, prev |-> NULL, next |-> NULL,
   src_list |-> "NULLIFY", dst_list |-> "NULLIFY",
   ATT_UPDATE_ONLY |-> FALSE, TOL_UPDATE_ONLY |-> 0, ATT_STS |-> "DALLOC"]

(* Zspage metadata, the first cache line of an identity way.               *)
ZsPg_Md == [pg_vld : [Slots -> BOOLEAN], page : [Slots -> PageOrNone]]
NoMd == [pg_vld |-> [s \in Slots |-> FALSE], page |-> [s \in Slots |-> NoPage]]

(* iWayORcPagePkt_t: a page for the writer to store at dest, followed by   *)
(* the metadata md of the zspage at iWay_ptr.                              *)
ZsPkt == [dest : Loc, iWay_ptr : Ways \cup {NoWay}, zsPgMd : ZsPg_Md,
          zspage_full : BOOLEAN, pp_ifl : BOOLEAN, push_fl : BOOLEAN]
NoZsPkt == [dest |-> NoLoc, iWay_ptr |-> NoWay, zsPgMd |-> NoMd,
            zspage_full |-> FALSE, pp_ifl |-> FALSE, push_fl |-> FALSE]

AllValid(md) == \A s \in Slots : md.pg_vld[s]
NoneValid(md) == \A s \in Slots : ~ md.pg_vld[s]

(* Mutant: the valid bits are not looked at.                               *)
MutFirstFree(md) == 1

(* The first slot whose pg_vld bit is clear.                               *)
FirstFree(md) == CHOOSE s \in Slots : /\ ~ md.pg_vld[s]
                                      /\ \A t \in Slots : t < s => md.pg_vld[t]

(* getFreeCpage_ZsPageiWay: choose a slot of the zspage at w for page p,   *)
(* or report it full.                                                      *)
getFreeCpage_ZsPageiWay(w, md, p) ==
  IF AllValid(md)
  THEN [NoZsPkt EXCEPT !.iWay_ptr = w, !.zsPgMd = md,
                       !.zspage_full = TRUE, !.pp_ifl = TRUE]
  ELSE LET s == FirstFree(md)
           newMd == [pg_vld |-> [md.pg_vld EXCEPT ![s] = TRUE],
                     page |-> [md.page EXCEPT ![s] = p]]
       IN  [dest |-> At(w, s), iWay_ptr |-> w, zsPgMd |-> newMd,
            zspage_full |-> FALSE, pp_ifl |-> AllValid(newMd),
            push_fl |-> FALSE]

(* Mutant: the recorded page is not compared.                              *)
MutHoldsPage(md, p) == {s \in Slots : md.pg_vld[s]}

(* The slot that holds page p: the first valid one recorded for it.        *)
HoldsPage(md, p) == {s \in Slots : md.pg_vld[s] /\ md.page[s] = p}
(* Mutant: all valid bits are cleared with the page's.                     *)
MutClearPage(md, p) == [md EXCEPT !.pg_vld = [s \in Slots |-> FALSE]]

ClearPage(md, p) ==
  [md EXCEPT !.pg_vld =
     [s \in Slots |-> /\ md.pg_vld[s]
                      /\ ~ (/\ s \in HoldsPage(md, p)
                            /\ \A t \in HoldsPage(md, p) : s <= t)]]

(* setCpageFree_ZsPageiWay, called in FETCH_IWAY_PTR (pp_ifl: was the      *)
(* zspage full before?) and again in SET_CPAGEFREE (drop p's slot;         *)
(* push_fl: is it empty now?).                                             *)
setCpageFree_ZsPageiWay(w, md, p) ==
  LET newMd == ClearPage(md, p)
  IN  [dest |-> NoLoc, iWay_ptr |-> w, zsPgMd |-> newMd,
       zspage_full |-> FALSE, pp_ifl |-> AllValid(md),
       push_fl |-> NoneValid(newMd)]
===============================================================================
