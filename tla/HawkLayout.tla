------------------------------- MODULE HawkLayout -------------------------------
(***************************************************************************)
(* Where HAWK's tables, ways and compressed pages lie in DRAM, in bytes    *)
(* (hacd_pkg.sv, hawk_rd_pkg.sv, hawk_pgwr_mngr.sv).  The other modules     *)
(* speak of entries, ways and slots instead of addresses.  The page reader *)
(* and the page writer compute entry addresses each in its own way;        *)
(* HawkRegsProofs shows that they agree and that no two entries, slots or  *)
(* regions overlap.                                                        *)
(***************************************************************************)
EXTENDS Integers

CONSTANTS
  HAWK_ATT_START, HAWK_LIST_START, HAWK_PPA_START,  \* byte addresses
  HPPA_BASE,       \* HPPA_BASE_ADDR >> 12
  AttEntryCnt, ListEntryCnt

(* What the addresses of a configuration must satisfy: the regions follow  *)
(* each other, page aligned, each with room for its entries, and the CPU's *)
(* pages start at a multiple of eight.                                     *)
Fits(att, list, ppa, base, attCnt, listCnt) ==
  /\ attCnt \in Nat \ {0} /\ listCnt \in Nat \ {0}
  /\ base \in Nat /\ base % 8 = 0
  /\ att \in Nat /\ list \in Nat
  /\ ppa \in Nat /\ ppa % 4096 = 0
  /\ att + 64 * ((attCnt - 1) \div 8) + 64 <= list
  /\ list + 64 * ((listCnt - 1) \div 4) + 64 <= ppa
  /\ attCnt <= ppa

LayoutFits == Fits(HAWK_ATT_START, HAWK_LIST_START, HAWK_PPA_START, HPPA_BASE,
                   AttEntryCnt, ListEntryCnt)

(* The bring-up configuration: 12 ways, 24 pages above FFF6100000.         *)
BringUpFits == Fits(1099344904192, 1099345952768, 1099347001344,
                    268395520, 24, 12)
(* HAWK_FPGA: 1GB of DRAM from 0, of which the tables take 2048 pages.     *)
FpgaFits == Fits(0, 4194304, 8388608, 0, 520192, 260096)

AttEntryIds == 1 .. AttEntryCnt
ListEntryIds == 1 .. ListEntryCnt

-----------------------------------------------------------------------------
(* Tables.                                                                 *)

(* The cache line of an entry, n entries of it per line.                   *)
Line(start, id, n) == start + 64 * ((id - 1) \div n)

(* Its index in the line, from id[2:0] or id[1:0]; the entry with all bits *)
(* clear is the last of its line.                                          *)
EntryIndex(id, n) == IF id % n = 0 THEN n - 1 ELSE (id % n) - 1

(* Lookup of page number hppa: its ATT entry, and the index decode_AttEntry*)
(* takes straight from the address bits hppa[14:12].                       *)
AttEntryId(hppa) == hppa - HPPA_BASE + 1
DecodeIndex(hppa) == hppa % 8

ListByte(e) == Line(HAWK_LIST_START, e, 4) + 16 * EntryIndex(e, 4)
AttByte(a) == Line(HAWK_ATT_START, a, 8) + 8 * EntryIndex(a, 8)

(* The way of a list entry, as INIT_LIST writes it, and lst_entry_id.      *)
WayByte(e) == HAWK_PPA_START + 4096 * (e - 1)
lst_entry_id(iWay_ptr) == ((iWay_ptr - HAWK_PPA_START) \div 4096) + 1

-----------------------------------------------------------------------------
(* Ways and their slots.                                                   *)

ZS_OFFSET == 64         \* metadata line before the first slot
cpage_size == 1088      \* the only supported compressed size, 17 lines
Slots == 1 .. 3         \* MAX_PAGE_ZSPAGE
PageOf(byte) == 4096 * (byte \div 4096)     \* {addr[47:12], 12'd0}

cPage_byteStart(iway_ptr, s) == iway_ptr + ZS_OFFSET + (s - 1) * cpage_size

(* The room test of getFreeCpage_ZsPageiWay for slots two and three.  The  *)
(* metadata field it starts from is the ATT entry of the page before.      *)
SlotHasRoom(iway_ptr, pageBefore) ==
  pageBefore + 2 * cpage_size < iway_ptr + 4096

(* The test of FREEWAY_OR_CONTINUE.                                        *)
TakesFreeway(start) == start + cpage_size < PageOf(start) + 4096
===============================================================================
