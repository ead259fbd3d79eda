-------------------------------- MODULE GfBlock --------------------------------
(***************************************************************************)
(* Blocks: the parts of a linked executable that go to the memory image,   *)
(* to the TSBs and to the symbol table (block.c, block_tsb.c).             *)
(***************************************************************************)
EXTENDS GfTsb

CONSTANT PA_SPACE    \* 2 to the physical address size, in units
ASSUME PaSpaceAssumption == is_pow2(PA_SPACE)

init_block ==
  [name |-> NoName, link_section |-> NoName, compress |-> FALSE,
   in_image |-> TRUE, va |-> NO_ADDR, ra |-> NO_ADDR, pa |-> NO_ADDR,
   ra_eq_va |-> FALSE, pa_eq_va |-> FALSE, end_va |-> NO_ADDR,
   start_label |-> NoName, end_label |-> NoName, no_end_range_check |-> Junk,
   tsbs |-> << >>, tsbcsms |-> << >>, d_offset |-> 0, d_length |-> 0]

NoBits == [hi |-> NO_BITS, lo |-> NO_BITS]

init_block_tsb ==
  [name |-> NoName, page_size |-> 0, tag_base |-> NO_ADDR, data_base |-> NO_ADDR,
   va_index_bits |-> NoBits, tag_addr_bits |-> NoBits,
   tte_tag_addr_bits |-> NoBits, data_addr_bits |-> NoBits]

init_block_tsbcsm == [name |-> NoName, clump_num |-> 0]

(* The names of TSBs a block gives are those of TSBs that exist. *)
finish_single_block_init(b, tsbs, tsbcsms) ==
  IF \/ \E i \in DOMAIN b.tsbs : PtrByName(tsbs, b.tsbs[i].name) = 0
     \/ \E i \in DOMAIN b.tsbcsms : PtrByName(tsbcsms, b.tsbcsms[i].name) = 0
  THEN "M_BADTSB"
  ELSE Ok

-----------------------------------------------------------------------------
(* Checks of a block as it was declared, and again when it has its         *)
(* addresses.                                                              *)

BitsGiven(r) == r.hi \in 0 .. 63 /\ r.lo \in 0 .. 63

Aligned(a, bt) == a = NO_ADDR \/ is_aligned(a, bt.page_size)

sanity_check_block_tsb(b, bt) ==
  CASE \/ b.ra = NO_ADDR /\ ~b.ra_eq_va
       \/ bt.tag_base = NO_ADDR
       \/ bt.data_base = NO_ADDR
       \/ ~BitsGiven(bt.va_index_bits)
       \/ ~BitsGiven(bt.tag_addr_bits)
       \/ ~BitsGiven(bt.tte_tag_addr_bits)
       \/ ~BitsGiven(bt.data_addr_bits)
       \/ ~is_pow2(bt.page_size)
         -> "M_BLOCKSYNTAX"
    [] ~(Aligned(b.ra, bt) /\ Aligned(b.va, bt) /\ Aligned(b.pa, bt))
         -> "M_BADALIGN"
    [] OTHER -> Ok

BlockTsbsError(b) ==
  FirstError([i \in DOMAIN b.tsbs |-> sanity_check_block_tsb(b, b.tsbs[i])])

BlockSyntaxError(b) ==
  \/ b.va # NO_ADDR /\ b.start_label # NoName
  \/ b.end_va # NO_ADDR /\ b.end_label # NoName
  \/ b.pa = NO_ADDR /\ ~b.pa_eq_va /\ b.in_image
  \/ b.pa # NO_ADDR /\ b.pa_eq_va
  \/ b.ra = NO_ADDR /\ ~b.ra_eq_va /\ b.tsbs # << >>
  \/ b.ra # NO_ADDR /\ b.ra_eq_va

sanity_check_block(b) ==
  FirstError(<<BlockTsbsError(b), IF BlockSyntaxError(b) THEN "M_BLOCKSYNTAX" ELSE Ok>>)

-----------------------------------------------------------------------------
(* Where a block lies, from the section ls it is linked in.  Unless the    *)
(* block sets no_end_range_check it is junk, what malloc returned.         *)

ValueOf(ls, label) == ls.symtab[lookup_symtab(ls.symtab, label)].value

block_calculate_size(b, ls, junk) ==
  LET seg_end == ls.start_va + ls.length
      va == CASE b.start_label # NoName -> ValueOf(ls, b.start_label)
              [] b.start_label = NoName /\ b.va = NO_ADDR -> ls.start_va
              [] OTHER -> b.va
      stop == CASE b.end_label # NoName -> ValueOf(ls, b.end_label)
                [] b.end_label = NoName /\ b.end_va # NO_ADDR -> b.end_va
                [] OTHER -> seg_end
      unknown(label) == label # NoName /\ lookup_symtab(ls.symtab, label) = 0
      placed == [b EXCEPT !.va = va, !.d_offset = va - ls.start_va,
                          !.d_length = stop - va,
                          !.ra = IF b.ra_eq_va THEN va % PA_SPACE ELSE @,
                          !.pa = IF b.pa_eq_va THEN va % PA_SPACE ELSE @]
      noCheck == IF b.no_end_range_check = Junk THEN junk ELSE b.no_end_range_check = 1
      badEnd == /\ b.end_label = NoName /\ b.end_va # NO_ADDR
                /\ \/ b.end_va < ls.start_va
                   \/ ~noCheck /\ b.end_va > seg_end
                   \/ b.end_va < va
      err == CASE unknown(b.start_label) -> "M_BADLABEL"
               [] ~unknown(b.start_label) /\ (va < ls.start_va \/ va > seg_end)
                    -> "M_OUTOFRANGE"
               [] unknown(b.end_label) -> "M_BADLABEL"
               [] badEnd -> "M_OUTOFRANGE"
               [] OTHER -> BlockTsbsError(placed)
  IN  [err |-> err, block |-> IF err = Ok THEN placed ELSE b]

-----------------------------------------------------------------------------
(* The image of a block. *)

(* Mutant: a block is read from the start of its section. *)
MutBlockWord(b, s, i) ==
  CASE i >= Len(s.data) -> Junk
    [] i < Len(s.data) /\ s.type = "NOBITS" -> 0
    [] OTHER -> s.data[i + 1]

(* The units of the block in section s: a section without contents is all  *)
(* zeros; behind the buffer lies whatever the heap holds.                  *)
BlockWord(b, s, i) ==
  LET j == b.d_offset + i
      size == IF s.type = "NOBITS" /\ b.d_length > Len(s.data)
              THEN b.d_length ELSE Len(s.data)
  IN  CASE j >= size -> Junk
        [] j < size /\ s.type = "NOBITS" -> 0
        [] OTHER -> s.data[j + 1]

BlockObject(b) == [start |-> b.pa, stop |-> b.pa + b.d_length, name |-> b.name]

(* Line by line, leaving out lines of zeros when the block is compressed.  *)
(* zero keeps its value on a last line that is not full.                   *)
block_generate_image(b, s, compressOn, envZero) ==
  LET compress == b.compress /\ compressOn
      Word(i) == BlockWord(b, s, i)
      Step(st, i) ==
        LET full == i + LINE <= b.d_length
            zero == IF full THEN \A k \in i .. i + LINE - 1 : Word(k) = 0
                            ELSE st.zero
            len == IF full THEN LINE ELSE b.d_length - i
            resume == st.skip /\ ~zero
        IN  IF compress /\ full /\ zero
            THEN [st EXCEPT !.skip = TRUE, !.last = IF st.skip THEN @ ELSE st.pa,
                            !.pa = @ + LINE, !.zero = TRUE]
            ELSE [st EXCEPT
                    !.out = @ \o (IF resume
                                  THEN Resume(st.printed, st.last, st.pa, envZero)
                                  ELSE << >>)
                              \o <<DataLine([k \in 1 .. len |-> Word(i + k - 1)])>>,
                    !.skip = @ /\ ~resume, !.printed = TRUE,
                    !.pa = IF full THEN @ + LINE ELSE @, !.zero = zero]
      lines == (b.d_length + LINE - 1) \div LINE
      end == FoldLeft(Step,
                      [out |-> <<At(b.pa % PA_SPACE)>>, skip |-> FALSE, last |-> b.pa,
                       printed |-> FALSE, pa |-> b.pa, zero |-> FALSE],
                      [k \in 1 .. lines |-> LINE * (k - 1)])
  IN  end.out \o IF end.skip /\ envZero
                 THEN <<ZeroBytes(end.pa - end.last)>> ELSE << >>

-----------------------------------------------------------------------------
(* The pages of a block and the translation each gets in a TSB. *)

NumPages(b, bt) ==
  IF b.d_length = 0 THEN 0 ELSE (b.d_length - 1) \div bt.page_size + 1

PageIndex(b, bt, t, n) ==
  LET va == (b.va \div bt.page_size + n) * bt.page_size
  IN  bit_range_to_shifted_mask_64(
        va, [bt.va_index_bits EXCEPT !.hi = @ + get_tsb_size_bits(t)])

PageEntry(b, bt, clump_num, n) ==
  LET va == (b.va \div bt.page_size + n) * bt.page_size
      ra == (b.ra \div bt.page_size + n) * bt.page_size
      tagaddr == bit_range_to_shifted_mask_64(va, bt.tte_tag_addr_bits)
                   * 2^bt.tag_addr_bits.lo
  IN  [tag  |-> Compose(tagaddr, bt.tag_addr_bits, bt.tag_base),
       data |-> Compose(ra, bt.data_addr_bits, bt.data_base),
       clump_num |-> clump_num]

(* Add every page; st is [err, tsb, links].  Block TSB bt gives the bits   *)
(* and sizer the size of the index; for a TSBCSM both are those of the     *)
(* TSB it is paired with.                                                  *)
add_block_tsb_to_tsb(st, b, bt, sizer, clump_num, conflicts, val) ==
  LET Page(acc, n) ==
        LET index == PageIndex(b, bt, sizer, n)
            err == add_entry_error(acc.tsb, index, conflicts)
            r == add_entry(acc.tsb, acc.links, index,
                           PageEntry(b, bt, clump_num, n), val)
        IN  IF acc.err # Ok THEN acc
            ELSE IF err # Ok THEN [acc EXCEPT !.err = err]
            ELSE [err |-> Ok, tsb |-> r.tsb, links |-> r.links]
  IN  FoldLeft(Page, st, [n \in 1 .. NumPages(b, bt) |-> n - 1])

-----------------------------------------------------------------------------
(* The lines of the symbol table for a block: every symbol of its section  *)
(* from its first address to the one after its last, both included.        *)

block_print_symtab(b, ls) ==
  LET inRange == SelectSeq(ls.symtab,
                           LAMBDA s : b.va <= s.value /\ s.value <= b.va + b.d_length)
      start_pa == IF b.pa = NO_ADDR /\ b.in_image THEN b.va ELSE b.pa
      place(start, s) == IF start = NO_ADDR THEN NO_ADDR
                         ELSE (start + s.value - b.va) % PA_SPACE
  IN  [i \in DOMAIN inRange |->
         [block |-> b.name, name |-> inRange[i].name, va |-> inRange[i].value,
          ra |-> place(b.ra, inRange[i]), pa |-> place(start_pa, inRange[i])]]
=============================================================================
