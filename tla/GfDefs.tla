-------------------------------- MODULE GfDefs --------------------------------
(***************************************************************************)
(* What the parts of goldfinger, the tool that turns linked executables    *)
(* into a memory image, have in common: bit ranges, vectors, symbol        *)
(* tables, the map of physical memory and the text of the image.           *)
(*                                                                         *)
(* Addresses and data are counted in units of 8 bytes, the pair of words   *)
(* the image prints as one group: a line of the image has 4 of them, a     *)
(* TSB entry 2 and an entry of a link area 4.  A datum is 0, a positive    *)
(* number, -1 (all ones) or Junk, what uninitialised memory happens to     *)
(* hold.                                                                   *)
(***************************************************************************)
EXTENDS Integers, Sequences, SequencesExt, FiniteSets

LINE == 4
BYTES_PER_ENTRY == 2
LINK_SIZE == 4

(* All ones, in each of its roles. *)
NO_ADDR == -1
NO_BITS == -1
EOL == -1
TSB_LINK_TAG == -1

Junk == -2

NoName == "<none>"
NoElf == [sections |-> << >>, symbols |-> << >>]

(* A run of the tool ends with the first error it reports. *)
Ok == "ok"
FirstError(es) ==
  LET bad == SelectSeq(es, LAMBDA e : e # Ok)
  IN  IF bad = << >> THEN Ok ELSE bad[1]

-----------------------------------------------------------------------------
(* Vectors: elements are added at the end, looked up by the first that     *)
(* matches and visited in order.                                           *)

add_vector_elements(v, el) == Append(v, el)

search_vector(hits) ==
  IF hits = {} THEN 0 ELSE CHOOSE i \in hits : \A j \in hits : i <= j

PtrByName(v, name) == search_vector({i \in DOMAIN v : v[i].name = name})

-----------------------------------------------------------------------------
(* Bit ranges [hi, lo] of a 64-bit word. *)

bit_range_to_shifted_mask_64(x, r) == (x \div 2^r.lo) % 2^(r.hi - r.lo + 1)

bit_range_to_mask_64(x, r) == bit_range_to_shifted_mask_64(x, r) * 2^r.lo

(* The field f in the bits of r, base in the others. *)
Compose(f, r, base) ==
  bit_range_to_mask_64(f, r) + (base - bit_range_to_mask_64(base, r))

is_pow2(n) == \E k \in 0 .. 30 : n = 2^k

is_aligned(n, alignment) == n % alignment = 0

log2(n) == CHOOSE k \in 0 .. 30 : 2^k <= n /\ n < 2^(k + 1)

-----------------------------------------------------------------------------
(* Symbol tables: the symbols of the executable defined in one section.    *)

build_linked_section_symbol_table(syms, shndx) ==
  SelectSeq(syms, LAMBDA s : s.name # NoName /\ s.shndx # 0 /\ s.shndx = shndx)

lookup_symtab(symtab, label) == PtrByName(symtab, label)

-----------------------------------------------------------------------------
(* The map of physical memory. *)

collides(check, entry) ==
  ~(check.stop <= entry.start \/ check.start >= entry.stop)

(* Mutant: only the first region is compared. *)
MutCheckFirst(physmap, entry) ==
  IF physmap # << >> /\ collides(entry, physmap[1]) THEN "M_PACOLLIDE" ELSE Ok

check_entry_vs_vector(physmap, entry) ==
  CASE entry.stop < entry.start -> "M_GOLDFINGERMISC"
    [] \E i \in DOMAIN physmap : collides(entry, physmap[i]) -> "M_PACOLLIDE"
    [] OTHER -> Ok

add_to_physmap(physmap, entry) == add_vector_elements(physmap, entry)

-----------------------------------------------------------------------------
(* The text of the image: an address, a line of up to 4 units, a note that *)
(* a stretch of zeros was left out.                                        *)

At(a) == [kind |-> "at", addr |-> a]
DataLine(ws) == [kind |-> "data", words |-> ws]
ZeroBytes(n) == [kind |-> "zero", n |-> n]

(* What follows a compressed stretch [last, here): with the environment    *)
(* zeroing memory, a note of its length (at its own address when data was  *)
(* printed before it), then the address the data resumes at.               *)
ZeroNote(printed, last, here, envZero) ==
  IF ~envZero THEN << >>
  ELSE (IF printed THEN <<At(last)>> ELSE << >>) \o <<ZeroBytes(here - last)>>

(* Mutant: the address is printed only with the note. *)
MutResume(printed, last, here, envZero) == ZeroNote(printed, last, here, envZero)

Resume(printed, last, here, envZero) ==
  ZeroNote(printed, last, here, envZero) \o <<At(here)>>
=============================================================================
