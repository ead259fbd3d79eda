------------------------------ MODULE ImageFlowInv ------------------------------
(***************************************************************************)
(* What the memory image and the memory it is loaded into must satisfy.    *)
(***************************************************************************)
EXTENDS ImageFlow

-----------------------------------------------------------------------------
(* The map of physical memory. *)

(* Where each data line of the image goes: sequence of [at, len]. *)
DataAt ==
  LET Step(st, l) ==
        CASE l.kind = "at" -> [st EXCEPT !.at = l.addr]
          [] l.kind = "data" ->
               [at |-> st.at + Len(l.words),
                out |-> Append(st.out, [at |-> st.at, len |-> Len(l.words)])]
          [] OTHER -> st
  IN  FoldLeft(Step, [at |-> 0, out |-> << >>], image).out

(* No two objects of the image overlap, and a finished image has no data   *)
(* outside the regions the map of physical memory shows (physmap_add_block *)
(* and physmap_add_object, called before anything is written).             *)
ImageInsideMap ==
  /\ \A i, j \in DOMAIN physmap : i # j => ~collides(physmap[i], physmap[j])
  /\ stage = "done" /\ next = 1 =>
       LET written == DataAt
       IN  \A k \in DOMAIN written : \E i \in DOMAIN physmap :
             /\ physmap[i].start <= written[k].at
             /\ written[k].at + written[k].len <= physmap[i].stop

-----------------------------------------------------------------------------
(* What the objects say memory holds.  An object is [at, words, sparse]:   *)
(* its lines of zeros are left out of the image when it is sparse.         *)

SectionOf(a, b) ==
  a.elf.sections[CHOOSE i \in DOMAIN a.elf.sections :
                   a.elf.sections[i].name = b.link_section]

(* Behind its section a block has whatever the heap held. *)
WordOf(s, i) == IF i \in DOMAIN s.data THEN s.data[i] ELSE Junk

BlockContents(a, b) ==
  [at |-> b.pa, sparse |-> b.compress /\ opts.compress,
   words |-> [i \in 1 .. b.d_length |-> WordOf(SectionOf(a, b), b.d_offset + i)]]

TableContents(t, val) ==
  [at |-> t.start_addr, sparse |-> opts.compress,
   words |-> FlattenSeq([i \in 1 .. t.num_entries |->
                           <<t.entries[i - 1].tag, t.entries[i - 1][val]>>])]

ChainContents(l) ==
  [at |-> l.start_addr, sparse |-> FALSE,
   words |-> FlattenSeq([i \in DOMAIN l.entries |->
     <<l.entries[i].tag, l.entries[i].val, LinkOf(l, i), LinkOf(l, i)>>])]

Contents ==
  LET blocks(a) == SelectSeq(a.blocks, LAMBDA b : b.in_image)
  IN  FlattenSeq([k \in DOMAIN apps |->
                    [i \in DOMAIN blocks(apps[k]) |->
                       BlockContents(apps[k], blocks(apps[k])[i])]])
      \o IF ~opts.gentsbs THEN << >>
         ELSE [i \in DOMAIN tsbs |-> TableContents(tsbs[i], "data")]
              \o [i \in DOMAIN tsbcsms |-> TableContents(tsbcsms[i], "clump_num")]
              \o [i \in DOMAIN tsb_links |-> ChainContents(tsb_links[i])]
              \o [i \in DOMAIN tsbcsm_links |-> ChainContents(tsbcsm_links[i])]

Covers(o, a) == o.at <= a /\ a < o.at + Len(o.words)
WordAt(o, a) == o.words[a - o.at + 1]

Line(k) == 8 * k .. 8 * k + 7
Halves(k) == {8 * k .. 8 * k + 3, 8 * k + 4 .. 8 * k + 7}

(* The image leaves out lines of 32 bytes, the memory has lines of 64.     *)
LeftOut(o, half) == o.sparse /\ \A a \in half : WordAt(o, a) = 0
HalfLeftOut(o, k) ==
  \E h \in Halves(k) : LeftOut(o, h) /\ \E g \in Halves(k) : ~LeftOut(o, g)

MemLines == 0 .. MEM_SPACE \div LINE_UNITS - 1
Within(o, k) == \A a \in Line(k) : Covers(o, a)
JustLoaded == Ready /\ used = 0

(* A loaded line is good when it is wholly in one object and wholly in the *)
(* image or wholly left out.                                               *)
Good(c, k) == \E i \in DOMAIN c : Within(c[i], k) /\ ~HalfLeftOut(c[i], k)

(* The simulation finds in memory what the objects hold: a good line reads *)
(* back the section's data or the table's entries, line for line, whether  *)
(* it is in the image or was left out as zero; a line no object touches    *)
(* reads zero (block_generate_image, write_tsb, read_mem, read_64b_call).  *)
LinesLoaded ==
  JustLoaded =>
    LET c == Contents
    IN  \A k \in MemLines :
          /\ \A i \in DOMAIN c :
               Within(c[i], k) /\ ~HalfLeftOut(c[i], k) =>
                 \A a \in Line(k) : Memory(a) = WordAt(c[i], a)
          /\ (\A i \in DOMAIN physmap :
                8 * k + 8 <= physmap[i].start \/ physmap[i].stop <= 8 * k) =>
               \A a \in Line(k) : Memory(a) = 0

-----------------------------------------------------------------------------
(* The walk of a translation table in memory, as software does it: the     *)
(* entry at the page's index or, when it heads a chain, the entries of the *)
(* chain up to the one whose link is all ones.                             *)

Miss == -4

WalkChain(at, tag) ==
  LET walk[a \in {EOL} \cup 0 .. MEM_SPACE - 1] ==
        CASE a = EOL -> Miss
          [] a # EOL /\ Memory(a) = tag -> Memory(a + 1)
          [] OTHER -> walk[Memory(a + 2)]
  IN  walk[at]

Walk(t, index, tag) ==
  LET at == t.start_addr + index * BYTES_PER_ENTRY
  IN  CASE Memory(at) = TSB_LINK_TAG -> WalkChain(Memory(at + 1), tag)
        [] Memory(at) = tag -> Memory(at + 1)
        [] OTHER -> Miss

(* The pages of the blocks a TSB serves, in the order of the blocks: what  *)
(* hardware makes of an address (index, page of the real address) and the  *)
(* tag its entry was given.                                                *)
PagesOf(t) ==
  LET page(b, bt, n) ==
        [index |-> (b.va \div bt.page_size + n) % t.num_entries,
         tag   |-> PageEntry(b, bt, 0, n).tag,
         ra    |-> b.ra - (b.ra % bt.page_size) + n * bt.page_size,
         bits  |-> bt.data_addr_bits]
      ofTsb(b, bt) == IF bt.name # t.name THEN << >>
                      ELSE [n \in 1 .. NumPages(b, bt) |-> page(b, bt, n - 1)]
      ofBlock(b) == FlattenSeq([i \in DOMAIN b.tsbs |-> ofTsb(b, b.tsbs[i])])
      ofApp(a) == FlattenSeq([i \in DOMAIN a.blocks |-> ofBlock(a.blocks[i])])
  IN  FlattenSeq([k \in DOMAIN apps |-> ofApp(apps[k])])

(* Every page of every block is translated by the tables in memory: the    *)
(* walk from its index finds the real address of the first page that was   *)
(* added with its tag, through chains of any length (tsb_add_entry,        *)
(* tsb_link_add_entry, write_tsb, write_tsb_link, read_mem).  A link area  *)
(* that ends the image in the middle of a line of memory is excepted.      *)
WalkFinds ==
  JustLoaded /\ opts.gentsbs =>
    \A i \in DOMAIN tsbs :
      LET c == Contents
          t == tsbs[i]
          ps == PagesOf(t)
          good == \A o \in {TsbObject(t)} \cup {LinkObject(tsb_links[k]) : k \in DOMAIN tsb_links} :
                    \A a \in o.start .. o.stop - 1 : Good(c, mask_addr(a))
      IN  good =>
            \A j \in DOMAIN ps :
              LET same(k) == ps[k].index = ps[j].index /\ ps[k].tag = ps[j].tag
                  f == CHOOSE k \in DOMAIN ps :
                         same(k) /\ \A m \in DOMAIN ps : same(m) => k <= m
                  found == Walk(t, ps[j].index, ps[j].tag)
              IN  /\ found # Miss
                  /\ bit_range_to_mask_64(found, ps[j].bits)
                       = bit_range_to_mask_64(ps[f].ra, ps[j].bits)

(* A symbol's physical address in the symbol table is where the word at    *)
(* its virtual address was loaded (print_symtab_ent_if_in_range), but for  *)
(* the symbol at the end of a block, which belongs to what follows.        *)
SymbolsPointHome ==
  JustLoaded /\ opts.gensymtab =>
    LET c == Contents
    IN  \A i \in DOMAIN symbols, k \in DOMAIN apps :
          \A j \in DOMAIN apps[k].blocks :
            LET r == symbols[i]
                b == apps[k].blocks[j]
                s == SectionOf(apps[k], b)
            IN  /\ r.block = b.name /\ b.in_image
                /\ r.va < b.va + b.d_length
                /\ Good(c, mask_addr(r.pa))
                => Memory(r.pa) = WordOf(s, r.va - s.addr + 1)

-----------------------------------------------------------------------------
(* The memory of the simulation. *)

Height ==
  LET height[id \in DOMAIN nodes] ==
        IF nodes[id].kids[1] = 0 THEN 1 ELSE 1 + height[nodes[id].kids[1]]
  IN  height

(* The keys of a node and of the nodes below it. *)
KeysUnder ==
  LET under[id \in DOMAIN nodes] ==
        ToSet(nodes[id].keys) \cup
        UNION {under[c] : c \in ToSet(nodes[id].kids) \ {0}}
  IN  under

(* The B-tree stays one through any sequence of insertions and splits: all *)
(* leaves are equally deep, no node is over-full, none but the root less   *)
(* than half full, and the keys are in order, each once, those of the      *)
(* lines that were inserted (b_addData, b_insert).                         *)
TreeSound ==
  LET height == Height
      under == KeysUnder
  IN  /\ \A id \in DOMAIN nodes :
           LET n == nodes[id]
           IN  /\ Len(n.kids) = Len(n.keys) + 1
               /\ Len(n.keys) <= B_TREE_MAX
               /\ id # root => Len(n.keys) >= B_TREE_ORDER
               /\ \A i \in DOMAIN n.kids :
                    IF height[id] = 1 THEN n.kids[i] = 0
                    ELSE n.kids[i] # 0 /\ height[n.kids[i]] = height[id] - 1
               /\ \A i, j \in DOMAIN n.keys : i < j => n.keys[i] < n.keys[j]
               /\ height[id] > 1 =>
                    \A i \in DOMAIN n.keys :
                      /\ \A k \in under[n.kids[i]] : k < n.keys[i]
                      /\ \A k \in under[n.kids[i + 1]] : n.keys[i] < k
      /\ under[root] = DOMAIN atoms

(* A read returns what was last written to its address, or what was loaded *)
(* there, whatever the one-line cache holds, except that a first access to *)
(* line 0 finds no line at all (read_64b_call, write_64b_call).            *)
ReadsLastWrite ==
  Ready => \A a \in DOMAIN shadow : ~NullRead(a) => Reads(a) = shadow[a]
=============================================================================
