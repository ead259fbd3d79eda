--------------------------------- MODULE GfTsb ---------------------------------
(***************************************************************************)
(* Translation storage buffers and their link areas (tsb.c, tsb_link.c).   *)
(*                                                                         *)
(* The tool keeps TSBs and, for systems that share memory in clumps,       *)
(* TSBCSMs, whose entries also have a clump number; the code for the two   *)
(* is a copy of the other, so one operator stands for both and what sets   *)
(* them apart is a parameter: the value an entry is written out with (data *)
(* or clump number), which is also what a chain of the link area keeps.    *)
(***************************************************************************)
EXTENDS GfDefs

TSB_SIZE_MAX == 15

init_tsb ==
  [name |-> NoName, num_entries |-> 0, start_addr |-> NO_ADDR,
   size_bits |-> 0, split |-> 0, link_area |-> NoName, entries |-> << >>]

init_tsb_link == [name |-> NoName, start_addr |-> NO_ADDR, entries |-> << >>]

sanity_check_tsb(t) ==
  IF \/ t.size_bits > TSB_SIZE_MAX
     \/ t.split > 1
     \/ t.num_entries = 0
     \/ t.start_addr = NO_ADDR
  THEN "M_BADTSB"
  ELSE Ok

sanity_check_tsb_link(l) ==
  IF l.start_addr = NO_ADDR THEN "M_BADTSB" ELSE Ok

ZeroEntry == [tag |-> 0, data |-> 0, clump_num |-> 0]

(* The check of the area a TSB names, and its table of zeroed entries. *)
LinkAreaError(t, links) ==
  IF t.link_area # NoName /\ PtrByName(links, t.link_area) = 0
  THEN "M_BADTSB"
  ELSE Ok

finish_single_tsb_init(t) ==
  [t EXCEPT !.entries = [i \in 0 .. t.num_entries - 1 |-> ZeroEntry]]

get_tsb_size_bits(t) == t.size_bits

-----------------------------------------------------------------------------
(* Chains of the link area.  An entry's next pointer and the link it is    *)
(* written with always change together: next is kept, my_link(l, next) is  *)
(* the link.                                                               *)

my_link(l, i) == l.start_addr + (i - 1) * LINK_SIZE

LinkOf(l, i) ==
  IF l.entries[i].next = 0 THEN EOL ELSE my_link(l, l.entries[i].next)

start_new_chain(l, tag, val) ==
  [l EXCEPT !.entries = add_vector_elements(@, [tag |-> tag, val |-> val, next |-> 0])]

(* Mutant: an entry is linked behind the first of the area. *)
MutAddToChain(l, last, tag, val) ==
  LET new == Len(l.entries) + 1
  IN  [start_new_chain(l, tag, val) EXCEPT !.entries[1].next = new]

add_to_chain(l, last, tag, val) ==
  LET new == Len(l.entries) + 1
  IN  [start_new_chain(l, tag, val) EXCEPT !.entries[last].next = new]

ChainEnd(l, i) ==
  LET end[j \in DOMAIN l.entries] ==
        IF l.entries[j].next = 0 THEN j ELSE end[l.entries[j].next]
  IN  end[i]

(* The area and the TSB entry after one more (tag, val) went to an entry   *)
(* that already holds a translation or the head of a chain.                *)
tsb_link_add_entry(l, e, old, tag, val) ==
  IF e.tag = TSB_LINK_TAG
  THEN LET head == (e.data - l.start_addr) \div LINK_SIZE + 1
       IN  [link |-> add_to_chain(l, ChainEnd(l, head), tag, val), entry |-> e]
  ELSE LET head == Len(l.entries) + 1
       IN  [link  |-> add_to_chain(start_new_chain(l, e.tag, old), head, tag, val),
            entry |-> [e EXCEPT !.tag = TSB_LINK_TAG, !.data = my_link(l, head)]]

(* An entry with no bit set is free. *)
IsFree(e) == e.tag = 0 /\ e.data = 0

add_entry_error(t, index, conflicts) ==
  CASE index >= t.num_entries -> "M_BADTSB"
    [] IsFree(t.entries[index]) -> Ok
    [] ~conflicts -> "M_VACOLLIDE"
    [] t.link_area = NoName -> "M_BADTSB"
    [] OTHER -> Ok

(* Add translation new = [tag, data, clump_num] at index.  The result is   *)
(* the TSB and the vector of link areas; val names the member a chain keeps.*)
add_entry(t, links, index, new, val) ==
  IF IsFree(t.entries[index])
  THEN [tsb |-> [t EXCEPT !.entries[index] = new], links |-> links]
  ELSE LET e == t.entries[index]
           k == PtrByName(links, t.link_area)
           r == tsb_link_add_entry(links[k], e, e[val], new.tag, new[val])
       IN  [tsb   |-> [t EXCEPT !.entries[index] = r.entry],
            links |-> [links EXCEPT ![k] = r.link]]

-----------------------------------------------------------------------------
(* Writing the image. *)

TsbObject(t) ==
  [start |-> t.start_addr,
   stop  |-> t.start_addr + t.num_entries * BYTES_PER_ENTRY, name |-> t.name]

(* Two entries a line; a line of free entries is left out.  The second     *)
(* entry of the last line lies behind the table when the number is odd.    *)
write_tsb(t, val, suppressZero, envZero) ==
  LET addr(i) == t.start_addr + i * BYTES_PER_ENTRY
      entry(i) == IF i < t.num_entries THEN t.entries[i]
                  ELSE [tag |-> Junk, data |-> Junk, clump_num |-> Junk]
      words(i) == <<entry(i).tag, entry(i)[val], entry(i+1).tag, entry(i+1)[val]>>
      Step(st, i) ==
        IF suppressZero /\ IsFree(entry(i)) /\ IsFree(entry(i + 1))
        THEN [st EXCEPT !.skip = TRUE, !.last = IF st.skip THEN @ ELSE addr(i)]
        ELSE [st EXCEPT
                !.out = @ \o (IF st.skip
                              THEN Resume(st.printed, st.last, addr(i), envZero)
                              ELSE << >>)
                          \o <<DataLine(words(i))>>,
                !.skip = FALSE, !.printed = TRUE]
      pairs == (t.num_entries + 1) \div 2
      end == FoldLeft(Step,
                      [out |-> <<At(t.start_addr)>>, skip |-> FALSE,
                       last |-> t.start_addr, printed |-> FALSE],
                      [k \in 1 .. pairs |-> 2 * (k - 1)])
  IN  end.out \o IF end.skip
                 THEN ZeroNote(end.printed, end.last, addr(2 * pairs), envZero)
                 ELSE << >>

LinkObject(l) ==
  [start |-> l.start_addr,
   stop  |-> l.start_addr + Len(l.entries) * LINK_SIZE, name |-> l.name]

write_tsb_link(l) ==
  <<At(l.start_addr)>> \o
  [i \in DOMAIN l.entries |->
     DataLine(<<l.entries[i].tag, l.entries[i].val, LinkOf(l, i), LinkOf(l, i)>>)]
=============================================================================
