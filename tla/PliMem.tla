-------------------------------- MODULE PliMem --------------------------------
(***************************************************************************)
(* The memory of the simulated system (tools/pli/iop: bw_lib.c, b_ary.c,   *)
(* iob_main.cc): the image is read into a B-tree of 64-byte lines, which   *)
(* the simulation then reads and writes 8 bytes at a time through a cache  *)
(* of one line.                                                            *)
(*                                                                         *)
(* As in the image, the unit is 8 bytes: a line has 8 of them.             *)
(***************************************************************************)
EXTENDS Integers, Sequences, SequencesExt, Functions

CONSTANTS
  MEM_SPACE,   \* the units the key of a line tells apart
  Unset        \* what memory nobody wrote holds
ASSUME MemSpaceAssumption == MEM_SPACE \in Nat \ {0} /\ MEM_SPACE % 8 = 0

LINE_UNITS == 8
B_TREE_ORDER == 2
B_TREE_MAX == 2 * B_TREE_ORDER
NULL == -1

VARIABLES
  next,        \* the line of the image read_mem reads next, 0 when it is done,
               \* -1 when the simulator died
  addr, cidx,  \* address of the line being filled, and how far it is filled
  cbuf,        \* the line being filled; never cleared
  nodes, root, \* the nodes of the B-tree and which one is its root
  atoms,       \* the data of the lines in the tree, by key
  last_addr,   \* line of the last access
  data         \* the line last_addr stands for, or NULL

loadvars == <<next, addr, cidx, cbuf>>
treevars == <<nodes, root, atoms>>
cachevars == <<last_addr, data>>
memvars == <<loadvars, treevars, cachevars>>

mask_addr(a) == (a % MEM_SPACE) \div LINE_UNITS

-----------------------------------------------------------------------------
(* The B-tree.  A node has keys k1 < .. < kn and children c0 .. cn; the    *)
(* children of a leaf are all 0.                                           *)

b_create == [keys |-> << >>, kids |-> <<0>>]

(* How many keys of the node are not above k. *)
b_scanNode(node, k) == Cardinality({i \in DOMAIN node.keys : node.keys[i] <= k})

Holds(node, k) == \E i \in DOMAIN node.keys : node.keys[i] = k

(* The child behind which k belongs, 0 in a leaf. *)
Kid(node, k) == node.kids[b_scanNode(node, k) + 1]

b_Find(k) ==
  LET find[id \in DOMAIN nodes] ==
        \/ Holds(nodes[id], k)
        \/ Kid(nodes[id], k) # 0 /\ find[Kid(nodes[id], k)]
  IN  find[root]

(* Mutant: the right half of a split loses its first child. *)
MutAddData(ns, id, k, rp) ==
  LET i == b_scanNode(ns[id], k)
      keys == InsertAt(ns[id].keys, i + 1, k)
      kids == InsertAt(ns[id].kids, i + 2, rp)
      left == [keys |-> SubSeq(keys, 1, B_TREE_ORDER),
               kids |-> SubSeq(kids, 1, B_TREE_ORDER + 1)]
      right == [keys |-> SubSeq(keys, B_TREE_ORDER + 2, Len(keys)),
                kids |-> <<0>> \o SubSeq(kids, B_TREE_ORDER + 3, Len(kids))]
  IN  IF Len(ns[id].keys) < B_TREE_MAX
      THEN [nodes |-> [ns EXCEPT ![id] = [keys |-> keys, kids |-> kids]],
            key |-> k, rp |-> 0, done |-> TRUE]
      ELSE [nodes |-> Append([ns EXCEPT ![id] = left], right),
            key |-> keys[B_TREE_ORDER + 1], rp |-> Len(ns) + 1, done |-> FALSE]

(* Key k with the subtree rp behind it goes into node id.  A full node is  *)
(* split: rp is then the new right half and key the one that moves up.     *)
b_addData(ns, id, k, rp) ==
  LET i == b_scanNode(ns[id], k)
      keys == InsertAt(ns[id].keys, i + 1, k)
      kids == InsertAt(ns[id].kids, i + 2, rp)
      left == [keys |-> SubSeq(keys, 1, B_TREE_ORDER),
               kids |-> SubSeq(kids, 1, B_TREE_ORDER + 1)]
      right == [keys |-> SubSeq(keys, B_TREE_ORDER + 2, Len(keys)),
                kids |-> SubSeq(kids, B_TREE_ORDER + 2, Len(kids))]
  IN  IF Len(ns[id].keys) < B_TREE_MAX
      THEN [nodes |-> [ns EXCEPT ![id] = [keys |-> keys, kids |-> kids]],
            key |-> k, rp |-> 0, done |-> TRUE]
      ELSE [nodes |-> Append([ns EXCEPT ![id] = left], right),
            key |-> keys[B_TREE_ORDER + 1], rp |-> Len(ns) + 1, done |-> FALSE]

(* Key k goes into the leaf it belongs in; a node that is split hands one *)
(* key and its right half to the node above it.                            *)
b_recursiveInsert(k) ==
  LET insert[id \in DOMAIN nodes] ==
        LET kid == Kid(nodes[id], k)
            st == insert[kid]
        IN  IF kid = 0 THEN b_addData(nodes, id, k, 0)
            ELSE IF st.done THEN st ELSE b_addData(st.nodes, id, st.key, st.rp)
  IN  insert[root]

(* b_insert: a line whose key is there already is dropped. *)
b_insert(k, line) ==
  IF b_Find(k) THEN UNCHANGED treevars
  ELSE LET r == b_recursiveInsert(k)
       IN  /\ IF r.done THEN nodes' = r.nodes /\ root' = root
              ELSE /\ nodes' = Append(r.nodes, [keys |-> <<r.key>>, kids |-> <<root, r.rp>>])
                   /\ root' = Len(r.nodes) + 1
           /\ atoms' = [i \in DOMAIN atoms \cup {k} |-> IF i = k THEN line ELSE atoms[i]]

-----------------------------------------------------------------------------
(* Reading the image. *)

MemInit ==
  /\ next = 1 /\ addr = 0 /\ cidx = 0
  /\ cbuf = [i \in 0 .. 2 * LINE_UNITS - 1 |-> Unset]
  /\ nodes = <<b_create>> /\ root = 1
  /\ atoms = [k \in {} |-> << >>]
  /\ last_addr = 0 /\ data = NULL

Loading(text) == next > 0 /\ next \in DOMAIN text

(* An address, a number: what is in the buffer becomes a line of its own, whose rest *)
(* malloc left as it was.  The buffer is not cleared and the next line is  *)
(* filled from the offset of the address on.                               *)
ReadAddress(text) ==
  /\ Loading(text) /\ text[next].kind = "at" /\ text[next].addr \in Nat
  /\ IF cidx # 0
     THEN b_insert(mask_addr(addr),
                   [i \in 0 .. LINE_UNITS - 1 |-> IF i < cidx THEN cbuf[i] ELSE Unset])
     ELSE UNCHANGED treevars
  /\ addr' = text[next].addr
  /\ cidx' = text[next].addr % LINE_UNITS
  /\ next' = next + 1
  /\ UNCHANGED <<cbuf, cachevars>>

Full(n) == n >= LINE_UNITS

(* Data: once 64 bytes are there they become a line of the tree. *)
ReadData(text) ==
  /\ Loading(text) /\ text[next].kind = "data"
  /\ LET ws == text[next].words
         n == cidx + Len(ws)
         filled == [i \in DOMAIN cbuf |->
                      IF i \in cidx .. n - 1 THEN ws[i - cidx + 1] ELSE cbuf[i]]
     IN  IF ~Full(n)
         THEN /\ cbuf' = filled /\ cidx' = n
              /\ UNCHANGED <<addr, treevars>>
         ELSE /\ b_insert(mask_addr(addr), [i \in 0 .. LINE_UNITS - 1 |-> filled[i]])
              /\ cbuf' = [i \in DOMAIN cbuf |->
                            IF i + LINE_UNITS < n THEN filled[i + LINE_UNITS] ELSE filled[i]]
              /\ cidx' = n - LINE_UNITS
              /\ addr' = addr + LINE_UNITS
  /\ next' = next + 1
  /\ UNCHANGED cachevars

(* A note of zero bytes is remembered and never used. *)
ReadZeroBytes(text) ==
  /\ Loading(text) /\ text[next].kind = "zero"
  /\ next' = next + 1
  /\ UNCHANGED <<addr, cidx, cbuf, treevars, cachevars>>

(* The end of the file; a line not yet full is dropped. *)
EndOfImage(text) ==
  /\ next > 0 /\ next \notin DOMAIN text
  /\ next' = 0
  /\ UNCHANGED <<addr, cidx, cbuf, treevars, cachevars>>

LoadNext(text) ==
  ReadAddress(text) \/ ReadData(text) \/ ReadZeroBytes(text) \/ EndOfImage(text)

-----------------------------------------------------------------------------
(* Accesses of the simulation. *)

Ready == next = 0

(* What the tree holds for a. *)
Memory(a) ==
  LET k == mask_addr(a)
  IN  IF b_Find(k) THEN atoms[k][a % LINE_UNITS] ELSE 0

(* Until a line is cached, last_addr is that of line 0 and data is NULL.   *)
NullRead(a) == last_addr = mask_addr(a) /\ data = NULL

(* What read_64b_call returns for a now. *)
Reads(a) ==
  IF last_addr = mask_addr(a) THEN atoms[data][a % LINE_UNITS] ELSE Memory(a)

read_64b_call(a) ==
  /\ Ready
  /\ IF NullRead(a) THEN next' = NULL /\ UNCHANGED cachevars
     ELSE /\ IF b_Find(mask_addr(a))
             THEN last_addr' = mask_addr(a) /\ data' = mask_addr(a)
             ELSE UNCHANGED cachevars
          /\ UNCHANGED next
  /\ UNCHANGED <<addr, cidx, cbuf, treevars>>

(* Mutant: a write to another line leaves the old one in the cache. *)
MutWrite(a, v) ==
  LET k == mask_addr(a)
  IN  /\ Ready
      /\ IF b_Find(k)
         THEN /\ atoms' = [atoms EXCEPT ![k][a % LINE_UNITS] = v]
              /\ last_addr' = k /\ UNCHANGED data
              /\ UNCHANGED <<nodes, root>>
         ELSE /\ b_insert(k, [i \in 0 .. LINE_UNITS - 1 |->
                                IF i = a % LINE_UNITS THEN v ELSE 0])
              /\ last_addr' = IF last_addr = k THEN 0 ELSE last_addr
              /\ UNCHANGED data
      /\ UNCHANGED loadvars

write_64b_call(a, v) ==
  LET k == mask_addr(a)
  IN  /\ Ready
      /\ IF b_Find(k)
         THEN /\ atoms' = [atoms EXCEPT ![k][a % LINE_UNITS] = v]
              /\ last_addr' = k /\ data' = k
              /\ UNCHANGED <<nodes, root>>
         ELSE /\ b_insert(k, [i \in 0 .. LINE_UNITS - 1 |->
                                IF i = a % LINE_UNITS THEN v ELSE 0])
              /\ last_addr' = IF last_addr = k THEN 0 ELSE last_addr
              /\ UNCHANGED data
      /\ UNCHANGED loadvars
=============================================================================
