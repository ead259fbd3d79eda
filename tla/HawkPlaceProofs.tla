---------------------------- MODULE HawkPlaceProofs ----------------------------
(***************************************************************************)
(* Where the pages are, for every set of pages and every number of ways:   *)
(* the lists stay lists, ways are conserved, the tables agree, and no page *)
(* is lost or missed, whatever the interleaving of managers, page writer   *)
(* and CPU.                                                                *)
(*                                                                         *)
(* First the list writes of HawkTol.  A list is described without walking  *)
(* it: r gives every entry its role, the list it is on or "OUT", and k a   *)
(* rank that grows along the links.  That the walk of the hardware visits  *)
(* exactly the entries in the role is proved at the end of that part.      *)
(*                                                                         *)
(* Then the engine.  An update of the tables takes the writer up to three  *)
(* writes; the invariant speaks of the tables as they will be when it is   *)
(* done (FutL, FutH, FutAtt), so that a table changes at one step, the one *)
(* that sends the update.  ListInv says what is on the lists, Placed where *)
(* each page is and what each manager is in the middle of.                 *)
(***************************************************************************)
EXTENDS HawkPagerProofs, WellFoundedInduction, FiniteSetTheorems

(* The three lists the managers take ways from and put them on.            *)
Queues == {"FREE", "UNCOMP", "INCOMP"}
Roles == Queues \cup {"OUT"}

(* The list of x links the entries in role x from hd to tl, in the order   *)
(* of their rank.                                                          *)
Ends(x, hd, tl, l, r) ==
  /\ hd = NULL <=> tl = NULL
  /\ hd # NULL =>
       /\ hd \in Entries /\ r[hd] = x /\ l[hd].prev = NULL
       /\ tl \in Entries /\ r[tl] = x /\ l[tl].next = NULL
Links(x, hd, tl, l, r, k) ==
  \A e \in Entries : r[e] = x =>
    /\ hd # NULL
    /\ e # hd => /\ l[e].prev \in Entries /\ r[l[e].prev] = x
                 /\ l[l[e].prev].next = e /\ k[l[e].prev] < k[e]
    /\ e # tl => /\ l[e].next \in Entries /\ r[l[e].next] = x
                 /\ l[l[e].next].prev = e /\ k[e] < k[l[e].next]
Chain(x, hd, tl, l, r, k) == Ends(x, hd, tl, l, r) /\ Links(x, hd, tl, l, r, k)

(* All three lists of the tables l and the registers h.                    *)
Chains(l, h, r, k) ==
  /\ l \in [Entries -> ListEntry] /\ h \in HeadTail
  /\ r \in [Entries -> Roles] /\ k \in [Entries -> Nat]
  /\ \A x \in Queues : Chain(x, h.head[x], h.tail[x], l, r, k)

-----------------------------------------------------------------------------
(* One list under one change.                                              *)

(* A set of numbers has a least element.                                   *)
LEMMA LeastNat ==
  ASSUME NEW T, T \subseteq Nat, T # {}
  PROVE  \E x \in T : \A y \in T : ~ (y < x)
<1>1. \E x \in T : \A y \in T : ~ (<<y, x>> \in OpToRel(<, Nat))
  BY NatLessThanWellFounded, WFMin, ZenonT(20)
<1>2. \A x, y \in Nat : (<<y, x>> \in OpToRel(<, Nat)) <=> y < x
  BY DEF OpToRel
<1> QED BY <1>1, <1>2

(* A list does not notice changes to entries in other roles.               *)
LEMMA OtherList ==
  ASSUME NEW x, NEW hd, NEW tl, NEW l, NEW r, NEW k, NEW l1, NEW r1, NEW k1,
         Chain(x, hd, tl, l, r, k),
         \A f \in Entries : r1[f] = x <=> r[f] = x,
         \A f \in Entries : r[f] = x => l1[f].next = l[f].next /\ l1[f].prev = l[f].prev,
         \A f, g \in Entries : r[f] = x /\ r[g] = x /\ k[f] < k[g] => k1[f] < k1[g]
  PROVE  Chain(x, hd, tl, l1, r1, k1)
<1>1. Ends(x, hd, tl, l1, r1)
  BY DEF Chain, Ends
<1>2. Links(x, hd, tl, l1, r1, k1)
  <2> SUFFICES ASSUME NEW e \in Entries, r1[e] = x
               PROVE  /\ hd # NULL
                      /\ e # hd => /\ l1[e].prev \in Entries /\ r1[l1[e].prev] = x
                                   /\ l1[l1[e].prev].next = e /\ k1[l1[e].prev] < k1[e]
                      /\ e # tl => /\ l1[e].next \in Entries /\ r1[l1[e].next] = x
                                   /\ l1[l1[e].next].prev = e /\ k1[e] < k1[l1[e].next]
    BY DEF Links
  <2>1. /\ hd # NULL
        /\ e # hd => /\ l[e].prev \in Entries /\ r[l[e].prev] = x
                     /\ l[l[e].prev].next = e /\ k[l[e].prev] < k[e]
        /\ e # tl => /\ l[e].next \in Entries /\ r[l[e].next] = x
                     /\ l[l[e].next].prev = e /\ k[e] < k[l[e].next]
    BY DEF Chain, Links
  <2> QED BY <2>1
<1> QED BY <1>1, <1>2 DEF Chain

(* A write elsewhere leaves a list alone.                                  *)
LEMMA OtherListKept ==
  ASSUME NEW x, NEW hd, NEW tl, NEW l, NEW r, NEW k, NEW l1, NEW r1,
         Chain(x, hd, tl, l, r, k),
         \A f \in Entries : r1[f] = x <=> r[f] = x,
         \A f \in Entries : r[f] = x => l1[f].next = l[f].next /\ l1[f].prev = l[f].prev
  PROVE  Chain(x, hd, tl, l1, r1, k)
<1>1. \A f, g \in Entries : r[f] = x /\ r[g] = x /\ k[f] < k[g] => k[f] < k[g]
  OBVIOUS
<1> QED BY <1>1, OtherList

(* The head leaves a list that goes on with the next entry.                *)
LEMMA HeadLeaves ==
  ASSUME NEW x \in Queues, NEW hd, NEW tl, NEW l, NEW r, NEW k, NEW l1, NEW r1,
         Chain(x, hd, tl, l, r, k), hd # NULL, hd # tl,
         k \in [Entries -> Nat],
         \A f \in Entries : /\ l1[f].next = l[f].next
                            /\ l1[f].prev = IF f = l[hd].next THEN NULL ELSE l[f].prev,
         \A f \in Entries : r1[f] = IF f = hd THEN "OUT" ELSE r[f]
  PROVE  Chain(x, l[hd].next, tl, l1, r1, k)
<1> DEFINE n == l[hd].next
<1>1. /\ hd \in Entries /\ r[hd] = x /\ tl \in Entries /\ r[tl] = x
      /\ l[hd].prev = NULL /\ l[tl].next = NULL /\ x # "OUT"
  BY DEF Chain, Ends, Queues
<1>2. n \in Entries /\ r[n] = x /\ l[n].prev = hd /\ k[hd] < k[n] /\ n # hd
  BY <1>1 DEF Chain, Links
<1>3. NULL \notin Entries
  BY DEF NULL, Entries
<1>4. Ends(x, n, tl, l1, r1)
  BY <1>1, <1>2, <1>3 DEF Ends
<1>5. Links(x, n, tl, l1, r1, k)
  <2> SUFFICES ASSUME NEW e \in Entries, r1[e] = x
               PROVE  /\ n # NULL
                      /\ e # n => /\ l1[e].prev \in Entries /\ r1[l1[e].prev] = x
                                  /\ l1[l1[e].prev].next = e /\ k[l1[e].prev] < k[e]
                      /\ e # tl => /\ l1[e].next \in Entries /\ r1[l1[e].next] = x
                                   /\ l1[l1[e].next].prev = e /\ k[e] < k[l1[e].next]
    BY DEF Links
  <2>1. e # hd /\ r[e] = x
    BY <1>1
  <2>2. /\ l[e].prev \in Entries /\ r[l[e].prev] = x
        /\ l[l[e].prev].next = e /\ k[l[e].prev] < k[e]
        /\ e # tl => /\ l[e].next \in Entries /\ r[l[e].next] = x
                     /\ l[l[e].next].prev = e /\ k[e] < k[l[e].next]
    BY <2>1 DEF Chain, Links
  <2>3. e # n => l[e].prev # hd
    BY <2>2
  <2>4. e # tl => l[e].next # n /\ l[e].next # hd
    BY <1>1, <1>2, <1>3, <2>1, <2>2
  <2> QED BY <1>1, <1>2, <1>3, <2>1, <2>2, <2>3, <2>4
<1> QED BY <1>4, <1>5 DEF Chain

(* The only entry leaves its list.                                         *)
LEMMA LastLeaves ==
  ASSUME NEW x \in Queues, NEW hd, NEW l, NEW r, NEW k, NEW r1,
         Chain(x, hd, hd, l, r, k), hd # NULL, k \in [Entries -> Nat],
         \A f \in Entries : r1[f] = IF f = hd THEN "OUT" ELSE r[f]
  PROVE  Chain(x, NULL, NULL, l, r1, k)
<1>1. ASSUME NEW e \in Entries, r[e] = x PROVE e = hd
  <2> SUFFICES ASSUME e # hd PROVE FALSE OBVIOUS
  <2> DEFINE T == {k[f] : f \in {g \in Entries : r[g] = x /\ g # hd}}
  <2>1. T \subseteq Nat /\ T # {}
    BY <1>1
  <2>2. ASSUME NEW m \in T PROVE \E n \in T : n < m
    <3>1. PICK f \in Entries : r[f] = x /\ f # hd /\ m = k[f]
      BY <2>2
    <3>2. l[f].prev \in Entries /\ r[l[f].prev] = x /\ l[l[f].prev].next = f
          /\ k[l[f].prev] < k[f]
      BY <3>1 DEF Chain, Links
    <3>3. l[hd].next = NULL /\ NULL \notin Entries
      BY DEF Chain, Ends, NULL, Entries
    <3>4. l[f].prev # hd
      BY <3>2, <3>3
    <3> QED BY <3>1, <3>2, <3>4
  <2> QED BY <2>1, <2>2, LeastNat
<1>2. x # "OUT"
  BY DEF Queues
<1> QED BY <1>1, <1>2 DEF Chain, Ends, Links

(* An entry that was on no list becomes the only one of an empty list.     *)
LEMMA FirstArrives ==
  ASSUME NEW x \in Queues, NEW l, NEW r, NEW k, NEW e \in Entries, NEW l1, NEW r1,
         Chain(x, NULL, NULL, l, r, k), NULL \notin Entries,
         l1[e].prev = NULL, l1[e].next = NULL,
         \A f \in Entries : r1[f] = IF f = e THEN x ELSE r[f]
  PROVE  Chain(x, e, e, l1, r1, k)
BY DEF Chain, Ends, Links

(* An entry that was on no list follows the tail.                          *)
LEMMA TailArrives ==
  ASSUME NEW x \in Queues, NEW hd, NEW tl, NEW l, NEW r, NEW k,
         NEW e \in Entries, NEW l1, NEW r1, NEW k1,
         Chain(x, hd, tl, l, r, k), tl # NULL, k \in [Entries -> Nat], r[e] = "OUT",
         \A f \in Entries :
           /\ l1[f].prev = IF f = e THEN tl ELSE l[f].prev
           /\ l1[f].next = IF f = e THEN NULL ELSE IF f = tl THEN e ELSE l[f].next,
         \A f \in Entries : r1[f] = IF f = e THEN x ELSE r[f],
         \A f \in Entries : k1[f] = IF f = e THEN k[tl] + 1 ELSE k[f]
  PROVE  Chain(x, hd, e, l1, r1, k1)
<1>1. /\ hd # NULL /\ hd \in Entries /\ r[hd] = x /\ tl \in Entries /\ r[tl] = x
      /\ l[hd].prev = NULL /\ l[tl].next = NULL /\ x # "OUT" /\ NULL \notin Entries
  BY DEF Chain, Ends, Queues, NULL, Entries
<1>2. e # hd /\ e # tl
  BY <1>1
<1>3. Ends(x, hd, e, l1, r1)
  BY <1>1, <1>2 DEF Ends
<1>4. Links(x, hd, e, l1, r1, k1)
  <2> SUFFICES ASSUME NEW f \in Entries, r1[f] = x
               PROVE  /\ hd # NULL
                      /\ f # hd => /\ l1[f].prev \in Entries /\ r1[l1[f].prev] = x
                                   /\ l1[l1[f].prev].next = f /\ k1[l1[f].prev] < k1[f]
                      /\ f # e => /\ l1[f].next \in Entries /\ r1[l1[f].next] = x
                                  /\ l1[l1[f].next].prev = f /\ k1[f] < k1[l1[f].next]
    BY DEF Links
  <2>1. CASE f = e
    <3>1. k[tl] \in Nat /\ k1[tl] = k[tl] /\ k1[e] = k[tl] + 1
      BY <1>1, <1>2
    <3>2. k1[tl] < k1[e]
      BY <3>1
    <3> QED BY <1>1, <1>2, <2>1, <3>2
  <2>2. CASE f # e
    <3>1. /\ r[f] = x
          /\ f # hd => /\ l[f].prev \in Entries /\ r[l[f].prev] = x
                       /\ l[l[f].prev].next = f /\ k[l[f].prev] < k[f]
          /\ f # tl => /\ l[f].next \in Entries /\ r[l[f].next] = x
                       /\ l[l[f].next].prev = f /\ k[f] < k[l[f].next]
      BY <2>2 DEF Chain, Links
    <3>2. f # hd => /\ l1[f].prev \in Entries /\ r1[l1[f].prev] = x
                    /\ l1[l1[f].prev].next = f /\ k1[l1[f].prev] < k1[f]
      BY <1>1, <1>2, <2>2, <3>1
    <3>3. CASE f = tl
      <4>1. k[tl] \in Nat /\ k1[tl] = k[tl] /\ k1[e] = k[tl] + 1
        BY <1>1, <1>2
      <4>2. k1[tl] < k1[e]
        BY <4>1
      <4> QED BY <1>1, <1>2, <2>2, <3>2, <3>3, <4>2
    <3>4. CASE f # tl
      BY <1>1, <1>2, <2>2, <3>1, <3>2, <3>4
    <3> QED BY <3>3, <3>4
  <2> QED BY <2>1, <2>2
<1> QED BY <1>3, <1>4 DEF Chain

(* An entry that was on no list goes before the head.                      *)
LEMMA HeadArrives ==
  ASSUME NEW x \in Queues, NEW hd, NEW tl, NEW l, NEW r, NEW k,
         NEW e \in Entries, NEW l1, NEW r1, NEW k1,
         Chain(x, hd, tl, l, r, k), hd # NULL, k \in [Entries -> Nat], r[e] = "OUT",
         \A f \in Entries :
           /\ l1[f].prev = IF f = e THEN NULL ELSE IF f = hd THEN e ELSE l[f].prev
           /\ l1[f].next = IF f = e THEN hd ELSE l[f].next,
         \A f \in Entries : r1[f] = IF f = e THEN x ELSE r[f],
         \A f \in Entries : k1[f] = IF f = e THEN 0 ELSE k[f] + 1
  PROVE  Chain(x, e, tl, l1, r1, k1)
<1>1. /\ hd # NULL /\ hd \in Entries /\ r[hd] = x /\ tl \in Entries /\ r[tl] = x
      /\ l[hd].prev = NULL /\ l[tl].next = NULL /\ x # "OUT" /\ NULL \notin Entries
  BY DEF Chain, Ends, Queues, NULL, Entries
<1>2. e # hd /\ e # tl
  BY <1>1
<1>3. Ends(x, e, tl, l1, r1)
  BY <1>1, <1>2 DEF Ends
<1>4. \A f \in Entries : f # e => k1[e] < k1[f] /\ k1[f] = k[f] + 1 /\ k[f] \in Nat
  <2> SUFFICES ASSUME NEW f \in Entries, f # e
               PROVE  k1[e] < k1[f] /\ k1[f] = k[f] + 1 /\ k[f] \in Nat
    OBVIOUS
  <2>1. k1[e] = 0 /\ k1[f] = k[f] + 1 /\ k[f] \in Nat
    OBVIOUS
  <2> QED BY <2>1
<1>5. Links(x, e, tl, l1, r1, k1)
  <2> SUFFICES ASSUME NEW f \in Entries, r1[f] = x
               PROVE  /\ e # NULL
                      /\ f # e => /\ l1[f].prev \in Entries /\ r1[l1[f].prev] = x
                                  /\ l1[l1[f].prev].next = f /\ k1[l1[f].prev] < k1[f]
                      /\ f # tl => /\ l1[f].next \in Entries /\ r1[l1[f].next] = x
                                   /\ l1[l1[f].next].prev = f /\ k1[f] < k1[l1[f].next]
    BY DEF Links
  <2>1. CASE f = e
    BY <1>1, <1>2, <1>4, <2>1
  <2>2. CASE f # e
    <3>1. /\ r[f] = x
          /\ f # hd => /\ l[f].prev \in Entries /\ r[l[f].prev] = x
                       /\ l[l[f].prev].next = f /\ k[l[f].prev] < k[f]
          /\ f # tl => /\ l[f].next \in Entries /\ r[l[f].next] = x
                       /\ l[l[f].next].prev = f /\ k[f] < k[l[f].next]
      BY <2>2 DEF Chain, Links
    <3>2. f # tl => l[f].next # e /\ l[f].next # hd
      BY <1>1, <3>1
    <3>3. f # hd => l[f].prev # e
      BY <1>1, <3>1
    <3>4. CASE f = hd
      BY <1>1, <1>2, <1>4, <2>2, <3>1, <3>2, <3>4
    <3>5. CASE f # hd
      BY <1>1, <1>2, <1>4, <2>2, <3>1, <3>2, <3>3, <3>5
    <3> QED BY <3>4, <3>5
  <2> QED BY <2>1, <2>2
<1> QED BY <1>3, <1>5 DEF Chain

-----------------------------------------------------------------------------
(* The update packets: what the writer makes of the tables until it is     *)
(* done with a packet u, from each of its states.                          *)
SrcL(l, h, u) == IF SrcHasMore(h, u) THEN SrcWrite(l, u) ELSE l
SrcH(h, u) == IF SrcHasMore(h, u) THEN SrcRegs(h, u) ELSE SrcEmptied(h, u)
DstL(l, h, u) == IF NeedsDst2(h, u) THEN DstWrite2(DstWrite1(l, h, u), DstRegs1(h, u), u)
                 ELSE DstWrite1(l, h, u)
DstH(h, u) == IF NeedsDst2(h, u) THEN DstRegs2(DstRegs1(h, u), u) ELSE DstRegs1(h, u)

(* u takes the entry at the head of its source list.                       *)
PopPkt(l, h, u) ==
  /\ u \in TolUpdPkt
  /\ u.src_list \in {"FREE", "UNCOMP"}
  /\ u.tolEntryId = h.head[u.src_list] /\ u.tolEntryId # NULL
  /\ u.prev = l[u.tolEntryId].prev /\ u.next = l[u.tolEntryId].next

(* Entries and NULL.                                                       *)
LEMMA EntryTypes == /\ Entries \subseteq EntryOrNull /\ NULL \in EntryOrNull
                    /\ NULL \notin Entries
                    /\ \A e \in EntryOrNull : e # NULL => e \in Entries
BY ListAssumption DEF Entries, EntryOrNull, NULL

(* The registers' fields.                                                  *)
LEMMA RegisterFields ==
  ASSUME NEW h \in HeadTail
  PROVE  /\ h.head \in [Lists -> EntryOrNull] /\ h.tail \in [Lists -> EntryOrNull]
         /\ h = [head |-> h.head, tail |-> h.tail]
BY DEF HeadTail

(* The entry an update moves is on no list in between.                     *)
LEMMA Popped ==
  ASSUME NEW l, NEW h, NEW r, NEW k, NEW u, Chains(l, h, r, k), PopPkt(l, h, u)
  PROVE  /\ u.tolEntryId \in Entries /\ r[u.tolEntryId] = u.src_list
         /\ Chains(SrcL(l, h, u), SrcH(h, u), [r EXCEPT ![u.tolEntryId] = "OUT"], k)
         /\ \A f \in Entries : SrcL(l, h, u)[f].attEntryId = l[f].attEntryId
         /\ SrcH(h, u).head["IFL_SIZE1"] = h.head["IFL_SIZE1"]
<1> DEFINE s == u.src_list
           e == u.tolEntryId
           r1 == [r EXCEPT ![e] = "OUT"]
<1>1. /\ s \in Queues /\ s # "IFL_SIZE1" /\ s \in Lists /\ s \in Lists \ {"INCOMP"}
      /\ h \in HeadTail /\ l \in [Entries -> ListEntry]
      /\ r \in [Entries -> Roles] /\ k \in [Entries -> Nat]
      /\ \A x \in Queues : x \in Lists
  BY DEF Queues, Lists, Chains, PopPkt
<1>2. Chain(s, h.head[s], h.tail[s], l, r, k) /\ e = h.head[s] /\ e # NULL
  BY <1>1 DEF Chains, PopPkt
<1>3. e \in Entries /\ r[e] = s /\ NULL \notin Entries
  BY <1>2 DEF Chain, Ends, NULL, Entries
<1>4. \A f \in Entries : r1[f] = IF f = e THEN "OUT" ELSE r[f]
  BY <1>1
<1>5. r1 \in [Entries -> Roles] /\ "OUT" \notin Queues
  BY <1>1 DEF Roles, Queues
<1>6. CASE SrcHasMore(h, u)
  <2> DEFINE l1 == SrcWrite(l, u)
             h1 == SrcRegs(h, u)
             n == l[e].next
  <2>1. e # h.tail[s]
    BY <1>1, <1>2, <1>6 DEF SrcHasMore
  <2>2. u.prev = NULL /\ u.next = n /\ n \in Entries /\ r[n] = s
    BY <1>2, <1>3, <2>1 DEF Chain, Ends, Links, PopPkt
  <2>3. l1 = [l EXCEPT ![n].prev = NULL] /\ h1 = [h EXCEPT !.head[s] = n]
    BY <1>1, <2>2 DEF SrcWrite, SrcRegs
  <2>4. /\ l1 \in [Entries -> ListEntry]
        /\ \A f \in Entries : /\ l1[f].next = l[f].next
                              /\ l1[f].attEntryId = l[f].attEntryId
                              /\ l1[f].prev = IF f = n THEN NULL ELSE l[f].prev
    BY <1>1, <2>3, <2>2, EntryTypes DEF ListEntry
  <2>5. /\ h1 \in HeadTail /\ h1.tail = h.tail
        /\ h1.head = [h.head EXCEPT ![s] = n]
    BY <1>1, <2>3, <2>2, EntryTypes, RegisterFields DEF HeadTail
  <2>6. h1.head[s] = n /\ \A x \in Lists : x # s => h1.head[x] = h.head[x]
    BY <1>1, <2>5, RegisterFields
  <2>7. ASSUME NEW x \in Queues PROVE Chain(x, h1.head[x], h1.tail[x], l1, r1, k)
    <3>1. CASE x = s
      <4>1. Chain(s, l[h.head[s]].next, h.tail[s], l1, r1, k)
        BY <1>1, <1>2, <1>4, <2>1, <2>4, HeadLeaves
      <4> QED BY <4>1, <3>1, <2>5, <2>6, <1>2
    <3>2. CASE x # s
      <4>1. Chain(x, h.head[x], h.tail[x], l, r, k)
        BY DEF Chains
      <4>2. \A f \in Entries : r1[f] = x <=> r[f] = x
        BY <1>3, <1>4, <1>5, <3>2
      <4>3. \A f \in Entries :
              r[f] = x => l1[f].next = l[f].next /\ l1[f].prev = l[f].prev
        BY <2>2, <2>4, <3>2
      <4>4. Chain(x, h.head[x], h.tail[x], l1, r1, k)
        <5> HIDE DEF l1, r1
        <5> QED BY <4>1, <4>2, <4>3, OtherListKept
      <4>5. x \in Lists
        BY <1>1
      <4> QED BY <4>4, <4>5, <3>2, <2>5, <2>6
    <3> QED BY <3>1, <3>2
  <2>8. "IFL_SIZE1" \in Lists
    BY DEF Lists
  <2> QED BY <1>1, <1>3, <1>5, <1>6, <2>4, <2>5, <2>6, <2>7, <2>8 DEF Chains, SrcL, SrcH
<1>7. CASE ~ SrcHasMore(h, u)
  <2> DEFINE h1 == SrcEmptied(h, u)
  <2>1. h.tail[s] = e
    BY <1>1, <1>2, <1>7 DEF SrcHasMore
  <2>2. h1 = [head |-> [h.head EXCEPT ![s] = NULL], tail |-> [h.tail EXCEPT ![s] = NULL]]
    BY <1>1 DEF SrcEmptied
  <2>3. /\ h1 \in HeadTail /\ h1.head[s] = NULL /\ h1.tail[s] = NULL
        /\ \A x \in Lists : x # s => h1.head[x] = h.head[x] /\ h1.tail[x] = h.tail[x]
    BY <1>1, <2>2, EntryTypes, RegisterFields DEF HeadTail
  <2>4. ASSUME NEW x \in Queues PROVE Chain(x, h1.head[x], h1.tail[x], l, r1, k)
    <3>1. CASE x = s
      <4>1. Chain(s, e, e, l, r, k)
        BY <1>2, <2>1
      <4>2. Chain(s, NULL, NULL, l, r1, k)
        BY <1>1, <1>2, <1>4, <4>1, LastLeaves
      <4> QED BY <4>2, <3>1, <2>3
    <3>2. CASE x # s
      <4>1. Chain(x, h.head[x], h.tail[x], l, r, k)
        BY DEF Chains
      <4>2. \A f \in Entries : r1[f] = x <=> r[f] = x
        BY <1>3, <1>4, <1>5, <3>2
      <4>3. Chain(x, h.head[x], h.tail[x], l, r1, k)
        BY <4>1, <4>2, OtherListKept
      <4>4. x \in Lists
        BY <1>1
      <4> QED BY <4>3, <4>4, <3>2, <2>3
    <3> QED BY <3>1, <3>2
  <2>5. "IFL_SIZE1" \in Lists
    BY DEF Lists
  <2> QED BY <1>1, <1>3, <1>5, <1>7, <2>3, <2>4, <2>5 DEF Chains, SrcL, SrcH
<1> QED BY <1>6, <1>7

(* What an arrival writes: the entry itself, the old tail or head of its   *)
(* list, and the registers of that list.                                   *)
ArrivalLinks(l, h, u, l1) ==
  LET d == u.dst_list
      e == u.tolEntryId
  IN  /\ \A f \in Entries : l1[f].attEntryId = IF f = e THEN u.owner ELSE l[f].attEntryId
      /\ \A f \in Entries : f # e =>
           /\ l1[f].next = IF d = "UNCOMP" /\ f = h.tail[d] THEN e ELSE l[f].next
           /\ l1[f].prev = IF d \in {"INCOMP", "IFL_SIZE1"} /\ f = h.head[d] THEN e
                           ELSE l[f].prev
      /\ d = "UNCOMP" /\ e # h.tail[d] => l1[e].prev = h.tail[d] /\ l1[e].next = NULL
      /\ d = "INCOMP" /\ e # h.head[d] => l1[e].prev = NULL /\ l1[e].next = h.head[d]
ArrivalRegs(h, u, h1) ==
  LET d == u.dst_list
      e == u.tolEntryId
  IN  /\ \A x \in Lists : x # d => h1.head[x] = h.head[x] /\ h1.tail[x] = h.tail[x]
      /\ d = "UNCOMP" => /\ h1.tail[d] = e
                         /\ h1.head[d] = IF h.tail[d] = NULL THEN e ELSE h.head[d]
      /\ d \in {"INCOMP", "IFL_SIZE1"} =>
           /\ h1.head[d] = e
           /\ h1.tail[d] = IF h.head[d] = NULL THEN e ELSE h.tail[d]

(* A destination write puts the entry at its place in the destination      *)
(* list.                                                                   *)
LEMMA Arrival ==
  ASSUME NEW l \in [Entries -> ListEntry], NEW h \in HeadTail, NEW u \in TolUpdPkt,
         u.tolEntryId \in Entries, u.dst_list \in {"UNCOMP", "INCOMP", "NULLIFY", "IFL_SIZE1"}
  PROVE  /\ DstL(l, h, u) \in [Entries -> ListEntry] /\ DstH(h, u) \in HeadTail
         /\ ArrivalLinks(l, h, u, DstL(l, h, u))
         /\ ArrivalRegs(h, u, DstH(h, u))
<1> DEFINE d == u.dst_list
           e == u.tolEntryId
           one == [attEntryId |-> u.owner,
                   prev |-> IF PushesTail(u) THEN h.tail[d] ELSE NULL,
                   next |-> IF PushesHead(u) THEN h.head[d] ELSE NULL]
           l0 == [l EXCEPT ![e] = one]
<1>1. /\ u.owner \in PageOrNone /\ e \in EntryOrNull
      /\ h.head \in [Lists -> EntryOrNull] /\ h.tail \in [Lists -> EntryOrNull]
      /\ h = [head |-> h.head, tail |-> h.tail]
      /\ PushesTail(u) <=> d = "UNCOMP"
      /\ PushesHead(u) <=> d \in {"INCOMP", "IFL_SIZE1"}
      /\ d \in Lists <=> d # "NULLIFY"
  BY RegisterFields DEF TolUpdPkt, PushesTail, PushesHead, Lists
<1>2. "UNCOMP" \in Lists /\ "INCOMP" \in Lists /\ "IFL_SIZE1" \in Lists
  BY DEF Lists
<1>3. one \in ListEntry
  BY <1>1, <1>2, EntryTypes DEF ListEntry
<1>4. /\ l0 \in [Entries -> ListEntry] /\ DstWrite1(l, h, u) = l0
      /\ \A f \in Entries : l0[f] = IF f = e THEN one ELSE l[f]
  BY <1>3 DEF DstWrite1
<1>5. /\ one.attEntryId = u.owner
      /\ one.prev = IF d = "UNCOMP" THEN h.tail[d] ELSE NULL
      /\ one.next = IF d \in {"INCOMP", "IFL_SIZE1"} THEN h.head[d] ELSE NULL
  BY <1>1
<1>6. DstEmpty(h, u) <=> \/ d = "UNCOMP" /\ h.tail[d] = NULL
                         \/ d \in {"INCOMP", "IFL_SIZE1"} /\ h.head[d] = NULL
  BY <1>1 DEF DstEmpty
<1>7. NeedsDst2(h, u) <=> d # "NULLIFY" /\ ~ DstEmpty(h, u)
  BY <1>1 DEF NeedsDst2
<1>8. CASE NeedsDst2(h, u)
  <2> DEFINE g == IF d = "UNCOMP" THEN h.tail["UNCOMP"] ELSE h.head[d]
  <2>1. g \in Entries
    BY <1>1, <1>2, <1>6, <1>7, <1>8, EntryTypes
  <2>2. DstRegs1(h, u) = h
    BY <1>7, <1>8 DEF DstRegs1
  <2>3. DstL(l, h, u) = DstWrite2(l0, h, u) /\ DstH(h, u) = DstRegs2(h, u)
    BY <1>4, <1>8, <2>2 DEF DstL, DstH
  <2>4. CASE d = "UNCOMP"
    <3>1. DstL(l, h, u) = [l0 EXCEPT ![g].next = e]
      BY <1>1, <2>1, <2>3, <2>4, EntryTypes DEF DstWrite2
    <3>2. DstH(h, u) = [h EXCEPT !.tail[d] = e]
      BY <1>1, <2>3, <2>4 DEF DstRegs2
    <3>3. [l0[g] EXCEPT !.next = e] \in ListEntry
      <4> HIDE DEF l0, g
      <4> QED BY <1>1, <1>4, <2>1 DEF ListEntry
    <3>4. /\ DstL(l, h, u) \in [Entries -> ListEntry]
          /\ \A f \in Entries :
               /\ DstL(l, h, u)[f].attEntryId = l0[f].attEntryId
               /\ DstL(l, h, u)[f].prev = l0[f].prev
               /\ DstL(l, h, u)[f].next = IF f = g THEN e ELSE l0[f].next
      <4> HIDE DEF l0, g
      <4> QED BY <1>1, <1>4, <2>1, <3>1, <3>3 DEF ListEntry
    <3>5. DstH(h, u) = [head |-> h.head, tail |-> [h.tail EXCEPT ![d] = e]]
      BY <3>2 DEF HeadTail
    <3>6. [h.tail EXCEPT ![d] = e] \in [Lists -> EntryOrNull]
      BY <1>1
    <3>7. DstH(h, u) \in HeadTail /\ ArrivalRegs(h, u, DstH(h, u))
      BY <1>1, <1>2, <1>6, <1>7, <1>8, <2>4, <3>5, <3>6 DEF HeadTail, ArrivalRegs
    <3>8. ArrivalLinks(l, h, u, DstL(l, h, u))
      <4> HIDE DEF l0, one
      <4> QED BY <1>4, <1>5, <2>4, <3>4 DEF ArrivalLinks
    <3> QED BY <3>4, <3>7, <3>8
  <2>5. CASE d # "UNCOMP"
    <3>1. DstL(l, h, u) = [l0 EXCEPT ![g].prev = e]
      BY <1>1, <2>3, <2>5 DEF DstWrite2
    <3>2. DstH(h, u) = [h EXCEPT !.head[d] = e]
      BY <1>1, <2>3, <2>5 DEF DstRegs2
    <3>3. [l0[g] EXCEPT !.prev = e] \in ListEntry
      <4> HIDE DEF l0, g
      <4> QED BY <1>1, <1>4, <2>1 DEF ListEntry
    <3>4. /\ DstL(l, h, u) \in [Entries -> ListEntry]
          /\ \A f \in Entries :
               /\ DstL(l, h, u)[f].attEntryId = l0[f].attEntryId
               /\ DstL(l, h, u)[f].next = l0[f].next
               /\ DstL(l, h, u)[f].prev = IF f = g THEN e ELSE l0[f].prev
      <4> HIDE DEF l0, g
      <4> QED BY <1>1, <1>4, <2>1, <3>1, <3>3 DEF ListEntry
    <3>5. DstH(h, u) = [head |-> [h.head EXCEPT ![d] = e], tail |-> h.tail]
      BY <3>2 DEF HeadTail
    <3>6. [h.head EXCEPT ![d] = e] \in [Lists -> EntryOrNull]
      BY <1>1
    <3>7. DstH(h, u) \in HeadTail /\ ArrivalRegs(h, u, DstH(h, u))
      BY <1>1, <1>2, <1>6, <1>7, <1>8, <2>5, <3>5, <3>6 DEF HeadTail, ArrivalRegs
    <3>8. d \in {"INCOMP", "IFL_SIZE1"}
      BY <1>7, <1>8, <2>5
    <3>9. ArrivalLinks(l, h, u, DstL(l, h, u))
      <4> HIDE DEF l0, one
      <4> QED BY <1>4, <1>5, <2>5, <3>4, <3>8 DEF ArrivalLinks
    <3> QED BY <3>4, <3>7, <3>9
  <2> QED BY <2>4, <2>5
<1>9. CASE ~ NeedsDst2(h, u)
  <2>1. DstL(l, h, u) = l0 /\ DstH(h, u) = DstRegs1(h, u)
    BY <1>4, <1>9 DEF DstL, DstH
  <2>2. ArrivalLinks(l, h, u, l0)
    <3> HIDE DEF l0, one
    <3> QED BY <1>4, <1>5, <1>6, <1>7, <1>9, EntryTypes DEF ArrivalLinks
  <2>3. CASE d = "NULLIFY"
    <3>1. DstH(h, u) = h
      BY <1>6, <2>1, <2>3 DEF DstRegs1
    <3> QED BY <1>4, <2>1, <2>2, <2>3, <3>1 DEF ArrivalRegs
  <2>4. CASE d # "NULLIFY"
    <3>1. DstH(h, u) = [head |-> [h.head EXCEPT ![d] = e], tail |-> [h.tail EXCEPT ![d] = e]]
      BY <1>7, <1>9, <2>1, <2>4 DEF DstRegs1
    <3>2. [h.head EXCEPT ![d] = e] \in [Lists -> EntryOrNull]
          /\ [h.tail EXCEPT ![d] = e] \in [Lists -> EntryOrNull]
      BY <1>1
    <3>3. DstH(h, u) \in HeadTail /\ ArrivalRegs(h, u, DstH(h, u))
      BY <1>1, <1>2, <1>6, <1>7, <1>9, <2>4, <3>1, <3>2 DEF HeadTail, ArrivalRegs
    <3> QED BY <1>4, <2>1, <2>2, <3>3
  <2> QED BY <2>3, <2>4
<1> QED BY <1>8, <1>9

(* An entry that was on no list arrives on the list it is sent to.         *)
LEMMA Arrives ==
  ASSUME NEW l, NEW h, NEW r, NEW k, NEW u, Chains(l, h, r, k), u \in TolUpdPkt,
         u.tolEntryId \in Entries, r[u.tolEntryId] = "OUT",
         u.dst_list \in {"UNCOMP", "INCOMP"}
  PROVE  \E k1 : Chains(DstL(l, h, u), DstH(h, u), [r EXCEPT ![u.tolEntryId] = u.dst_list], k1)
<1> DEFINE d == u.dst_list
           e == u.tolEntryId
           l1 == DstL(l, h, u)
           h1 == DstH(h, u)
           r1 == [r EXCEPT ![e] = d]
<1>1. /\ l \in [Entries -> ListEntry] /\ h \in HeadTail
      /\ r \in [Entries -> Roles] /\ k \in [Entries -> Nat]
      /\ d \in Queues /\ \A x \in Queues : x \in Lists /\ x # "OUT"
  BY DEF Chains, Queues, Lists
<1>2. /\ l1 \in [Entries -> ListEntry] /\ h1 \in HeadTail
      /\ ArrivalLinks(l, h, u, l1) /\ ArrivalRegs(h, u, h1)
  BY <1>1, Arrival
<1>3. /\ r1 \in [Entries -> Roles]
      /\ \A f \in Entries : r1[f] = IF f = e THEN d ELSE r[f]
  BY <1>1 DEF Roles
<1>4. Chain(d, h.head[d], h.tail[d], l, r, k)
  BY <1>1 DEF Chains
<1>5. /\ h.head[d] # e /\ h.tail[d] # e
      /\ h.head[d] = NULL <=> h.tail[d] = NULL
  BY <1>1, <1>4, EntryTypes DEF Chain, Ends
<1>6. ASSUME NEW k1 \in [Entries -> Nat], Chain(d, h1.head[d], h1.tail[d], l1, r1, k1),
             \A f, g \in Entries : f # e /\ g # e /\ k[f] < k[g] => k1[f] < k1[g]
      PROVE  Chains(l1, h1, r1, k1)
  <2>1. ASSUME NEW x \in Queues, x # d PROVE Chain(x, h1.head[x], h1.tail[x], l1, r1, k1)
    <3>1. Chain(x, h.head[x], h.tail[x], l, r, k)
      BY DEF Chains
    <3>2. \A f \in Entries : r1[f] = x <=> r[f] = x
      BY <1>1, <1>3, <2>1
    <3>3. h.head[d] \in Entries => r[h.head[d]] = d
      BY <1>4, EntryTypes DEF Chain, Ends
    <3>4. h.tail[d] \in Entries => r[h.tail[d]] = d
      BY <1>4, EntryTypes DEF Chain, Ends
    <3>5. \A f \in Entries :
            r[f] = x => l1[f].next = l[f].next /\ l1[f].prev = l[f].prev
      BY <1>1, <1>2, <2>1, <3>3, <3>4 DEF ArrivalLinks
    <3>6. \A f, g \in Entries : r[f] = x /\ r[g] = x /\ k[f] < k[g] => k1[f] < k1[g]
      BY <1>1, <1>6
    <3>7. Chain(x, h.head[x], h.tail[x], l1, r1, k1)
      <4> HIDE DEF l1, r1
      <4> QED BY <3>1, <3>2, <3>5, <3>6, OtherList
    <3>8. h1.head[x] = h.head[x] /\ h1.tail[x] = h.tail[x]
      BY <1>1, <1>2, <2>1 DEF ArrivalRegs
    <3> QED BY <3>7, <3>8
  <2> QED BY <1>2, <1>3, <1>6, <2>1 DEF Chains
<1>7. CASE h.head[d] = NULL
  <2>1. l1[e].prev = NULL /\ l1[e].next = NULL /\ h1.head[d] = e /\ h1.tail[d] = e
    BY <1>2, <1>5, <1>7 DEF ArrivalLinks, ArrivalRegs
  <2>2. Chain(d, NULL, NULL, l, r, k)
    BY <1>4, <1>5, <1>7
  <2>3. Chain(d, e, e, l1, r1, k)
    <3> HIDE DEF l1, r1
    <3> QED BY <1>1, <1>3, <2>1, <2>2, FirstArrives, EntryTypes
  <2> QED BY <1>1, <1>6, <2>1, <2>3
<1>8. CASE h.head[d] # NULL /\ d = "UNCOMP"
  <2> DEFINE tl == h.tail[d]
             k1 == [f \in Entries |-> IF f = e THEN k[tl] + 1 ELSE k[f]]
  <2>1. tl \in Entries /\ tl # NULL /\ tl # e
    BY <1>4, <1>5, <1>8 DEF Chain, Ends
  <2>2. k1 \in [Entries -> Nat] /\ \A f \in Entries : k1[f] = IF f = e THEN k[tl] + 1 ELSE k[f]
    BY <1>1, <2>1
  <2>3. \A f \in Entries :
           /\ l1[f].prev = IF f = e THEN tl ELSE l[f].prev
           /\ l1[f].next = IF f = e THEN NULL ELSE IF f = tl THEN e ELSE l[f].next
    BY <1>2, <1>8, <2>1 DEF ArrivalLinks
  <2>4. h1.head[d] = h.head[d] /\ h1.tail[d] = e
    BY <1>2, <1>8, <2>1 DEF ArrivalRegs
  <2>5. Chain(d, h.head[d], e, l1, r1, k1)
    <3> HIDE DEF l1, r1, k1
    <3> QED BY <1>1, <1>3, <1>4, <2>1, <2>2, <2>3, TailArrives
  <2>6. \A f, g \in Entries : f # e /\ g # e /\ k[f] < k[g] => k1[f] < k1[g]
    BY <2>2
  <2>7. Chain(d, h1.head[d], h1.tail[d], l1, r1, k1)
    BY <2>4, <2>5
  <2>8. Chains(l1, h1, r1, k1)
    <3> HIDE DEF l1, r1, k1, h1
    <3> QED BY <1>6, <2>2, <2>6, <2>7
  <2> HIDE DEF k1
  <2> QED BY <2>8
<1>9. CASE h.head[d] # NULL /\ d # "UNCOMP"
  <2> DEFINE hd == h.head[d]
             k1 == [f \in Entries |-> IF f = e THEN 0 ELSE k[f] + 1]
  <2>1. hd \in Entries /\ hd # NULL /\ hd # e /\ d = "INCOMP"
    BY <1>4, <1>5, <1>9 DEF Chain, Ends
  <2>2. k1 \in [Entries -> Nat] /\ \A f \in Entries : k1[f] = IF f = e THEN 0 ELSE k[f] + 1
    BY <1>1
  <2>3. \A f \in Entries :
           /\ l1[f].prev = IF f = e THEN NULL ELSE IF f = hd THEN e ELSE l[f].prev
           /\ l1[f].next = IF f = e THEN hd ELSE l[f].next
    BY <1>2, <2>1 DEF ArrivalLinks
  <2>4. h1.head[d] = e /\ h1.tail[d] = h.tail[d]
    BY <1>2, <2>1 DEF ArrivalRegs
  <2>5. Chain(d, e, h.tail[d], l1, r1, k1)
    <3> HIDE DEF l1, r1, k1
    <3> QED BY <1>1, <1>3, <1>4, <2>1, <2>2, <2>3, HeadArrives
  <2>6. \A f, g \in Entries : f # e /\ g # e /\ k[f] < k[g] => k1[f] < k1[g]
    <3> SUFFICES ASSUME NEW f \in Entries, NEW g \in Entries, f # e, g # e, k[f] < k[g]
                 PROVE  k1[f] < k1[g]
      OBVIOUS
    <3>1. k[f] \in Nat /\ k[g] \in Nat /\ k1[f] = k[f] + 1 /\ k1[g] = k[g] + 1
      BY <1>1
    <3> QED BY <3>1
  <2>7. Chain(d, h1.head[d], h1.tail[d], l1, r1, k1)
    BY <2>4, <2>5
  <2>8. Chains(l1, h1, r1, k1)
    <3> HIDE DEF l1, r1, k1, h1
    <3> QED BY <1>6, <2>2, <2>6, <2>7
  <2> HIDE DEF k1
  <2> QED BY <2>8
<1> QED BY <1>7, <1>8, <1>9

(* Nothing of the three lists changes when an entry on none of them goes   *)
(* to no list or to the irregular free list, whose head is on none either. *)
LEMMA ArrivesOut ==
  ASSUME NEW l, NEW h, NEW r, NEW k, NEW u, Chains(l, h, r, k), u \in TolUpdPkt,
         u.tolEntryId \in Entries, r[u.tolEntryId] = "OUT",
         u.dst_list \in {"NULLIFY", "IFL_SIZE1"},
         h.head["IFL_SIZE1"] # NULL => r[h.head["IFL_SIZE1"]] = "OUT"
  PROVE  Chains(DstL(l, h, u), DstH(h, u), r, k)
<1> DEFINE e == u.tolEntryId
           l1 == DstL(l, h, u)
           h1 == DstH(h, u)
<1>1. /\ l \in [Entries -> ListEntry] /\ h \in HeadTail
      /\ r \in [Entries -> Roles] /\ k \in [Entries -> Nat]
      /\ u.dst_list \notin Queues /\ \A x \in Queues : x \in Lists /\ x # "OUT"
  BY DEF Chains, Queues, Lists
<1>2. /\ l1 \in [Entries -> ListEntry] /\ h1 \in HeadTail
      /\ ArrivalLinks(l, h, u, l1) /\ ArrivalRegs(h, u, h1)
  BY <1>1, Arrival
<1>3. ASSUME NEW x \in Queues PROVE Chain(x, h1.head[x], h1.tail[x], l1, r, k)
  <2>1. Chain(x, h.head[x], h.tail[x], l, r, k)
    BY DEF Chains
  <2>2. \A f \in Entries :
          r[f] = x => l1[f].next = l[f].next /\ l1[f].prev = l[f].prev
    BY <1>1, <1>2, EntryTypes DEF ArrivalLinks
  <2>3. Chain(x, h.head[x], h.tail[x], l1, r, k)
    <3> HIDE DEF l1
    <3> QED BY <2>1, <2>2, OtherListKept
  <2>4. h1.head[x] = h.head[x] /\ h1.tail[x] = h.tail[x]
    BY <1>1, <1>2 DEF ArrivalRegs
  <2> QED BY <2>3, <2>4
<1> QED BY <1>1, <1>2, <1>3 DEF Chains

-----------------------------------------------------------------------------
(* Walking a list.                                                         *)

(* What follows e.                                                         *)
Follow(l, e) == IF e = NULL THEN NULL ELSE l[e].next
IsWalk(w, m, l, hd) == w = [n \in 0 .. m |-> IF n = 0 THEN hd ELSE Follow(l, w[n - 1])]

(* A walk exists for every number of steps.                                *)
LEMMA WalkExists ==
  ASSUME NEW l, NEW hd, NEW m \in Nat
  PROVE  \E w : IsWalk(w, m, l, hd)
<1> DEFINE T == {n \in Nat : ~ \E w : IsWalk(w, n, l, hd)}
<1> SUFFICES ASSUME T # {} PROVE FALSE OBVIOUS
<1>1. PICK n \in T : \A i \in T : ~ (i < n)
  <2> HIDE DEF T
  <2>1. T \subseteq Nat
    BY DEF T
  <2> QED BY <2>1, LeastNat
<1>2. n \in Nat
  OBVIOUS
<1>3. n # 0
  <2>1. IsWalk([i \in 0 .. 0 |-> hd], 0, l, hd)
    BY DEF IsWalk
  <2> QED BY <2>1
<1>4. n - 1 \in Nat /\ n - 1 \notin T
  BY <1>1, <1>2, <1>3
<1>5. PICK f : IsWalk(f, n - 1, l, hd)
  BY <1>4
<1> DEFINE g == [i \in 0 .. n |-> IF i = n THEN Follow(l, f[n - 1]) ELSE f[i]]
<1>6. ASSUME NEW i \in 0 .. n
      PROVE  g[i] = IF i = 0 THEN hd ELSE Follow(l, g[i - 1])
  <2>1. CASE i = n
    <3>1. g[i] = Follow(l, f[n - 1]) /\ g[n - 1] = f[n - 1]
      BY <1>2, <1>4, <2>1
    <3> QED BY <1>3, <2>1, <3>1
  <2>2. CASE i # n
    <3>1. i \in 0 .. n - 1 /\ g[i] = f[i]
      BY <1>2, <1>4, <2>2
    <3>2. f[i] = IF i = 0 THEN hd ELSE Follow(l, f[i - 1])
      BY <1>5, <3>1 DEF IsWalk
    <3>3. i # 0 => i - 1 \in 0 .. n /\ i - 1 # n /\ g[i - 1] = f[i - 1]
      BY <1>2, <1>4, <3>1
    <3> QED BY <3>1, <3>2, <3>3
  <2> QED BY <2>1, <2>2
<1>7. IsWalk(g, n, l, hd)
  <2>1. g = [i \in 0 .. n |-> g[i]]
    OBVIOUS
  <2> QED
    <3> HIDE DEF g
    <3> QED BY <1>6, <2>1 DEF IsWalk
<1> QED BY <1>7

(* Induction, over a set of numbers.                                       *)
LEMMA EveryNat ==
  ASSUME NEW S, 0 \in S, \A n \in Nat : n \in S => n + 1 \in S
  PROVE  \A n \in Nat : n \in S
<1> DEFINE T == {n \in Nat : n \notin S}
<1> SUFFICES ASSUME T # {} PROVE FALSE OBVIOUS
<1>1. PICK n \in T : \A i \in T : ~ (i < n)
  <2>1. T \subseteq Nat
    OBVIOUS
  <2> HIDE DEF T
  <2> QED BY <2>1, LeastNat
<1>2. n \in Nat /\ n # 0 /\ n - 1 \in Nat /\ n - 1 < n /\ (n - 1) + 1 = n
  OBVIOUS
<1> QED BY <1>1, <1>2

(* The walk stays on the list, goes on up to the tail and climbs the rank. *)
LEMMA WalkSteps ==
  ASSUME NEW x \in Queues, NEW hd, NEW tl, NEW l, NEW r, NEW k, NEW m \in Nat, NEW w,
         Chain(x, hd, tl, l, r, k), k \in [Entries -> Nat], IsWalk(w, m, l, hd)
  PROVE  \A n \in 0 .. m :
           /\ w[n] # NULL => /\ w[n] \in Entries /\ r[w[n]] = x
                             /\ l[w[n]].prev = IF n = 0 THEN NULL ELSE w[n - 1]
                             /\ \A i \in 0 .. n - 1 : w[i] \in Entries /\ k[w[i]] < k[w[n]]
           /\ n < m => ((w[n + 1] = NULL) <=> (w[n] = NULL \/ w[n] = tl))
<1> DEFINE Good(n) ==
      w[n] # NULL => /\ w[n] \in Entries /\ r[w[n]] = x
                     /\ l[w[n]].prev = IF n = 0 THEN NULL ELSE w[n - 1]
                     /\ \A i \in 0 .. n - 1 : w[i] \in Entries /\ k[w[i]] < k[w[n]]
           S == {n \in Nat : n <= m => Good(n)}
<1>1. /\ \A n \in 0 .. m : w[n] = IF n = 0 THEN hd ELSE Follow(l, w[n - 1])
      /\ NULL \notin Entries
  BY EntryTypes DEF IsWalk
<1>2. Ends(x, hd, tl, l, r) /\ Links(x, hd, tl, l, r, k)
  BY DEF Chain
<1>3. ASSUME NEW n \in Nat, n < m, Good(n)
      PROVE  /\ (w[n + 1] = NULL) <=> (w[n] = NULL \/ w[n] = tl)
             /\ Good(n + 1)
  <2>1. n + 1 \in 0 .. m /\ n + 1 # 0 /\ (n + 1) - 1 = n /\ n \in 0 .. m
    BY <1>3
  <2>2. w[n + 1] = Follow(l, w[n])
    BY <1>1, <2>1
  <2>3. CASE w[n] = NULL
    BY <2>2, <2>3 DEF Follow
  <2>4. CASE w[n] # NULL
    <3>1. w[n] \in Entries /\ r[w[n]] = x /\ w[n + 1] = l[w[n]].next
      BY <1>3, <2>2, <2>4 DEF Follow
    <3>2. CASE w[n] = tl
      BY <1>2, <2>4, <3>1, <3>2 DEF Ends, Links
    <3>3. CASE w[n] # tl
      <4>1. /\ w[n + 1] \in Entries /\ r[w[n + 1]] = x
            /\ l[w[n + 1]].prev = w[n] /\ k[w[n]] < k[w[n + 1]]
        BY <1>2, <3>1, <3>3 DEF Links
      <4>2. ASSUME NEW i \in 0 .. n PROVE w[i] \in Entries /\ k[w[i]] < k[w[n + 1]]
        <5>1. CASE i = n
          BY <3>1, <4>1, <5>1
        <5>2. CASE i # n
          <6>1. i \in 0 .. n - 1 /\ i \in 0 .. m
            BY <1>3, <5>2
          <6>2. w[i] \in Entries /\ k[w[i]] < k[w[n]]
            BY <1>3, <2>4, <6>1
          <6>3. k[w[i]] \in Nat /\ k[w[n]] \in Nat /\ k[w[n + 1]] \in Nat
            BY <3>1, <4>1, <6>2
          <6> QED BY <4>1, <6>2, <6>3
        <5> QED BY <5>1, <5>2
      <4>3. \A i \in 0 .. (n + 1) - 1 : w[i] \in Entries /\ k[w[i]] < k[w[n + 1]]
        BY <2>1, <4>2
      <4>4. Good(n + 1)
        BY <2>1, <4>1, <4>3
      <4> HIDE DEF Good
      <4> QED BY <1>1, <2>4, <3>3, <4>1, <4>4
    <3> QED BY <3>2, <3>3
  <2> QED BY <2>3, <2>4
<1>4. 0 \in S
  BY <1>1, <1>2 DEF Ends
<1>5. ASSUME NEW n \in Nat, n \in S PROVE n + 1 \in S
  <2> SUFFICES ASSUME n + 1 <= m PROVE Good(n + 1)
    OBVIOUS
  <2>1. n < m /\ Good(n)
    BY <1>5
  <2> QED
    <3> HIDE DEF Good
    <3> QED BY <1>3, <2>1
<1>6. \A n \in Nat : n \in S
  <2> HIDE DEF S
  <2> QED BY <1>4, <1>5, EveryNat
<1>7. ASSUME NEW n \in 0 .. m PROVE Good(n)
  <2> HIDE DEF Good
  <2> QED BY <1>6
<1>8. ASSUME NEW n \in 0 .. m, n < m
      PROVE  (w[n + 1] = NULL) <=> (w[n] = NULL \/ w[n] = tl)
  <2> HIDE DEF Good
  <2> QED BY <1>3, <1>7, <1>8
<1> QED BY <1>7, <1>8

(* The walk over as many links as there are entries leaves the list, after *)
(* visiting every entry on it.                                             *)
LEMMA WalkVisits ==
  ASSUME NEW x \in Queues, NEW hd, NEW tl, NEW l, NEW r, NEW k, NEW w,
         Chain(x, hd, tl, l, r, k), k \in [Entries -> Nat],
         IsWalk(w, ListEntryCnt, l, hd)
  PROVE  /\ w[ListEntryCnt] = NULL
         /\ {w[n] : n \in 0 .. ListEntryCnt} \ {NULL} = {e \in Entries : r[e] = x}
<1> DEFINE c == ListEntryCnt
<1>1. c \in Nat /\ c >= 1 /\ NULL \notin Entries
  BY ListAssumption, EntryTypes
<1>2. \A n \in 0 .. c :
        /\ w[n] # NULL => /\ w[n] \in Entries /\ r[w[n]] = x
                          /\ l[w[n]].prev = IF n = 0 THEN NULL ELSE w[n - 1]
                          /\ \A i \in 0 .. n - 1 : w[i] \in Entries /\ k[w[i]] < k[w[n]]
        /\ n < c => ((w[n + 1] = NULL) <=> (w[n] = NULL \/ w[n] = tl))
  BY <1>1, WalkSteps
<1>3. \A n \in 0 .. c : w[n] = IF n = 0 THEN hd ELSE Follow(l, w[n - 1])
  BY DEF IsWalk
<1>4. w[c] = NULL
  <2> SUFFICES ASSUME w[c] # NULL PROVE FALSE OBVIOUS
  <2>1. w \in [0 .. c -> Entries]
    <3>1. \A n \in 0 .. c : w[n] \in Entries
      BY <1>1, <1>2
    <3>2. w = [n \in 0 .. c |-> IF n = 0 THEN hd ELSE Follow(l, w[n - 1])]
      BY DEF IsWalk
    <3>3. w = [n \in 0 .. c |-> w[n]]
      BY <3>2
    <3> QED BY <3>1, <3>3
  <2>2. IsFiniteSet(0 .. c) /\ Cardinality(0 .. c) = c + 1
    BY <1>1, FS_Interval
  <2>3. IsFiniteSet(Entries) /\ Cardinality(Entries) = c
    BY <1>1, FS_Interval DEF Entries
  <2>4. PICK i, j \in 0 .. c : i # j /\ w[i] = w[j]
    <3> DEFINE S == 0 .. c
    <3>1. Cardinality(Entries) < Cardinality(S)
      BY <1>1, <2>2, <2>3
    <3>2. w \in [S -> Entries] /\ IsFiniteSet(S)
      BY <2>1, <2>2
    <3>3. \E i, j \in S : i # j /\ w[i] = w[j]
      <4> HIDE DEF S
      <4> QED BY <2>3, <3>1, <3>2, FS_PigeonHole
    <3> QED BY <3>3
  <2>5. ASSUME NEW n \in 0 .. c, NEW m \in 0 .. c, n < m PROVE w[n] # w[m]
    <3>1. w[m] \in Entries /\ w[n] \in Entries /\ n \in 0 .. m - 1
      BY <2>1, <2>5
    <3>2. k[w[n]] < k[w[m]] /\ k[w[n]] \in Nat
      BY <1>1, <1>2, <3>1
    <3> QED BY <3>2
  <2>6. i < j \/ j < i
    BY <2>4
  <2> QED BY <2>4, <2>5, <2>6
<1>5. ASSUME NEW e \in Entries, r[e] = x PROVE \E n \in 0 .. c : w[n] = e
  <2> DEFINE T == {k[f] : f \in {g \in Entries : r[g] = x /\ \A n \in 0 .. c : w[n] # g}}
  <2> SUFFICES ASSUME \A n \in 0 .. c : w[n] # e PROVE FALSE OBVIOUS
  <2>1. PICK t \in T : \A y \in T : ~ (y < t)
    <3>1. T \subseteq Nat /\ T # {}
      BY <1>5
    <3> HIDE DEF T
    <3> QED BY <3>1, LeastNat
  <2>2. PICK f \in Entries : r[f] = x /\ t = k[f] /\ \A n \in 0 .. c : w[n] # f
    OBVIOUS
  <2>3. f # hd
    BY <1>1, <1>3, <2>2
  <2>4. /\ l[f].prev \in Entries /\ r[l[f].prev] = x
        /\ l[l[f].prev].next = f /\ k[l[f].prev] < k[f]
    BY <2>2, <2>3 DEF Chain, Links
  <2>5. PICK n \in 0 .. c : w[n] = l[f].prev
    BY <2>1, <2>2, <2>4
  <2>6. n # c
    BY <1>1, <1>4, <2>4, <2>5
  <2>7. n + 1 \in 0 .. c /\ n + 1 # 0 /\ (n + 1) - 1 = n
    BY <1>1, <2>6
  <2>8. w[n + 1] = f
    BY <1>1, <1>3, <2>4, <2>5, <2>7 DEF Follow
  <2> QED BY <2>2, <2>7, <2>8
<1>6. \A n \in 0 .. c : w[n] # NULL => w[n] \in Entries /\ r[w[n]] = x
  BY <1>2
<1> QED BY <1>1, <1>4, <1>5, <1>6

-----------------------------------------------------------------------------
(* Whole updates.                                                          *)

(* The role an update leaves its entry in.                                 *)
RoleAfter(r, u) ==
  IF u.ATT_UPDATE_ONLY \/ u.TOL_UPDATE_ONLY = 2 THEN r
  ELSE [r EXCEPT ![u.tolEntryId] = IF u.dst_list = "NULLIFY" THEN "OUT" ELSE u.dst_list]

(* An update moves the head of one list to another list, or off the lists. *)
LEMMA Moves ==
  ASSUME NEW l, NEW h, NEW r, NEW k, NEW u, Chains(l, h, r, k), PopPkt(l, h, u),
         u.dst_list \in {"UNCOMP", "INCOMP", "NULLIFY"},
         ~ u.ATT_UPDATE_ONLY, u.TOL_UPDATE_ONLY # 2,
         h.head["IFL_SIZE1"] # NULL => r[h.head["IFL_SIZE1"]] = "OUT"
  PROVE  LET l1 == DstL(SrcL(l, h, u), SrcH(h, u), u)
             h1 == DstH(SrcH(h, u), u)
         IN  /\ \E k1 : Chains(l1, h1, RoleAfter(r, u), k1)
             /\ h1.head["IFL_SIZE1"] = h.head["IFL_SIZE1"]
             /\ \A f \in Entries :
                  l1[f].attEntryId = IF f = u.tolEntryId THEN u.owner ELSE l[f].attEntryId
             /\ u.tolEntryId \in Entries /\ r[u.tolEntryId] = u.src_list
<1> DEFINE e == u.tolEntryId
           l0 == SrcL(l, h, u)
           h0 == SrcH(h, u)
           r0 == [r EXCEPT ![e] = "OUT"]
<1>1. /\ e \in Entries /\ r[e] = u.src_list
      /\ Chains(l0, h0, r0, k)
      /\ \A f \in Entries : l0[f].attEntryId = l[f].attEntryId
      /\ h0.head["IFL_SIZE1"] = h.head["IFL_SIZE1"]
  BY Popped
<1>2. r \in [Entries -> Roles] /\ u \in TolUpdPkt
  BY DEF Chains, PopPkt
<1>3. r0[e] = "OUT" /\ \A f \in Entries : f # e => r0[f] = r[f]
  BY <1>1, <1>2
<1>4. l0 \in [Entries -> ListEntry] /\ h0 \in HeadTail
  BY <1>1 DEF Chains
<1>5. /\ ArrivalLinks(l0, h0, u, DstL(l0, h0, u))
      /\ ArrivalRegs(h0, u, DstH(h0, u))
  <2> HIDE DEF l0, h0
  <2> QED BY <1>1, <1>2, <1>4, Arrival
<1>6. /\ DstH(h0, u).head["IFL_SIZE1"] = h.head["IFL_SIZE1"]
      /\ \A f \in Entries :
           DstL(l0, h0, u)[f].attEntryId = IF f = e THEN u.owner ELSE l[f].attEntryId
  <2> HIDE DEF l0, h0
  <2> QED BY <1>1, <1>5 DEF ArrivalLinks, ArrivalRegs, Lists
<1>7. \E k1 : Chains(DstL(l0, h0, u), DstH(h0, u), RoleAfter(r, u), k1)
  <2>1. CASE u.dst_list = "NULLIFY"
    <3>1. RoleAfter(r, u) = r0
      BY <2>1 DEF RoleAfter
    <3>2. h0.head["IFL_SIZE1"] # NULL => r0[h0.head["IFL_SIZE1"]] = "OUT"
      <4>1. h.head["IFL_SIZE1"] \in EntryOrNull
        <5>1. h \in HeadTail
          BY DEF Chains
        <5> QED BY <5>1 DEF HeadTail, Lists
      <4>2. h0.head["IFL_SIZE1"] # NULL => h0.head["IFL_SIZE1"] \in Entries
        BY <1>1, <4>1, EntryTypes
      <4> HIDE DEF r0, h0
      <4> QED BY <1>1, <1>3, <4>2
    <3>3. Chains(DstL(l0, h0, u), DstH(h0, u), r0, k)
      <4> HIDE DEF l0, h0, r0
      <4> QED BY <1>1, <1>2, <1>3, <2>1, <3>2, ArrivesOut
    <3> QED BY <3>1, <3>3
  <2>2. CASE u.dst_list # "NULLIFY"
    <3>1. RoleAfter(r, u) = [r0 EXCEPT ![e] = u.dst_list]
      BY <1>1, <1>2, <2>2 DEF RoleAfter
    <3>2. \E k1 : Chains(DstL(l0, h0, u), DstH(h0, u), [r0 EXCEPT ![e] = u.dst_list], k1)
      <4> HIDE DEF l0, h0, r0
      <4> QED BY <1>1, <1>2, <1>3, <2>2, Arrives
    <3> QED BY <3>1, <3>2
  <2> QED BY <2>1, <2>2
<1> QED BY <1>1, <1>6, <1>7

(* A push on the irregular free list leaves the three lists as they are.   *)
LEMMA Pushes ==
  ASSUME NEW l, NEW h, NEW r, NEW k, NEW u, Chains(l, h, r, k), u \in TolUpdPkt,
         u.dst_list = "IFL_SIZE1", u.tolEntryId \in Entries, r[u.tolEntryId] = "OUT",
         h.head["IFL_SIZE1"] # NULL => r[h.head["IFL_SIZE1"]] = "OUT"
  PROVE  /\ Chains(DstL(l, h, u), DstH(h, u), r, k)
         /\ DstH(h, u).head["IFL_SIZE1"] = u.tolEntryId
         /\ \A x \in Queues : DstH(h, u).head[x] = h.head[x]
         /\ \A f \in Entries : /\ f # u.tolEntryId =>
                                    DstL(l, h, u)[f].attEntryId = l[f].attEntryId
                               /\ r[f] # "OUT" =>
                                    /\ DstL(l, h, u)[f].attEntryId = l[f].attEntryId
                                    /\ DstL(l, h, u)[f].next = l[f].next
                                    /\ DstL(l, h, u)[f].prev = l[f].prev
<1>1. l \in [Entries -> ListEntry] /\ h \in HeadTail
  BY DEF Chains
<1>2. Chains(DstL(l, h, u), DstH(h, u), r, k)
  BY ArrivesOut
<1>3. ArrivalLinks(l, h, u, DstL(l, h, u)) /\ ArrivalRegs(h, u, DstH(h, u))
  BY <1>1, Arrival
<1>4. /\ DstH(h, u).head["IFL_SIZE1"] = u.tolEntryId
      /\ \A x \in Queues : DstH(h, u).head[x] = h.head[x]
  BY <1>3 DEF ArrivalRegs, Queues, Lists
<1>5. \A f \in Entries : /\ f # u.tolEntryId =>
                              DstL(l, h, u)[f].attEntryId = l[f].attEntryId
                         /\ r[f] # "OUT" =>
                              /\ DstL(l, h, u)[f].attEntryId = l[f].attEntryId
                              /\ DstL(l, h, u)[f].next = l[f].next
                              /\ DstL(l, h, u)[f].prev = l[f].prev
  BY <1>3, EntryTypes DEF ArrivalLinks
<1> QED BY <1>2, <1>4, <1>5

-----------------------------------------------------------------------------
(* The tables and the ATT as they will be when the page writer is done     *)
(* with the update it is at.                                               *)
FutL == CASE pwm = "ATT_UPDATE" /\ ~ upd.ATT_UPDATE_ONLY ->
               DstL(SrcL(lst, ht, upd), SrcH(ht, upd), upd)
          [] pwm = "TOL_SLST_UPDATE" -> DstL(SrcWrite(lst, upd), SrcRegs(ht, upd), upd)
          [] pwm = "TOL_DLST_UPDATE1" -> DstL(lst, ht, upd)
          [] pwm = "TOL_DLST_UPDATE2" -> DstWrite2(lst, ht, upd)
          [] OTHER -> lst
FutH == CASE pwm = "ATT_UPDATE" /\ ~ upd.ATT_UPDATE_ONLY -> DstH(SrcH(ht, upd), upd)
          [] pwm = "TOL_SLST_UPDATE" -> DstH(SrcRegs(ht, upd), upd)
          [] pwm = "TOL_DLST_UPDATE1" -> DstH(ht, upd)
          [] pwm = "TOL_DLST_UPDATE2" -> DstRegs2(ht, upd)
          [] OTHER -> ht
FutAtt == IF pwm = "ATT_UPDATE"
          THEN [att EXCEPT ![upd.attEntryId] = [sts |-> AttSts(upd), loc |-> upd.loc]]
          ELSE att
Owner(e) == FutL[e].attEntryId

(* The victim, from the peek to the update that takes its entry.           *)
VictimHeld ==
  \/ cmp \in {"BURST_READ", "COMP_WAIT", "PREP_ZSPAGE_MD", "MIGRATE_TO_ZSPAGE"}
  \/ /\ cmp \in {"POP_UCMP_PUSH_INCOMP", "UPDATE_ATT_POP_UCMP_HEAD",
                 "TOL_UPDATE_FREEWAY_ENTRY"}
     /\ pwm = "IDLE"

(* The victim's way has become a zspage while its entry is still listed;   *)
(* Preparing: or is about to.                                              *)
Prepared == \/ cmp = "PREP_ZSPAGE_MD" /\ pwm = "WAIT_BRESP"
            \/ cmp = "UPDATE_ATT_POP_UCMP_HEAD" /\ pwm = "IDLE"
Preparing == \/ cmp = "PREP_ZSPAGE_MD" /\ pwm # "IDLE"
             \/ cmp = "UPDATE_ATT_POP_UCMP_HEAD" /\ pwm = "IDLE"

(* What the lists will say of the victim the compression manager peeked    *)
(* at, of the free entry a lookup saved, and of the ways of zspages, which *)
(* are on none.                                                            *)
HeadOf(x) == FutH.head[x]
VictimKnown ==
  VictimHeld => /\ HeadOf("UNCOMP") # NULL
                /\ vic = [way |-> WayOf(HeadOf("UNCOMP")),
                          attEntryId |-> FutL[HeadOf("UNCOMP")].attEntryId,
                          prev |-> FutL[HeadOf("UNCOMP")].prev,
                          next |-> FutL[HeadOf("UNCOMP")].next]
AllocKnown ==
  prm = "TBL_UPDATE" \/ free_entry_avail =>
    LET e == HeadOf("FREE")
    IN  /\ e # NULL
        /\ alloc = [NoPkt EXCEPT !.attEntryId = req.page, !.tolEntryId = e,
                                 !.loc = At(WayOf(e), Frame), !.owner = req.page,
                                 !.prev = FutL[e].prev, !.next = FutL[e].next,
                                 !.src_list = "FREE", !.dst_list = "UNCOMP"]
ZspagesOut(r) ==
  /\ HeadOf("IFL_SIZE1") # NULL => r[HeadOf("IFL_SIZE1")] = "OUT"
  /\ \A w \in Ways : /\ mem[w].iway \in {NoWay, w}
                     /\ mem[w].iway = w \/ zpkt.iWay_ptr = w =>
                          \/ r[EntryOf(w)] = "OUT"
                          \/ Preparing /\ w = vic.way
ListInv(r, k) == /\ Chains(FutL, FutH, r, k) /\ VictimKnown /\ AllocKnown
                 /\ ZspagesOut(r)

(* While the free list is being built.                                     *)
Built(e) == [attEntryId |-> NoPage, prev |-> e - 1,
             next |-> IF e = ListEntryCnt THEN NULL ELSE e + 1]
InitLists ==
  /\ ht = [head |-> [x \in Lists |-> IF pwm = "INIT_LIST" /\ x = "FREE" THEN 1 ELSE NULL],
           tail |-> [x \in Lists |-> NULL]]
  /\ pwm = "INIT_ATT" => etry_cnt = 1
  /\ \A e \in Entries : e < etry_cnt => lst[e] = Built(e)
  /\ mem = [w \in Ways |-> RawFrame(NoPage)] /\ zpkt = NoZsPkt
  /\ acc = [c \in Chans |-> NoAcc] /\ uc = NoWay /\ ~ req.fresh
  /\ pwm = "INIT_LIST" => \A p \in Pages : att[p].sts = "DALLOC"

-----------------------------------------------------------------------------
VicPage == vic.attEntryId
ReqPage == req.page
(* Handed: the victim's entry belongs to the page asked for, whose ATT     *)
(* entry does not say so yet; Given: now it does, but the page is not      *)
(* there yet.                                                              *)
Handed == \/ cmp = "TOL_UPDATE_FREEWAY_ENTRY" /\ pwm # "IDLE"
          \/ cmp = "ATT_UPDATE_FREEWAY_ENTRY" /\ pwm = "IDLE"
Given == \/ cmp = "ATT_UPDATE_FREEWAY_ENTRY" /\ pwm # "IDLE"
         \/ cmp = "DONE"

(* Unpacking: a decompression has yet to write its page; OldHeld: it is    *)
(* still in its slot; Awaited: it is not in its way yet.                   *)
Unpacking == /\ prm = "DECOMPRESS"
             /\ \/ dec \in {"IDLE", "BURST_READ", "BUS_ERROR"}
                \/ dec = "DECOMP_WAIT" /\ pwm \in {"IDLE", "CMPDCMP"}
OldHeld == \/ Given /\ trnsl.sts = "COMP"
           \/ Unpacking
           \/ prm = "DECOMPRESS" /\ dec = "DECOMP_WAIT" /\ pwm = "ZS_PAGE_UPDATE"
Awaited == prm = "TBL_UPDATE_DONE" \/ Given \/ Unpacking
(* The victim is in its slot, and its metadata says so.                    *)
Written == \/ cmp \in {"MIGRATE_TO_ZSPAGE", "PREP_ZSPAGE_MD"} /\ pwm = "WAIT_BRESP"
           \/ cmp \in {"TOL_UPDATE_FREEWAY_ENTRY", "UPDATE_ATT_POP_UCMP_HEAD"} /\ pwm = "IDLE"
Moving == \/ cmp = "PREP_ZSPAGE_MD" /\ pwm \in {"ZS_PAGE_UPDATE", "WAIT_BRESP"}
          \/ cmp = "UPDATE_ATT_POP_UCMP_HEAD" /\ pwm = "IDLE"

(* An entry on the two lists of pages belongs to a page, whose ATT entry   *)
(* says so and whose contents are in the way, unless a manager is about to *)
(* see to it.                                                              *)
Listed(r) ==
  \A e \in Entries : r[e] \in {"UNCOMP", "INCOMP"} =>
    LET p == Owner(e)  w == WayOf(e)
    IN  /\ p \in Pages
        /\ \/ FutAtt[p] = [sts |-> r[e], loc |-> At(w, Frame)]
           \/ Handed /\ p = ReqPage /\ w = vic.way
        /\ \/ mem[w].page = p
           \/ Handed /\ p = ReqPage /\ w = vic.way
           \/ Awaited /\ p = ReqPage
           \/ Moving /\ p = VicPage /\ w = vic.way

(* And back: the way of such a page is on the list its status names.       *)
Frames(r) ==
  \A p \in Pages : FutAtt[p].sts \in {"UNCOMP", "INCOMP"} =>
    LET w == FutAtt[p].loc.way
    IN  /\ FutAtt[p].loc.slot = Frame /\ w \in Ways
        /\ r[EntryOf(w)] = FutAtt[p].sts /\ Owner(EntryOf(w)) = p
Holds(loc, p) == /\ loc.way \in Ways /\ loc.slot \in Slots
                 /\ mem[loc.way].iway = loc.way
                 /\ mem[loc.way].md.pg_vld[loc.slot]
                 /\ mem[loc.way].md.page[loc.slot] = p
                 /\ mem[loc.way].slot[loc.slot] = p

(* A compressed page is where the ATT says, and the metadata says so too.  *)
Packed ==
  \A p \in Pages : FutAtt[p].sts = "COMP" => Holds(FutAtt[p].loc, p)

(* A valid slot is its page's, in the ATT, or the one a decompression is   *)
(* about to drop, or the one a compression has just filled.                *)
SlotsOwned ==
  \A w \in Ways, s \in Slots : mem[w].md.pg_vld[s] =>
    LET p == mem[w].md.page[s]
    IN  /\ p \in Pages
        /\ \/ FutAtt[p] = [sts |-> "COMP", loc |-> At(w, s)]
           \/ OldHeld /\ p = ReqPage /\ trnsl.loc = At(w, s)
           \/ Written /\ p = VicPage /\ zpkt.dest = At(w, s)

(* A way is a zspage or on a list, never both but for the victim being     *)
(* prepared.                                                               *)
WaysUsed(r) ==
  \A w \in Ways :
    /\ mem[w].iway = NoWay => mem[w].md = NoMd
    /\ mem[w].iway = NoWay <=> (r[EntryOf(w)] # "OUT" /\ ~ (Prepared /\ w = vic.way))

(* The zspage under construction is one, or about to be.                   *)
Construction ==
  uc # NoWay => \/ mem[uc].iway = uc
                \/ cmp = "PREP_ZSPAGE_MD" /\ pwm # "WAIT_BRESP" /\ uc = vic.way

(* While a way is free nothing has been compressed.                        *)
FreeOnce(r) ==
  (\E e \in Entries : r[e] = "FREE") =>
    /\ prm \notin {"COMPRESS", "DECOMPRESS"}
    /\ \A p \in Pages : FutAtt[p].sts # "COMP"

(* A granted access is for a page with a way, the way it was sent to, and  *)
(* neither the page looked up nor the victim.                              *)
Accesses ==
  \A c \in Chans : acc[c] # NoAcc =>
    LET p == acc[c].page
    IN  /\ p \in Pages /\ FutAtt[p].sts \in {"UNCOMP", "INCOMP"}
        /\ FutAtt[p].loc.way = acc[c].way
        /\ prm \notin {"IDLE", "LOOKUP_ATT", "CHK_ATT_ENTRY", "BUS_ERROR"} => p # ReqPage
        /\ VictimHeld /\ cmp \notin {"BURST_READ", "POP_UCMP_PUSH_INCOMP"} => p # VicPage

(* What the page read manager knows of the page looked up, by state.       *)
Request ==
  /\ req.fresh => prm \notin {"IDLE", "LOOKUP_ATT", "DECOMPRESS"}
  /\ prm = "CHK_ATT_ENTRY" => FutAtt[ReqPage] = trnsl /\ (req.fresh <=> trnsl.sts = "DALLOC")
  /\ prm \in {"POP_FREE_LST", "WAIT_LST_ENTRY"} \/ (prm = "COMPRESS" /\ ~ Given) =>
       /\ trnsl.sts \in {"COMP", "DALLOC"} /\ FutAtt[ReqPage] = trnsl
       /\ req.fresh <=> trnsl.sts = "DALLOC"
  /\ prm = "TBL_UPDATE" => /\ FutAtt[ReqPage].sts = "DALLOC" /\ req.fresh
                           /\ trnsl = [sts |-> "UNCOMP", loc |-> alloc.loc]
  /\ prm = "TBL_UPDATE_DONE" =>
       FutAtt[ReqPage] = trnsl /\ trnsl.sts = "UNCOMP" /\ req.fresh
  /\ Given => /\ FutAtt[ReqPage] = [sts |-> "UNCOMP", loc |-> At(vic.way, Frame)]
              /\ trnsl.sts \in {"COMP", "DALLOC"}
              /\ req.fresh <=> trnsl.sts = "DALLOC"
  /\ prm = "DECOMPRESS" => FutAtt[ReqPage] = [sts |-> "UNCOMP", loc |-> At(fw, Frame)]
  /\ OldHeld /\ dec # "BUS_ERROR" => Holds(trnsl.loc, ReqPage)
  /\ dec = "BUS_ERROR" => Holds(trnsl.loc, ReqPage) \/ mem[fw].page = ReqPage
  /\ dec # "NO_IWAY"

(* The handed over entry is the requested page's already.                  *)
HandedOver(r) ==
  Handed => /\ ReqPage \in Pages
            /\ \E w \in Ways : /\ vic.way = w
                              /\ r[EntryOf(w)] = "UNCOMP" /\ Owner(EntryOf(w)) = ReqPage

(* What is in the FIFO on its way to a slot or a way.                      *)
FifoHolds ==
  /\ cmp \in {"COMP_WAIT", "MIGRATE_TO_ZSPAGE"} => fifo = VicPage
  /\ cmp = "PREP_ZSPAGE_MD" /\ pwm \in {"IDLE", "CMPDCMP"} => fifo = VicPage
  /\ dec = "DECOMP_WAIT" /\ pwm \in {"IDLE", "CMPDCMP"} => fifo = ReqPage
Filled(md, s, p) == [pg_vld |-> [md.pg_vld EXCEPT ![s] = TRUE],
                     page |-> [md.page EXCEPT ![s] = p]]

(* What a page packet says while the writer has yet to work it off.        *)
PagePacket ==
  /\ cmp = "MIGRATE_TO_ZSPAGE" /\ ~ zpkt.zspage_full /\ pwm # "WAIT_BRESP" =>
       LET w == zpkt.dest.way  s == zpkt.dest.slot
       IN  /\ w \in Ways /\ s \in Slots /\ mem[w].iway = w /\ zpkt.iWay_ptr = w
           /\ ~ mem[w].md.pg_vld[s]
           /\ zpkt.zsPgMd = Filled(mem[w].md, s, VicPage)
           /\ pwm = "ZS_PAGE_UPDATE" => mem[w].slot[s] = VicPage
  /\ cmp = "PREP_ZSPAGE_MD" /\ pwm # "IDLE" =>
       /\ zpkt.dest = At(vic.way, 1) /\ zpkt.iWay_ptr = vic.way
       /\ zpkt.zsPgMd = Filled(NoMd, 1, VicPage)
       /\ pwm = "ZS_PAGE_UPDATE" => mem[vic.way].slot[1] = VicPage
  /\ cmp = "UPDATE_ATT_POP_UCMP_HEAD" /\ pwm = "IDLE" => zpkt.dest = At(vic.way, 1)
  /\ Written => Holds(zpkt.dest, VicPage)
  /\ dec = "BURST_READ" \/ (dec = "DECOMP_WAIT" /\ pwm # "WAIT_BRESP") =>
       /\ zpkt.iWay_ptr = trnsl.loc.way /\ zpkt.dest = At(fw, Frame)
       /\ zpkt.zsPgMd = ClearPage(mem[trnsl.loc.way].md, ReqPage)
(* What the page writer is at, by the manager it works for.                *)
TolStates == {"ATT_UPDATE", "TOL_SLST_UPDATE", "TOL_DLST_UPDATE1", "TOL_DLST_UPDATE2"}
Jobs ==
  /\ pwm \in TolStates =>
       \/ prm = "TBL_UPDATE_DONE" \/ dec = "PUSH_IFL"
       \/ cmp \in {"POP_UCMP_PUSH_INCOMP", "UPDATE_ATT_POP_UCMP_HEAD",
                  "TOL_UPDATE_FREEWAY_ENTRY", "ATT_UPDATE_FREEWAY_ENTRY"}
  /\ pwm \in {"CMPDCMP", "ZS_PAGE_UPDATE"} =>
       \/ dec = "DECOMP_WAIT"
       \/ cmp = "PREP_ZSPAGE_MD"
       \/ cmp = "MIGRATE_TO_ZSPAGE" /\ ~ zpkt.zspage_full
  /\ pwm \in {"TOL_SLST_UPDATE", "TOL_DLST_UPDATE1", "TOL_DLST_UPDATE2"} =>
       ~ upd.ATT_UPDATE_ONLY

(* All of it.                                                              *)
Placed(r) ==
  /\ Listed(r) /\ Frames(r) /\ Packed /\ SlotsOwned /\ WaysUsed(r)
  /\ Construction /\ FreeOnce(r) /\ Accesses /\ Request /\ HandedOver(r)
  /\ FifoHolds /\ PagePacket
  /\ Jobs /\ (prm = "DECOMPRESS" => ~ free_entry_avail)

-----------------------------------------------------------------------------
Sending == pwm = "IDLE" /\ pwm' \in {"ATT_UPDATE", "TOL_DLST_UPDATE1"}

(* Nobody but the writer touches the tables, and nobody but the manager    *)
(* that sends an update starts one.                                        *)
LEMMA WriterQuiet ==
  Next /\ ~ PwmStep /\ ~ Sending =>
    /\ UNCHANGED tables
    /\ UNCHANGED <<pwm, upd>> \/ (pwm \notin TolStates /\ pwm' \notin TolStates)
<1> SUFFICES ASSUME Next, ~ PwmStep, ~ Sending
             PROVE  /\ UNCHANGED tables
                    /\ UNCHANGED <<pwm, upd>> \/ (pwm \notin TolStates /\ pwm' \notin TolStates)
  OBVIOUS
<1> USE DEF tables, writer, TolStates, Sending, SendUpdate, UpdateDone, SendPage
<1>1. CASE PrmStep
  BY <1>1 DEF PrmStep, ReadAtt, Hit, Grant, Miss, TakeFreeEntry, NeedVictim,
              DecodeLstEntry, SendTblUpdate, TblUpdateDone, CompressDone, DecompressDone
<1>2. CASE CmpStep
  BY <1>2 DEF CmpStep, cmp_idle_others, CmpPeek, CmpBurstRead, CmpIncompressible,
              SendIncomp, IncompDone, StartZspage, FetchZspage, PrepZspage, PrepDone,
              SendPopUcmp, PopUcmpDone, SendMigrate, MigrateDone, SendFreewayTol,
              FreewayTolDone, SendFreewayAtt, FreewayAttDone
<1>3. CASE DecStep
  BY <1>3 DEF DecStep, dec_idle_others, DecFetchIway, DecBurstRead, SendDecompressed,
              DecompressedDone, FetchIflLstEntry, SendPushIfl, PushIflDone
<1>4. CASE \E c \in Chans, p \in Pages : Lookup(c, p)
  BY <1>4 DEF Lookup
<1>5. CASE ReadError \/ CpuRead \/ CpuWrite \/ StayParked
  BY <1>5 DEF ReadError, CpuRead, CpuWrite, StayParked, vars
<1> QED BY <1>1, <1>2, <1>3, <1>4, <1>5 DEF Next, ManagerStep

(* What the writer does has been counted in: its steps leave the tables as *)
(* they will be.                                                           *)
LEMMA FutWriter ==
  init_list_done /\ PwmStep =>
    FutL' = FutL /\ FutH' = FutH /\ FutAtt' = FutAtt
<1> SUFFICES ASSUME init_list_done, PwmStep
             PROVE  FutL' = FutL /\ FutH' = FutH /\ FutAtt' = FutAtt
  OBVIOUS
<1>1. CASE PwmAttUpdate
  BY <1>1 DEF PwmAttUpdate, FutL, FutH, FutAtt, SrcL, SrcH
<1>2. CASE PwmSlstUpdate
  BY <1>2 DEF PwmSlstUpdate, FutL, FutH, FutAtt
<1>3. CASE PwmDlstUpdate1
  BY <1>3 DEF PwmDlstUpdate1, FutL, FutH, FutAtt, DstL, DstH
<1>4. CASE PwmDlstUpdate2
  BY <1>4 DEF PwmDlstUpdate2, FutL, FutH, FutAtt
<1>5. CASE PwmPageTransfer \/ PwmZsPageUpdate
  BY <1>5 DEF PwmPageTransfer, PwmZsPageUpdate, FutL, FutH, FutAtt, tables
<1>6. ~ InitAtt /\ ~ InitList
  BY DEF InitAtt, InitList, init_list_done
<1> QED BY <1>1, <1>2, <1>3, <1>4, <1>5, <1>6 DEF PwmStep

(* So does whoever leaves the tables and the writer's packet alone.        *)
LEMMA FutQuiet ==
  /\ UNCHANGED tables
  /\ UNCHANGED <<pwm, upd>> \/ (pwm \notin TolStates /\ pwm' \notin TolStates)
  => FutL' = FutL /\ FutH' = FutH /\ FutAtt' = FutAtt
BY DEF FutL, FutH, FutAtt, tables, TolStates

(* Only a manager that sends an update changes what the tables will be.    *)
LEMMA FutKept ==
  init_list_done /\ Next /\ ~ Sending =>
    FutL' = FutL /\ FutH' = FutH /\ FutAtt' = FutAtt
BY WriterQuiet, FutWriter, FutQuiet

(* An update that is sent.                                                 *)
LEMMA FutSent ==
  ASSUME NEW u, SendUpdate(u)
  PROVE  /\ FutL = lst /\ FutH = ht /\ FutAtt = att /\ upd' = u /\ Sending
         /\ u.TOL_UPDATE_ONLY = 2 => /\ FutL' = DstL(lst, ht, u) /\ FutH' = DstH(ht, u)
                                     /\ FutAtt' = att
         /\ u.TOL_UPDATE_ONLY # 2 =>
              FutAtt' = [att EXCEPT ![u.attEntryId] = [sts |-> AttSts(u), loc |-> u.loc]]
         /\ u.TOL_UPDATE_ONLY # 2 /\ u.ATT_UPDATE_ONLY => FutL' = lst /\ FutH' = ht
         /\ u.TOL_UPDATE_ONLY # 2 /\ ~ u.ATT_UPDATE_ONLY =>
              /\ FutL' = DstL(SrcL(lst, ht, u), SrcH(ht, u), u)
              /\ FutH' = DstH(SrcH(ht, u), u)
BY DEF SendUpdate, FutL, FutH, FutAtt, tables, Sending

(* Entries and ways are numbered one to one.                               *)
LEMMA WayInverse ==
  /\ \A e \in Entries : WayOf(e) \in Ways /\ EntryOf(WayOf(e)) = e
  /\ \A w \in Ways : EntryOf(w) \in Entries /\ WayOf(EntryOf(w)) = w
  /\ NoWay \notin Ways /\ \A w \in Ways : w # NoWay
BY ListAssumption, PpaAssumption DEF WayOf, EntryOf, Ways, Entries, NoWay

(* Nothing but the peek picks a victim.                                    *)
LEMMA VictimKept ==
  IInv /\ init_list_done /\ Next /\ VictimHeld' =>
    \/ VictimHeld /\ vic' = vic
    \/ CmpPeek /\ pwm = "IDLE" /\ ht.head["UNCOMP"] # NULL
<1> SUFFICES ASSUME IInv, init_list_done, Next, VictimHeld'
             PROVE  \/ VictimHeld /\ vic' = vic
                    \/ CmpPeek /\ pwm = "IDLE" /\ ht.head["UNCOMP"] # NULL
  OBVIOUS
<1>0. OneManager
  BY DEF IInv
<1> USE DEF comp, writer, VictimHeld, OneManager, init_list_done, WriterBusy, PrmWaits,
            CmpWaits, DecWaits, SendUpdate, UpdateDone, SendPage
<1>1. CASE PwmStep
  BY <1>0, <1>1, WriterFrame DEF PwmStep, InitAtt, InitList, PwmAttUpdate, PwmSlstUpdate,
       PwmDlstUpdate1, PwmDlstUpdate2, PwmPageTransfer, PwmZsPageUpdate
<1>2. CASE PrmStep
  BY <1>0, <1>2 DEF PrmStep, ReadAtt, Hit, Grant, Miss, TakeFreeEntry, NeedVictim,
              DecodeLstEntry, SendTblUpdate, TblUpdateDone, CompressDone, DecompressDone
<1>3. CASE CmpStep
  BY <1>0, <1>3 DEF CmpStep, cmp_idle_others, CmpPeek, CmpBurstRead, CmpIncompressible,
              SendIncomp, IncompDone, StartZspage, FetchZspage, PrepZspage, PrepDone,
              SendPopUcmp, PopUcmpDone, SendMigrate, MigrateDone, SendFreewayTol,
              FreewayTolDone, SendFreewayAtt, FreewayAttDone
<1>4. CASE DecStep
  BY <1>0, <1>4 DEF DecStep, dec_idle_others, DecFetchIway, DecBurstRead,
              SendDecompressed, DecompressedDone, FetchIflLstEntry, SendPushIfl, PushIflDone
<1>5. CASE \E c \in Chans, p \in Pages : Lookup(c, p)
  BY <1>5 DEF Lookup
<1>6. CASE ReadError \/ CpuRead \/ CpuWrite \/ StayParked
  BY <1>6 DEF ReadError, CpuRead, CpuWrite, StayParked, vars
<1> QED BY <1>1, <1>2, <1>3, <1>4, <1>5, <1>6 DEF Next, ManagerStep

(* The packet for a free entry is made when the entry is read.             *)
LEMMA AllocKept ==
  IInv /\ init_list_done /\ Next /\ (prm = "TBL_UPDATE" \/ free_entry_avail)' =>
    \/ /\ prm = "TBL_UPDATE" \/ free_entry_avail
       /\ UNCHANGED <<alloc, req>>
       /\ Sending => SendPushIfl
    \/ DecodeLstEntry /\ pwm = "IDLE"
<1> SUFFICES ASSUME IInv, init_list_done, Next, (prm = "TBL_UPDATE" \/ free_entry_avail)'
             PROVE  \/ /\ prm = "TBL_UPDATE" \/ free_entry_avail
                       /\ UNCHANGED <<alloc, req>>
                       /\ Sending => SendPushIfl
                    \/ DecodeLstEntry /\ pwm = "IDLE"
  OBVIOUS
<1>0. OneManager /\ LookupInv
  BY DEF IInv
<1> USE DEF reader, writer, OneManager, init_list_done, WriterBusy, PrmWaits, LookupInv,
            CmpWaits, DecWaits, SendUpdate, UpdateDone, SendPage, Sending
<1>1. CASE PwmStep
  BY <1>0, <1>1, WriterFrame
<1>2. CASE PrmStep
  BY <1>0, <1>2 DEF PrmStep, ReadAtt, Hit, Grant, Miss, TakeFreeEntry, NeedVictim,
              DecodeLstEntry, SendTblUpdate, TblUpdateDone, CompressDone, DecompressDone
<1>3. CASE CmpStep
  BY <1>0, <1>3, CompFrame
<1>4. CASE DecStep
  BY <1>0, <1>4 DEF DecStep, dec_idle_others, DecFetchIway, DecBurstRead,
              SendDecompressed, DecompressedDone, FetchIflLstEntry, SendPushIfl, PushIflDone
<1>5. CASE \E c \in Chans, p \in Pages : Lookup(c, p)
  BY <1>0, <1>5 DEF Lookup
<1>6. CASE ReadError \/ CpuRead \/ CpuWrite \/ StayParked
  BY <1>0, <1>6 DEF ReadError, CpuRead, CpuWrite, StayParked, vars
<1> QED BY <1>1, <1>2, <1>3, <1>4, <1>5, <1>6 DEF Next, ManagerStep

(* What makes a zspage of a way.                                           *)
LEMMA ZspageKept ==
  ASSUME IInv, init_list_done, Next, \A w \in Ways : mem[w].iway \in {NoWay, w}
  PROVE  /\ \A w \in Ways :
              /\ mem'[w].iway \in {NoWay, w}
              /\ mem'[w].iway = w \/ zpkt'.iWay_ptr = w =>
                   \/ mem[w].iway = w \/ zpkt.iWay_ptr = w
                   \/ PrepZspage /\ w = vic.way
         /\ Preparing => SendPopUcmp \/ (Preparing' /\ vic' = vic)
         /\ PrepZspage => Preparing' /\ vic' = vic
<1>0. OneManager /\ MemType /\ zpkt \in ZsPkt /\ uc \in Ways \cup {NoWay}
      /\ vic.way \in Ways \cup {NoWay} /\ acc \in [Chans -> [page : PageOrNone, way : Ways \cup {NoWay}]]
  BY DEF IInv, TypeOK, CompType, AccType
<1>1. /\ Preparing => SendPopUcmp \/ (Preparing' /\ vic' = vic)
      /\ PrepZspage => Preparing' /\ vic' = vic
  <2> USE DEF comp, writer, Preparing, OneManager, init_list_done, WriterBusy, PrmWaits,
            CmpWaits, DecWaits, SendUpdate, UpdateDone, SendPage
  <2>1. CASE PwmStep
    BY <1>0, <2>1, WriterFrame DEF PwmStep, InitAtt, InitList, PwmAttUpdate, PwmSlstUpdate,
         PwmDlstUpdate1, PwmDlstUpdate2, PwmPageTransfer, PwmZsPageUpdate, PrepZspage
  <2>2. CASE PrmStep
    BY <1>0, <2>2 DEF PrmStep, ReadAtt, Hit, Grant, Miss, TakeFreeEntry, NeedVictim,
         DecodeLstEntry, SendTblUpdate, TblUpdateDone, CompressDone, DecompressDone,
         PrepZspage
  <2>3. CASE CmpStep
    BY <1>0, <2>3 DEF CmpStep, cmp_idle_others, CmpPeek, CmpBurstRead, CmpIncompressible,
         SendIncomp, IncompDone, StartZspage, FetchZspage, PrepZspage, PrepDone,
         SendPopUcmp, PopUcmpDone, SendMigrate, MigrateDone, SendFreewayTol,
         FreewayTolDone, SendFreewayAtt, FreewayAttDone
  <2>4. CASE DecStep
    BY <1>0, <2>4 DEF DecStep, dec_idle_others, DecFetchIway, DecBurstRead,
         SendDecompressed, DecompressedDone, FetchIflLstEntry, SendPushIfl, PushIflDone,
         PrepZspage
  <2>5. CASE \E c \in Chans, p \in Pages : Lookup(c, p)
    BY <2>5 DEF Lookup, PrepZspage
  <2>6. CASE ReadError \/ CpuRead \/ CpuWrite \/ StayParked
    BY <2>6 DEF ReadError, CpuRead, CpuWrite, StayParked, vars, PrepZspage
  <2> QED BY <2>1, <2>2, <2>3, <2>4, <2>5, <2>6 DEF Next, ManagerStep
<1>2. \A w \in Ways :
        /\ mem'[w].iway \in {NoWay, w}
        /\ mem'[w].iway = w \/ zpkt'.iWay_ptr = w =>
             \/ mem[w].iway = w \/ zpkt.iWay_ptr = w
             \/ PrepZspage /\ w = vic.way
  <2> DEFINE Kept == \A w \in Ways :
        /\ mem'[w].iway \in {NoWay, w}
        /\ mem'[w].iway = w \/ zpkt'.iWay_ptr = w =>
             \/ mem[w].iway = w \/ zpkt.iWay_ptr = w
             \/ PrepZspage /\ w = vic.way
  <2> SUFFICES Kept OBVIOUS
  <2>0. NoZsPkt.iWay_ptr = NoWay /\ NoWay \notin Ways
        /\ \A p : RawFrame(p).iway = NoWay
    BY WayInverse DEF NoZsPkt, RawFrame
  <2>1. CASE UNCHANGED <<mem, zpkt>>
    BY <2>1
  <2>2. CASE PwmPageTransfer
    <3>1. zpkt' = zpkt /\ \A w \in Ways : mem'[w].iway \in {NoWay, mem[w].iway}
      BY <1>0, <2>0, <2>2 DEF PwmPageTransfer, MemType, MemWay
    <3> QED BY <2>0, <3>1
  <2>3. CASE PwmZsPageUpdate
    <3>1. zpkt' = zpkt
          /\ \A w \in Ways : mem'[w].iway = IF w = zpkt.iWay_ptr THEN w ELSE mem[w].iway
      BY <1>0, <2>3 DEF PwmZsPageUpdate, MemType, MemWay
    <3> QED BY <3>1
  <2>4. ASSUME NEW w, Grant(w), zpkt' = zpkt \/ zpkt' = NoZsPkt PROVE Kept
    <3>1. \A x \in Ways : mem'[x].iway \in {NoWay, mem[x].iway}
      BY <1>0, <2>0, <2>4 DEF Grant, MemType, MemWay
    <3> QED BY <2>0, <2>4, <3>1
  <2>5. CASE mem' = mem /\ zpkt' = NoZsPkt
    BY <2>0, <2>5
  <2>6. CASE CpuWrite
    <3>1. zpkt' = zpkt /\ \A x \in Ways : mem'[x].iway \in {NoWay, mem[x].iway}
      BY ZenonT(60), <1>0, <2>0, <2>6 DEF CpuWrite, MemType, MemWay
    <3> QED BY <2>0, <3>1
  <2>7. CASE FetchZspage
    <3>1. mem' = mem /\ uc \in Ways /\ zpkt'.iWay_ptr = mem[uc].iway
      BY <1>0, <2>7 DEF FetchZspage, getFreeCpage_ZsPageiWay, NoZsPkt
    <3>2. \A w \in Ways : zpkt'.iWay_ptr = w => mem[w].iway = w
      BY <2>0, <3>1
    <3> QED BY <3>1, <3>2
  <2>8. CASE PrepZspage
    <3>1. mem' = mem /\ zpkt'.iWay_ptr = vic.way
      BY <2>8 DEF PrepZspage, NoZsPkt, SendPage
    <3> QED BY <3>1, <2>8
  <2>9. CASE DecFetchIway
    <3>1. mem' = mem
      BY <2>9 DEF DecFetchIway
    <3>2. zpkt' = zpkt \/ (trnsl.loc.way \in Ways /\ mem[trnsl.loc.way].iway = trnsl.loc.way
                           /\ zpkt'.iWay_ptr = trnsl.loc.way)
      BY <2>9 DEF DecFetchIway, setCpageFree_ZsPageiWay
    <3> QED BY <3>1, <3>2
  <2> HIDE DEF Kept
  <2>10. CASE PwmStep
    BY <2>1, <2>2, <2>3, <2>10, WriterFrame DEF PwmStep, InitAtt, InitList, PwmAttUpdate,
       PwmSlstUpdate, PwmDlstUpdate1, PwmDlstUpdate2
  <2>11. CASE PrmStep
    <3>1. \/ UNCHANGED <<mem, zpkt>> \/ (mem' = mem /\ zpkt' = NoZsPkt)
          \/ \E w : Grant(w) /\ (zpkt' = zpkt \/ zpkt' = NoZsPkt)
      BY <2>11 DEF PrmStep, ReadAtt, Hit, Miss, TakeFreeEntry, NeedVictim,
         DecodeLstEntry, SendTblUpdate, SendUpdate, TblUpdateDone, CompressDone,
         DecompressDone
    <3> QED BY <2>1, <2>4, <2>5, <3>1
  <2>12. CASE CmpStep
    <3>1. \/ UNCHANGED <<mem, zpkt>> \/ (mem' = mem /\ zpkt' = NoZsPkt)
          \/ FetchZspage \/ PrepZspage
      BY <2>12 DEF CmpStep, cmp_idle_others, CmpPeek, CmpBurstRead, CmpIncompressible,
         SendIncomp, IncompDone, StartZspage, PrepDone, SendPopUcmp, PopUcmpDone,
         SendMigrate, MigrateDone, SendFreewayTol, FreewayTolDone, SendFreewayAtt,
         FreewayAttDone, SendUpdate, UpdateDone, SendPage
    <3> QED BY <2>1, <2>5, <2>7, <2>8, <3>1
  <2>13. CASE DecStep
    <3>1. UNCHANGED <<mem, zpkt>> \/ DecFetchIway
      BY <2>13 DEF DecStep, dec_idle_others, DecBurstRead, SendDecompressed,
         DecompressedDone, FetchIflLstEntry, SendPushIfl, PushIflDone,
         SendUpdate, UpdateDone, SendPage
    <3> QED BY <2>1, <2>9, <3>1
  <2>14. CASE \E c \in Chans, p \in Pages : Lookup(c, p)
    BY <2>1, <2>14 DEF Lookup
  <2>15. CASE ReadError \/ CpuRead \/ CpuWrite \/ StayParked
    BY <2>1, <2>6, <2>15 DEF ReadError, CpuRead, StayParked, vars
  <2> QED BY <2>10, <2>11, <2>12, <2>13, <2>14, <2>15 DEF Next, ManagerStep
<1> QED BY <1>1, <1>2

(* The updates that are sent.                                              *)
LEMMA Senders ==
  init_list_done /\ Next /\ Sending =>
    \/ SendTblUpdate \/ SendIncomp \/ SendPopUcmp \/ SendFreewayTol
    \/ SendFreewayAtt \/ SendPushIfl
<1> SUFFICES ASSUME init_list_done, Next, Sending
             PROVE  \/ SendTblUpdate \/ SendIncomp \/ SendPopUcmp \/ SendFreewayTol
                    \/ SendFreewayAtt \/ SendPushIfl
  OBVIOUS
<1> USE DEF writer, Sending, UpdateDone, SendPage
<1>1. CASE PwmStep
  BY <1>1, WriterFrame
<1>2. CASE PrmStep
  BY <1>2 DEF PrmStep, ReadAtt, Hit, Miss, TakeFreeEntry, NeedVictim,
              DecodeLstEntry, TblUpdateDone, CompressDone, DecompressDone
<1>3. CASE CmpStep
  BY <1>3 DEF CmpStep, cmp_idle_others, CmpPeek, CmpBurstRead, CmpIncompressible,
              IncompDone, StartZspage, FetchZspage, PrepZspage, PrepDone,
              PopUcmpDone, SendMigrate, MigrateDone, FreewayTolDone, FreewayAttDone
<1>4. CASE DecStep
  BY <1>4 DEF DecStep, dec_idle_others, DecFetchIway, DecBurstRead,
              SendDecompressed, DecompressedDone, FetchIflLstEntry, PushIflDone
<1>5. CASE \E c \in Chans, p \in Pages : Lookup(c, p)
  BY <1>5 DEF Lookup
<1>6. CASE ReadError \/ CpuRead \/ CpuWrite \/ StayParked
  BY <1>6 DEF ReadError, CpuRead, CpuWrite, StayParked, vars
<1> QED BY <1>1, <1>2, <1>3, <1>4, <1>5, <1>6 DEF Next, ManagerStep

(* The roles and the owners after a step.                                  *)
Moved(r, r1) == r1 = IF Sending THEN RoleAfter(r, upd') ELSE r
OwnersKept ==
  \A f \in Entries :
    IF Sending /\ ~ upd'.ATT_UPDATE_ONLY /\ f = upd'.tolEntryId
    THEN upd'.TOL_UPDATE_ONLY # 2 => Owner(f)' = upd'.owner
    ELSE Owner(f)' = Owner(f)

(* No update is sent: every entry keeps its role and its owner.            *)
LEMMA ListsQuiet ==
  ASSUME NEW r, NEW k, IInv, init_list_done, ListInv(r, k), Next, ~ Sending
  PROVE  ListInv(r, k)' /\ OwnersKept
<1>1. FutL' = FutL /\ FutH' = FutH
  BY FutKept
<1>2. Chains(FutL, FutH, r, k)'
  BY <1>1 DEF ListInv
<1>3. pwm = "IDLE" => FutL = lst /\ FutH = ht
  BY DEF FutL, FutH
<1>4. VictimKnown'
  <2> SUFFICES ASSUME VictimHeld'
               PROVE  /\ HeadOf("UNCOMP")' # NULL
                      /\ vic' = [way |-> WayOf(HeadOf("UNCOMP")'),
                                 attEntryId |-> FutL'[HeadOf("UNCOMP")'].attEntryId,
                                 prev |-> FutL'[HeadOf("UNCOMP")'].prev,
                                 next |-> FutL'[HeadOf("UNCOMP")'].next]
    BY DEF VictimKnown
  <2>1. HeadOf("UNCOMP")' = HeadOf("UNCOMP")
    BY <1>1 DEF HeadOf
  <2>2. CASE VictimHeld /\ vic' = vic
    BY <1>1, <2>1, <2>2 DEF VictimKnown, ListInv
  <2>3. CASE CmpPeek /\ pwm = "IDLE" /\ ht.head["UNCOMP"] # NULL
    BY <1>1, <1>3, <2>1, <2>3 DEF CmpPeek, HeadOf
  <2> QED BY <2>2, <2>3, VictimKept
<1>5. AllocKnown'
  <2> SUFFICES ASSUME (prm = "TBL_UPDATE" \/ free_entry_avail)' PROVE AllocKnown'
    BY DEF AllocKnown
  <2>1. HeadOf("FREE")' = HeadOf("FREE")
    BY <1>1 DEF HeadOf
  <2>2. CASE prm = "TBL_UPDATE" \/ free_entry_avail
    BY <1>1, <2>1, <2>2, AllocKept DEF AllocKnown, ListInv, DecodeLstEntry, LookupInv, IInv
  <2>3. CASE DecodeLstEntry /\ pwm = "IDLE"
    <3>1. ht.head["FREE"] # NULL
      BY <2>3 DEF IInv, LookupInv, DecodeLstEntry
    <3> QED BY <1>1, <1>3, <2>1, <2>3, <3>1 DEF AllocKnown, DecodeLstEntry, HeadOf, get_Tolpkt
  <2> QED BY <2>2, <2>3, AllocKept
<1>6. ZspagesOut(r)'
  <2>1. \A w \in Ways : mem[w].iway \in {NoWay, w}
    BY DEF ListInv, ZspagesOut
  <2>2. ~ SendPopUcmp
    BY DEF SendPopUcmp, SendUpdate, Sending, NoPkt
  <2>3. HeadOf("IFL_SIZE1")' = HeadOf("IFL_SIZE1")
    BY <1>1 DEF HeadOf
  <2> QED BY <2>1, <2>2, <2>3, ZspageKept DEF ListInv, ZspagesOut
<1> QED BY <1>1, <1>2, <1>4, <1>5, <1>6 DEF ListInv, OwnersKept, Owner

(* A manager sends an update for the head of a list: that entry moves, the *)
(* others stay.                                                            *)
LEMMA ListsMoved ==
  ASSUME NEW r, NEW k, IInv, ListInv(r, k), NEW u, SendUpdate(u), PopPkt(lst, ht, u),
         u.dst_list \in {"UNCOMP", "INCOMP", "NULLIFY"},
         ~ u.ATT_UPDATE_ONLY, u.TOL_UPDATE_ONLY # 2,
         UNCHANGED <<mem, zpkt>>, ~ VictimHeld', ~ (prm = "TBL_UPDATE" \/ free_entry_avail)',
         Preparing => u.dst_list = "NULLIFY" /\ vic.way = WayOf(u.tolEntryId)
  PROVE  /\ \E r1, k1 : ListInv(r1, k1)' /\ Moved(r, r1)
         /\ OwnersKept
         /\ u.tolEntryId \in Entries /\ r[u.tolEntryId] = u.src_list
<1>1. /\ FutL = lst /\ FutH = ht /\ upd' = u /\ Sending
      /\ FutL' = DstL(SrcL(lst, ht, u), SrcH(ht, u), u)
      /\ FutH' = DstH(SrcH(ht, u), u)
  BY FutSent
<1>2. /\ Chains(lst, ht, r, k)
      /\ ht.head["IFL_SIZE1"] # NULL => r[ht.head["IFL_SIZE1"]] = "OUT"
  BY <1>1 DEF ListInv, ZspagesOut, HeadOf
<1>3. /\ \E k1 : Chains(FutL', FutH', RoleAfter(r, u), k1)
      /\ FutH'.head["IFL_SIZE1"] = ht.head["IFL_SIZE1"]
      /\ \A f \in Entries :
           FutL'[f].attEntryId = IF f = u.tolEntryId THEN u.owner ELSE lst[f].attEntryId
      /\ u.tolEntryId \in Entries /\ r[u.tolEntryId] = u.src_list
  BY <1>1, <1>2, Moves
<1>4. PICK k1 : Chains(FutL', FutH', RoleAfter(r, u), k1)
  BY <1>3
<1> DEFINE r1 == RoleAfter(r, u)
<1>5. VictimKnown' /\ AllocKnown'
  BY DEF VictimKnown, AllocKnown
<1>6. r \in [Entries -> Roles] /\ u.src_list # "OUT"
  BY <1>2 DEF Chains, PopPkt
<1>7. /\ \A f \in Entries : r[f] = "OUT" => r1[f] = "OUT"
      /\ u.dst_list = "NULLIFY" => r1[u.tolEntryId] = "OUT"
  BY <1>3, <1>6 DEF RoleAfter
<1>8. ZspagesOut(r1)'
  <2>1. FutH'.head["IFL_SIZE1"] # NULL => r1[FutH'.head["IFL_SIZE1"]] = "OUT"
    <3>1. ht.head["IFL_SIZE1"] # NULL => ht.head["IFL_SIZE1"] \in Entries
      BY <1>2, EntryTypes, RegisterFields DEF Chains, Lists
    <3> HIDE DEF r1
    <3> QED BY <1>2, <1>3, <1>7, <3>1
  <2>2. ASSUME NEW w \in Ways, mem[w].iway = w \/ zpkt.iWay_ptr = w
        PROVE  r1[EntryOf(w)] = "OUT"
    <3>1. EntryOf(w) \in Entries
      BY WayInverse
    <3>2. r[EntryOf(w)] = "OUT" \/ (Preparing /\ w = vic.way)
      BY <2>2 DEF ListInv, ZspagesOut
    <3>3. CASE r[EntryOf(w)] = "OUT"
      BY <1>7, <3>1, <3>3
    <3>4. CASE Preparing /\ w = vic.way
      <4>1. EntryOf(w) = u.tolEntryId
        BY <1>3, <3>4, WayInverse
      <4> QED BY <1>7, <3>4, <4>1
    <3> QED BY <3>2, <3>3, <3>4
  <2>3. \A w \in Ways : mem[w].iway \in {NoWay, w}
    BY DEF ListInv, ZspagesOut
  <2> HIDE DEF r1
  <2> QED BY <2>1, <2>2, <2>3 DEF ZspagesOut, HeadOf
<1>9. ListInv(r1, k1)' /\ Moved(r, r1)
  BY <1>1, <1>4, <1>5, <1>8 DEF ListInv, Moved
<1>10. OwnersKept
  BY <1>1, <1>3 DEF OwnersKept, Owner
<1> HIDE DEF r1
<1> QED BY <1>3, <1>9, <1>10

(* The same for each of the updates the managers send.                     *)
LEMMA ListsSent ==
  ASSUME NEW r, NEW k, IInv, init_list_done, ListInv(r, k), Next, Sending
  PROVE  /\ \E r1, k1 : ListInv(r1, k1)' /\ Moved(r, r1)
         /\ OwnersKept
         /\ ~ upd'.ATT_UPDATE_ONLY /\ upd'.TOL_UPDATE_ONLY # 2 =>
              upd'.tolEntryId \in Entries /\ r[upd'.tolEntryId] = upd'.src_list
<1>0. TypeOK /\ OneManager /\ LookupInv
  BY DEF IInv
<1>1. pwm = "IDLE" /\ FutL = lst /\ FutH = ht
  BY DEF Sending, FutL, FutH
<1>2. CASE SendTblUpdate
  <2>1. SendUpdate(alloc) /\ prm = "TBL_UPDATE" /\ prm' = "TBL_UPDATE_DONE"
        /\ UNCHANGED <<mem, zpkt, cmp, free_entry_avail>>
    BY <1>2 DEF SendTblUpdate, SendUpdate, comp
  <2>2. PopPkt(lst, ht, alloc) /\ alloc.dst_list = "UNCOMP" /\ ~ alloc.ATT_UPDATE_ONLY
        /\ alloc.TOL_UPDATE_ONLY # 2
    <3>1. alloc \in TolUpdPkt
      BY <1>0 DEF TypeOK, ReaderType
    <3>2. AllocKnown
      BY DEF ListInv
    <3> DEFINE e == ht.head["FREE"]
               u == [NoPkt EXCEPT !.attEntryId = req.page, !.tolEntryId = e,
                                 !.loc = At(WayOf(e), Frame), !.owner = req.page,
                                 !.prev = lst[e].prev, !.next = lst[e].next,
                                 !.src_list = "FREE", !.dst_list = "UNCOMP"]
    <3>3. e # NULL /\ alloc = u
      BY <1>1, <2>1, <3>2 DEF AllocKnown, HeadOf
    <3>4. /\ u.tolEntryId = e /\ u.prev = lst[e].prev /\ u.next = lst[e].next
          /\ u.src_list = "FREE" /\ u.dst_list = "UNCOMP" /\ ~ u.ATT_UPDATE_ONLY
          /\ u.TOL_UPDATE_ONLY = 0
      BY DEF NoPkt
    <3> HIDE DEF e, u
    <3> QED BY <3>1, <3>3, <3>4 DEF PopPkt, e
  <2>3. ~ VictimHeld' /\ ~ Preparing /\ ~ free_entry_avail
    BY <1>0, <2>1 DEF OneManager, VictimHeld, Preparing, LookupInv
  <2>4. upd' = alloc
    BY <2>1 DEF SendUpdate
  <2>5. ~ (prm = "TBL_UPDATE" \/ free_entry_avail)'
    BY <2>1, <2>3
  <2>6. ASSUME NEW u, u = alloc
        PROVE  /\ \E r1, k1 : ListInv(r1, k1)' /\ Moved(r, r1)
               /\ OwnersKept
               /\ u.tolEntryId \in Entries /\ r[u.tolEntryId] = u.src_list
    BY <2>1, <2>2, <2>3, <2>5, <2>6, ListsMoved
  <2> QED BY <2>4, <2>6
<1>3. ASSUME NEW u, SendUpdate(u), UNCHANGED <<mem, zpkt, comp>>, CmpStep, VictimHeld, cmp = cmp',
             cmp \in {"POP_UCMP_PUSH_INCOMP", "UPDATE_ATT_POP_UCMP_HEAD", "TOL_UPDATE_FREEWAY_ENTRY"},
             u \in TolUpdPkt, u.src_list = "UNCOMP", u.tolEntryId = ht.head["UNCOMP"],
             u.prev = vic.prev, u.next = vic.next,
             u.dst_list \in {"UNCOMP", "INCOMP", "NULLIFY"},
             cmp = "UPDATE_ATT_POP_UCMP_HEAD" => u.dst_list = "NULLIFY",
             ~ u.ATT_UPDATE_ONLY, u.TOL_UPDATE_ONLY # 2
      PROVE  /\ \E r1, k1 : ListInv(r1, k1)' /\ Moved(r, r1)
             /\ OwnersKept
             /\ ~ upd'.ATT_UPDATE_ONLY /\ upd'.TOL_UPDATE_ONLY # 2 =>
                  upd'.tolEntryId \in Entries /\ r[upd'.tolEntryId] = upd'.src_list
  <2>1. prm' = prm /\ prm = "COMPRESS" /\ UNCHANGED free_entry_avail
    BY <1>0, <1>3, CompFrame DEF reader
  <2>2. VictimKnown
    BY DEF ListInv
  <2>3. PopPkt(lst, ht, u) /\ vic.way = WayOf(u.tolEntryId)
    BY <1>1, <1>3, <2>2 DEF VictimKnown, HeadOf, PopPkt
  <2>4. pwm' # "IDLE"
    BY DEF Sending
  <2>5. ~ VictimHeld' /\ ~ free_entry_avail
    BY <1>0, <1>3, <2>1, <2>4 DEF VictimHeld, LookupInv, comp
  <2>6. Preparing => u.dst_list = "NULLIFY"
    BY <1>3 DEF Preparing
  <2>7. upd' = u
    BY <1>3 DEF SendUpdate
  <2> QED BY <1>3, <2>1, <2>3, <2>5, <2>6, <2>7, ListsMoved
<1>4. /\ vic.attEntryId \in PageOrNone /\ vic.way \in Ways \cup {NoWay}
      /\ vic.prev \in EntryOrNull /\ vic.next \in EntryOrNull
      /\ ht.head["UNCOMP"] \in EntryOrNull /\ req.page \in PageOrNone
      /\ zpkt.dest \in Loc /\ At(vic.way, Frame) \in Loc
  BY <1>0 DEF TypeOK, CompType, TablesType, HeadTail, ReaderType, ZsPkt, Loc, At, Lists
<1>10. /\ vic \in [way : Ways \cup {NoWay}, attEntryId : PageOrNone,
                  prev : EntryOrNull, next : EntryOrNull]
       /\ zpkt \in ZsPkt
  BY <1>0 DEF TypeOK, CompType
<1>5. CASE SendIncomp
  <2> DEFINE u == [NoPkt EXCEPT
                   !.attEntryId = vic.attEntryId, !.tolEntryId = ht.head["UNCOMP"],
                   !.loc = At(vic.way, Frame), !.owner = vic.attEntryId,
                   !.prev = vic.prev, !.next = vic.next,
                   !.src_list = "UNCOMP", !.dst_list = "INCOMP"]
  <2>1. /\ SendUpdate(u) /\ UNCHANGED <<mem, zpkt, comp>> /\ CmpStep /\ cmp = cmp'
        /\ cmp = "POP_UCMP_PUSH_INCOMP" /\ VictimHeld
    BY <1>1, <1>5 DEF SendIncomp, SendUpdate, CmpStep, comp, VictimHeld
  <2>2. /\ u \in TolUpdPkt /\ u.src_list = "UNCOMP" /\ u.tolEntryId = ht.head["UNCOMP"]
        /\ u.prev = vic.prev /\ u.next = vic.next /\ u.dst_list = "INCOMP"
        /\ ~ u.ATT_UPDATE_ONLY /\ u.TOL_UPDATE_ONLY # 2
    <3>1. u \in TolUpdPkt
      BY <1>4, <1>10, PktTypes DEF TolUpdPkt, NoPkt, TolLists, Lists, ZsPkt
    <3> QED BY <3>1 DEF NoPkt
  <2> HIDE DEF u
  <2> QED BY <1>3, <2>1, <2>2
<1>6. CASE SendPopUcmp
  <2> DEFINE u == [NoPkt EXCEPT
                   !.attEntryId = vic.attEntryId, !.tolEntryId = ht.head["UNCOMP"],
                   !.loc = zpkt.dest, !.prev = vic.prev, !.next = vic.next,
                   !.src_list = "UNCOMP", !.dst_list = "NULLIFY"]
  <2>1. /\ SendUpdate(u) /\ UNCHANGED <<mem, zpkt, comp>> /\ CmpStep /\ cmp = cmp'
        /\ cmp = "UPDATE_ATT_POP_UCMP_HEAD" /\ VictimHeld
    BY <1>1, <1>6 DEF SendPopUcmp, SendUpdate, CmpStep, comp, VictimHeld
  <2>2. /\ u \in TolUpdPkt /\ u.src_list = "UNCOMP" /\ u.tolEntryId = ht.head["UNCOMP"]
        /\ u.prev = vic.prev /\ u.next = vic.next /\ u.dst_list = "NULLIFY"
        /\ ~ u.ATT_UPDATE_ONLY /\ u.TOL_UPDATE_ONLY # 2
    <3>1. u \in TolUpdPkt
      BY <1>4, <1>10, PktTypes DEF TolUpdPkt, NoPkt, TolLists, Lists, ZsPkt
    <3> QED BY <3>1 DEF NoPkt
  <2> HIDE DEF u
  <2> QED BY <1>3, <2>1, <2>2
<1>7. CASE SendFreewayTol
  <2> DEFINE u == [NoPkt EXCEPT
                   !.attEntryId = vic.attEntryId, !.tolEntryId = ht.head["UNCOMP"],
                   !.loc = zpkt.dest, !.owner = req.page,
                   !.prev = vic.prev, !.next = vic.next,
                   !.src_list = "UNCOMP", !.dst_list = "UNCOMP"]
  <2>1. /\ SendUpdate(u) /\ UNCHANGED <<mem, zpkt, comp>> /\ CmpStep /\ cmp = cmp'
        /\ cmp = "TOL_UPDATE_FREEWAY_ENTRY" /\ VictimHeld
    BY <1>1, <1>7 DEF SendFreewayTol, SendUpdate, CmpStep, comp, VictimHeld
  <2>2. /\ u \in TolUpdPkt /\ u.src_list = "UNCOMP" /\ u.tolEntryId = ht.head["UNCOMP"]
        /\ u.prev = vic.prev /\ u.next = vic.next /\ u.dst_list = "UNCOMP"
        /\ ~ u.ATT_UPDATE_ONLY /\ u.TOL_UPDATE_ONLY # 2
    <3>1. u \in TolUpdPkt
      BY <1>4, <1>10, PktTypes DEF TolUpdPkt, NoPkt, TolLists, Lists, ZsPkt
    <3> QED BY <3>1 DEF NoPkt
  <2> HIDE DEF u
  <2> QED BY <1>3, <2>1, <2>2
<1>8. CASE SendFreewayAtt
  <2> DEFINE u == [NoPkt EXCEPT
                   !.attEntryId = req.page, !.loc = At(vic.way, Frame),
                   !.ATT_UPDATE_ONLY = TRUE, !.ATT_STS = "UNCOMP"]
  <2>1. /\ SendUpdate(u) /\ UNCHANGED <<mem, zpkt, comp, reader>> /\ prm = "COMPRESS"
        /\ cmp = "ATT_UPDATE_FREEWAY_ENTRY"
    BY <1>0, <1>8 DEF SendFreewayAtt, SendUpdate, cmp_idle_others, OneManager
  <2>2. u.ATT_UPDATE_ONLY /\ u.TOL_UPDATE_ONLY # 2
    BY DEF NoPkt
  <2>3. FutL' = lst /\ FutH' = ht /\ upd' = u
    <3> HIDE DEF u
    <3> QED BY <2>1, <2>2, FutSent
  <2>4. VictimKnown' /\ AllocKnown' /\ ~ Preparing
    BY <1>0, <2>1 DEF VictimKnown, AllocKnown, VictimHeld, LookupInv, comp, reader, Preparing
  <2>5. Chains(FutL', FutH', r, k) /\ ZspagesOut(r)'
    BY <1>1, <2>1, <2>3, <2>4 DEF ListInv, ZspagesOut, HeadOf
  <2>6. RoleAfter(r, u) = r
    BY <2>2 DEF RoleAfter
  <2>7. ListInv(r, k)' /\ Moved(r, r)
    BY <2>3, <2>4, <2>5, <2>6 DEF ListInv, Moved
  <2>8. OwnersKept
    <3> HIDE DEF u
    <3> QED BY <1>1, <2>2, <2>3 DEF OwnersKept, Owner
  <2> HIDE DEF u
  <2> QED BY <2>2, <2>3, <2>7, <2>8
<1>9. CASE SendPushIfl
  <2> DEFINE e == EntryOf(zpkt.iWay_ptr)
             u == [NoPkt EXCEPT
                       !.tolEntryId = e, !.loc = At(WayOf(e), Frame),
                       !.prev = lst[e].prev, !.next = lst[e].next,
                       !.TOL_UPDATE_ONLY = 2,
                       !.src_list = "IFL_DETACH", !.dst_list = "IFL_SIZE1"]
  <2>1. /\ SendUpdate(u) /\ UNCHANGED <<mem, zpkt, comp, reader>> /\ prm = "DECOMPRESS"
        /\ cmp = "IDLE"
    BY <1>0, <1>9 DEF SendPushIfl, SendUpdate, dec_idle_others, OneManager
  <2>2. zpkt.iWay_ptr \in Ways
    BY <1>9 DEF SendPushIfl, IInv, SlotInv, DecWay
  <2>3. e \in Entries
    BY <2>2, WayInverse
  <2>4. lst[e].prev \in EntryOrNull /\ lst[e].next \in EntryOrNull /\ e \in EntryOrNull
        /\ At(WayOf(e), Frame) \in Loc
    BY <1>0, <2>3, EntryTypes, WayInverse DEF TypeOK, TablesType, ListEntry, Loc, At
  <2>5. /\ u \in TolUpdPkt /\ u.dst_list = "IFL_SIZE1" /\ u.TOL_UPDATE_ONLY = 2
        /\ u.tolEntryId = e /\ ~ u.ATT_UPDATE_ONLY
    <3> HIDE DEF e
    <3>1. 2 \in 0 .. 2 /\ {"IFL_DETACH", "IFL_SIZE1"} \subseteq TolLists
      BY DEF TolLists, Lists
    <3>2. u \in TolUpdPkt
      BY <2>4, <3>1, PktTypes DEF NoPkt, TolUpdPkt
    <3> QED BY <3>2 DEF NoPkt
  <2>6. FutL' = DstL(lst, ht, u) /\ FutH' = DstH(ht, u) /\ upd' = u
    <3> HIDE DEF u
    <3> QED BY <2>1, <2>5, FutSent
  <2>7. /\ Chains(lst, ht, r, k) /\ ZspagesOut(r) /\ AllocKnown
        /\ ht.head["IFL_SIZE1"] # NULL => r[ht.head["IFL_SIZE1"]] = "OUT"
    BY <1>1 DEF ListInv, ZspagesOut, HeadOf
  <2>8. ~ Preparing /\ r[e] = "OUT"
    BY <2>1, <2>2, <2>7 DEF ZspagesOut, Preparing
  <2>9. /\ Chains(FutL', FutH', r, k)
        /\ FutH'.head["IFL_SIZE1"] = e
        /\ \A x \in Queues : FutH'.head[x] = ht.head[x]
        /\ \A f \in Entries : /\ f # e => FutL'[f].attEntryId = lst[f].attEntryId
                              /\ r[f] # "OUT" => /\ FutL'[f].attEntryId = lst[f].attEntryId
                                                 /\ FutL'[f].next = lst[f].next
                                                 /\ FutL'[f].prev = lst[f].prev
    <3> HIDE DEF e, u
    <3> QED BY <2>3, <2>5, <2>6, <2>7, <2>8, Pushes
  <2>10. VictimKnown'
    BY <2>1 DEF VictimKnown, VictimHeld, comp
  <2>11. AllocKnown'
    <3>1. "FREE" \in Queues
      BY DEF Queues
    <3>2. ht.head["FREE"] # NULL =>
            ht.head["FREE"] \in Entries /\ r[ht.head["FREE"]] = "FREE"
      BY <2>7, <3>1 DEF Chains, Chain, Ends
    <3>3. FutH'.head["FREE"] = ht.head["FREE"]
      BY <2>9, <3>1
    <3>4. ht.head["FREE"] # NULL =>
            /\ FutL'[ht.head["FREE"]].next = lst[ht.head["FREE"]].next
            /\ FutL'[ht.head["FREE"]].prev = lst[ht.head["FREE"]].prev
      BY <2>9, <3>2
    <3> HIDE DEF e, u
    <3>5. UNCHANGED <<prm, free_entry_avail, alloc, req>>
      BY <2>1 DEF reader
    <3>6. HeadOf("FREE") = ht.head["FREE"] /\ HeadOf("FREE")' = ht.head["FREE"]
      BY <1>1, <3>3 DEF HeadOf
    <3> QED BY <1>1, <2>7, <3>4, <3>5, <3>6 DEF AllocKnown
  <2>12. ZspagesOut(r)'
    BY <2>1, <2>7, <2>8, <2>9 DEF ZspagesOut, HeadOf, Preparing, comp
  <2>13. RoleAfter(r, u) = r
    BY <2>5 DEF RoleAfter
  <2>14. ListInv(r, k)' /\ Moved(r, r)
    BY <2>6, <2>9, <2>10, <2>11, <2>12, <2>13 DEF ListInv, Moved
  <2>15. OwnersKept
    <3> HIDE DEF u, e
    <3> QED BY <1>1, <2>5, <2>6, <2>9 DEF OwnersKept, Owner
  <2> HIDE DEF u
  <2> QED BY <2>5, <2>6, <2>14, <2>15
<1> QED BY <1>2, <1>5, <1>6, <1>7, <1>8, <1>9, Senders

(* One step of the engine, as far as the lists are concerned.              *)
LEMMA ListStep ==
  ASSUME NEW r, NEW k, IInv, init_list_done, ListInv(r, k), Next
  PROVE  /\ \E r1, k1 : ListInv(r1, k1)' /\ Moved(r, r1)
         /\ OwnersKept
         /\ Sending /\ ~ upd'.ATT_UPDATE_ONLY /\ upd'.TOL_UPDATE_ONLY # 2 =>
              upd'.tolEntryId \in Entries /\ r[upd'.tolEntryId] = upd'.src_list
<1>1. CASE Sending
  BY <1>1, ListsSent
<1>2. CASE ~ Sending
  <2>1. ListInv(r, k)' /\ OwnersKept
    BY <1>2, ListsQuiet
  <2>2. Moved(r, r)
    BY <1>2 DEF Moved
  <2> QED BY <1>2, <2>1, <2>2
<1> QED BY <1>1, <1>2

(* The chain the initialisation builds.                                    *)
LEMMA FreeChain ==
  ASSUME lst \in [Entries -> ListEntry], NEW h \in HeadTail,
         \A e \in Entries : lst[e] = Built(e),
         \A x \in Lists : /\ h.head[x] = IF x = "FREE" THEN 1 ELSE NULL
                          /\ h.tail[x] = IF x = "FREE" THEN ListEntryCnt ELSE NULL
  PROVE  Chains(lst, h, [e \in Entries |-> "FREE"], [e \in Entries |-> e])
<1> DEFINE r == [e \in Entries |-> "FREE"]
           k == [e \in Entries |-> e]
<1>1. r \in [Entries -> Roles] /\ k \in [Entries -> Nat]
  BY DEF Roles, Queues, Entries
<1>2. ListEntryCnt \in Nat /\ ListEntryCnt # 0 /\ 1 \in Entries /\ ListEntryCnt \in Entries
  BY ListAssumption DEF Entries
<1>3. \A e \in Entries : /\ lst[e].prev = e - 1
                         /\ lst[e].next = IF e = ListEntryCnt THEN NULL ELSE e + 1
  BY DEF Built
<1>4. Chain("FREE", 1, ListEntryCnt, lst, r, k)
  <2>1. Ends("FREE", 1, ListEntryCnt, lst, r)
    BY <1>2, <1>3 DEF Ends, NULL
  <2>2. \A e \in Entries : /\ r[e] = "FREE" /\ k[e] = e
                           /\ e # 1 => e - 1 \in Entries /\ e - 1 < e /\ e - 1 # ListEntryCnt
                                       /\ (e - 1) + 1 = e
                           /\ e # ListEntryCnt => e + 1 \in Entries /\ e < e + 1
                                                  /\ (e + 1) - 1 = e
    BY <1>2 DEF Entries
  <2> HIDE DEF r, k
  <2>3. Links("FREE", 1, ListEntryCnt, lst, r, k)
    BY <1>2, <1>3, <2>2 DEF Links, NULL
  <2> QED BY <2>1, <2>3 DEF Chain
<1>5. \A x \in {"UNCOMP", "INCOMP"} : Chain(x, NULL, NULL, lst, r, k)
  BY DEF Chain, Ends, Links
<1>6. \A x \in Queues : Chain(x, h.head[x], h.tail[x], lst, r, k)
  BY <1>4, <1>5 DEF Queues, Lists
<1> QED BY <1>1, <1>6 DEF Chains

(* The initialisation ends with every entry on the free list.              *)
LEMMA ListsBegin ==
  /\ Init => InitLists /\ ~ init_list_done
  /\ IInv /\ ~ init_list_done /\ InitLists /\ Next =>
       IF init_list_done'
       THEN /\ ListInv([e \in Entries |-> "FREE"], [e \in Entries |-> e])'
            /\ InitList /\ FutAtt' = att
       ELSE InitLists'
<1>1. Init => InitLists /\ ~ init_list_done
  <2> SUFFICES ASSUME Init PROVE InitLists /\ ~ init_list_done
    OBVIOUS
  <2>1. \A e \in Entries : ~ (e < 1)
    BY DEF Entries
  <2> QED BY <2>1 DEF Init, InitLists, init_list_done, NoReq
<1>2. ASSUME IInv, ~ init_list_done, InitLists, Next
      PROVE  IF init_list_done'
             THEN /\ ListInv([e \in Entries |-> "FREE"], [e \in Entries |-> e])'
                  /\ InitList /\ FutAtt' = att
             ELSE InitLists'
  <2>0. /\ TypeOK /\ prm = "IDLE" /\ cmp = "IDLE" /\ dec = "IDLE" /\ ~ free_entry_avail
        /\ acc = [c \in Chans |-> NoAcc]
    BY <1>2 DEF IInv, OneManager, LookupInv, InitLists
  <2>00. /\ etry_cnt \in 1 .. ListEntryCnt + 1 /\ lst \in [Entries -> ListEntry]
         /\ ht \in HeadTail
    BY <2>0 DEF TypeOK, WriterType, TablesType
  <2>1. InitAtt \/ InitList \/ UNCHANGED <<tables, mem, writer, zpkt, acc, uc, req>>
    <3>1. pwm \in {"INIT_ATT", "INIT_LIST"}
      BY <1>2 DEF init_list_done
    <3>2. CASE PwmStep
      BY <3>1, <3>2 DEF PwmStep, PwmAttUpdate, PwmSlstUpdate, PwmDlstUpdate1,
         PwmDlstUpdate2, PwmPageTransfer, PwmZsPageUpdate
    <3>3. ~ PrmStep
      BY <2>0 DEF PrmStep, ReadAtt, Hit, Grant, Miss, TakeFreeEntry, NeedVictim,
              DecodeLstEntry, SendTblUpdate, TblUpdateDone, CompressDone, DecompressDone
    <3>4. ~ CmpStep
      BY <2>0, CompFrame, <1>2 DEF IInv
    <3>5. ~ DecStep
      BY <2>0 DEF DecStep, DecFetchIway, DecBurstRead, SendDecompressed,
              DecompressedDone, FetchIflLstEntry, SendPushIfl, PushIflDone
    <3>6. ~ (\E c \in Chans, p \in Pages : Lookup(c, p))
      BY <1>2 DEF Lookup
    <3>7. ~ CpuRead /\ ~ CpuWrite /\ ~ ReadError
      BY <2>0 DEF CpuRead, CpuWrite, ReadError
    <3>8. StayParked => UNCHANGED <<tables, mem, writer, zpkt, acc, uc, req>>
      BY DEF StayParked, vars, comp, reader
    <3> QED BY <1>2, <3>2, <3>3, <3>4, <3>5, <3>6, <3>7, <3>8 DEF Next, ManagerStep
  <2>2. CASE UNCHANGED <<tables, mem, writer, zpkt, acc, uc, req>>
    BY <1>2, <2>2 DEF InitLists, init_list_done, tables, writer
  <2>3. CASE InitAtt
    <3>1. pwm = "INIT_ATT" /\ pwm' = "INIT_LIST" /\ ht' = [ht EXCEPT !.head["FREE"] = 1]
          /\ UNCHANGED <<lst, mem, etry_cnt, zpkt, acc, uc, req>>
      BY <2>3 DEF InitAtt, comp, reader
    <3>2. \A p \in Pages : att'[p].sts = "DALLOC"
      BY <2>3 DEF InitAtt
    <3>3. ht = [head |-> [x \in Lists |-> NULL], tail |-> [x \in Lists |-> NULL]]
      BY <1>2, <3>1 DEF InitLists
    <3>4. ht' = [head |-> [x \in Lists |-> IF x = "FREE" THEN 1 ELSE NULL],
                 tail |-> [x \in Lists |-> NULL]]
      BY <3>1, <3>3
    <3> QED BY <1>2, <3>1, <3>2, <3>4 DEF InitLists, init_list_done
  <2>4. CASE InitList /\ etry_cnt <= ListEntryCnt
    <3>1. etry_cnt \in Entries
      BY <2>00, <2>4, ListAssumption DEF Entries
    <3>2. /\ lst' = [lst EXCEPT ![etry_cnt] = Built(etry_cnt)] /\ etry_cnt' = etry_cnt + 1
          /\ pwm = "INIT_LIST"
          /\ UNCHANGED <<ht, pwm, att, mem, zpkt, acc, uc, req>>
      BY <2>4 DEF InitList, Built, comp, reader
    <3>3. \A e \in Entries : e < etry_cnt' => lst'[e] = Built(e)
      <4> SUFFICES ASSUME NEW e \in Entries, e < etry_cnt' PROVE lst'[e] = Built(e)
        OBVIOUS
      <4>1. e = etry_cnt \/ e < etry_cnt
        BY <3>1, <3>2 DEF Entries
      <4>2. CASE e = etry_cnt
        BY <2>00, <3>1, <3>2, <4>2
      <4>3. CASE e < etry_cnt /\ e # etry_cnt
        BY <1>2, <2>00, <3>1, <3>2, <4>3 DEF InitLists
      <4> QED BY <4>1, <4>2, <4>3
    <3> QED BY <1>2, <3>2, <3>3 DEF InitLists, init_list_done
  <2>5. CASE InitList /\ ~ (etry_cnt <= ListEntryCnt)
    <3>1. /\ ht' = [ht EXCEPT !.tail["FREE"] = etry_cnt - 1] /\ pwm' = "IDLE"
          /\ pwm = "INIT_LIST"
          /\ UNCHANGED <<lst, att, mem, zpkt, acc, uc, req, prm, cmp, free_entry_avail>>
      BY <2>5 DEF InitList, comp, reader
    <3>2. etry_cnt = ListEntryCnt + 1 /\ etry_cnt - 1 = ListEntryCnt
      BY <2>00, <2>5, ListAssumption
    <3>3. \A e \in Entries : lst[e] = Built(e)
      <4>1. \A e \in Entries : e < etry_cnt
        BY <3>2, ListAssumption DEF Entries
      <4> QED BY <1>2, <4>1 DEF InitLists
    <3>4. ht = [head |-> [x \in Lists |-> IF x = "FREE" THEN 1 ELSE NULL],
                tail |-> [x \in Lists |-> NULL]]
      BY <1>2, <3>1 DEF InitLists
    <3>5. \A x \in Lists : /\ ht'.head[x] = IF x = "FREE" THEN 1 ELSE NULL
                           /\ ht'.tail[x] = IF x = "FREE" THEN ListEntryCnt ELSE NULL
      BY <3>1, <3>2, <3>4
    <3>6. ht' \in HeadTail
      BY <1>2, Inductive DEF IInv, TypeOK, TablesType
    <3>7. Chains(lst, ht', [e \in Entries |-> "FREE"], [e \in Entries |-> e])
      BY <2>00, <3>3, <3>5, <3>6, FreeChain
    <3>8. FutL' = lst /\ FutH' = ht' /\ FutAtt' = att
      BY <3>1 DEF FutL, FutH, FutAtt
    <3>9. VictimKnown' /\ AllocKnown'
      BY <2>0, <3>1 DEF VictimKnown, AllocKnown, VictimHeld
    <3>10. ZspagesOut([e \in Entries |-> "FREE"])'
      <4>1. mem' = [w \in Ways |-> RawFrame(NoPage)] /\ zpkt' = NoZsPkt
        BY <1>2, <3>1 DEF InitLists
      <4>2. \A w \in Ways : mem'[w].iway = NoWay /\ NoWay # w /\ zpkt'.iWay_ptr # w
        BY <4>1, WayInverse DEF RawFrame, NoZsPkt
      <4>3. HeadOf("IFL_SIZE1")' = NULL
        BY <3>5, <3>8 DEF HeadOf, Lists
      <4> QED BY <4>2, <4>3 DEF ZspagesOut
    <3>11. ListInv([e \in Entries |-> "FREE"], [e \in Entries |-> e])'
      BY <3>7, <3>8, <3>9, <3>10 DEF ListInv
    <3> QED BY <2>5, <3>1, <3>8, <3>11 DEF init_list_done
  <2> QED BY <2>1, <2>2, <2>3, <2>4, <2>5
<1> QED BY <1>1, <1>2

(* The lists as the walk of the hardware sees them.                        *)
LEMMA ListsSeen ==
  ASSUME NEW r, NEW k, Chains(lst, ht, r, k), NEW x \in Queues
  PROVE  Linked(x) /\ Members(x) = {e \in Entries : r[e] = x}
<1> DEFINE w == Walk(x)
<1>1. ListEntryCnt \in Nat /\ ListEntryCnt # 0
  BY ListAssumption
<1>2. IsWalk(w, ListEntryCnt, lst, ht.head[x])
  <2> DEFINE V == [n \in 0 .. ListEntryCnt |->
                     IF n = 0 THEN ht.head[x]
                     ELSE IF w[n - 1] = NULL THEN NULL ELSE lst[w[n - 1]].next]
  <2>1. PICK f : IsWalk(f, ListEntryCnt, lst, ht.head[x])
    BY <1>1, WalkExists
  <2>2. f = [n \in 0 .. ListEntryCnt |->
               IF n = 0 THEN ht.head[x]
               ELSE IF f[n - 1] = NULL THEN NULL ELSE lst[f[n - 1]].next]
    BY <2>1 DEF IsWalk, Follow
  <2>3. w = V
    BY <2>2 DEF Walk
  <2> HIDE DEF w
  <2> QED BY <2>3 DEF IsWalk, Follow
<1>3. Chain(x, ht.head[x], ht.tail[x], lst, r, k) /\ k \in [Entries -> Nat]
  BY DEF Chains
<1> HIDE DEF w
<1>4. \A n \in 0 .. ListEntryCnt :
        /\ w[n] # NULL => /\ w[n] \in Entries /\ r[w[n]] = x
                          /\ lst[w[n]].prev = IF n = 0 THEN NULL ELSE w[n - 1]
                          /\ \A i \in 0 .. n - 1 : w[i] \in Entries /\ k[w[i]] < k[w[n]]
        /\ n < ListEntryCnt =>
             ((w[n + 1] = NULL) <=> (w[n] = NULL \/ w[n] = ht.tail[x]))
  BY <1>1, <1>2, <1>3, WalkSteps
<1>5. /\ w[ListEntryCnt] = NULL
      /\ {w[n] : n \in 0 .. ListEntryCnt} \ {NULL} = {e \in Entries : r[e] = x}
  BY <1>2, <1>3, WalkVisits
<1>6. Members(x) = {e \in Entries : r[e] = x}
  BY <1>5 DEF Members, w
<1>7. (ht.head[x] = NULL) = (ht.tail[x] = NULL)
  BY <1>3 DEF Chain, Ends
<1>8. \A n \in 0 .. ListEntryCnt - 1 :
        w[n] # NULL => /\ lst[w[n]].prev = IF n = 0 THEN NULL ELSE w[n - 1]
                       /\ (w[n + 1] = NULL) = (w[n] = ht.tail[x])
  <2> SUFFICES ASSUME NEW n \in 0 .. ListEntryCnt - 1, w[n] # NULL
               PROVE  /\ lst[w[n]].prev = IF n = 0 THEN NULL ELSE w[n - 1]
                      /\ (w[n + 1] = NULL) = (w[n] = ht.tail[x])
    OBVIOUS
  <2>1. n \in 0 .. ListEntryCnt /\ n < ListEntryCnt
    BY <1>1
  <2> QED BY <1>4, <2>1
<1>9. Linked(x)
  BY <1>5, <1>7, <1>8 DEF Linked, w
<1> QED BY <1>6, <1>9

(* The inductive invariant of the list structure.                          *)
ListsKept == IF init_list_done THEN \E r, k : ListInv(r, k) ELSE InitLists

(* Initialisation is over for good.                                        *)
LEMMA InitStays == Next /\ init_list_done => init_list_done'
<1> SUFFICES ASSUME Next, init_list_done PROVE init_list_done'
  OBVIOUS
<1> USE DEF init_list_done
<1>1. CASE PwmStep
  BY <1>1 DEF PwmStep, InitAtt, InitList, PwmAttUpdate, PwmSlstUpdate, PwmDlstUpdate1,
       PwmDlstUpdate2, PwmPageTransfer, PwmZsPageUpdate
<1>2. CASE PrmStep
  BY <1>2 DEF PrmStep, ReadAtt, Hit, Grant, Miss, TakeFreeEntry, NeedVictim, writer,
       DecodeLstEntry, SendTblUpdate, SendUpdate, TblUpdateDone, CompressDone, DecompressDone
<1>3. CASE CmpStep
  BY <1>3 DEF CmpStep, CmpPeek, CmpBurstRead, CmpIncompressible, writer,
       SendIncomp, IncompDone, StartZspage, FetchZspage, PrepZspage, PrepDone,
       SendPopUcmp, PopUcmpDone, SendMigrate, MigrateDone, SendFreewayTol,
       FreewayTolDone, SendFreewayAtt, FreewayAttDone, SendUpdate, UpdateDone, SendPage
<1>4. CASE DecStep
  BY <1>4 DEF DecStep, DecFetchIway, DecBurstRead, SendDecompressed, writer,
       DecompressedDone, FetchIflLstEntry, SendPushIfl, PushIflDone, SendUpdate,
       UpdateDone, SendPage
<1>5. CASE \E c \in Chans, p \in Pages : Lookup(c, p)
  BY <1>5 DEF Lookup, writer
<1>6. CASE ReadError \/ CpuRead \/ CpuWrite \/ StayParked
  BY <1>6 DEF ReadError, CpuRead, CpuWrite, StayParked, vars, writer
<1> QED BY <1>1, <1>2, <1>3, <1>4, <1>5, <1>6 DEF Next, ManagerStep

(* The lists are kept whatever memory and CPU do: PromptMemory is not      *)
(* needed.                                                                 *)
LEMMA ListsInductive == Spec => [](IInv /\ ListsKept)
<1>1. Init => IInv /\ ListsKept
  BY Inductive, ListsBegin DEF ListsKept
<1>2. IInv /\ ListsKept /\ [Next]_vars => (IInv /\ ListsKept)'
  <2> SUFFICES ASSUME IInv, ListsKept, [Next]_vars PROVE (IInv /\ ListsKept)'
    OBVIOUS
  <2>0. IInv'
    BY Inductive
  <2>1. CASE UNCHANGED vars
    <3>1. UNCHANGED <<tables, mem, writer, zpkt, reader, comp, fifo, dec, acc>>
      BY <2>1 DEF vars
    <3>2. FutL' = FutL /\ FutH' = FutH
      BY <3>1 DEF FutL, FutH, tables, writer
    <3>3. ASSUME NEW r, NEW k, ListInv(r, k) PROVE ListInv(r, k)'
      <4>1. Chains(FutL, FutH, r, k)' /\ (\A x \in Lists : HeadOf(x)' = HeadOf(x))
        BY <3>2, <3>3 DEF ListInv, HeadOf
      <4>2. VictimKnown'
        BY <3>1, <3>2, <3>3 DEF ListInv, VictimKnown, VictimHeld, HeadOf, comp, writer
      <4>3. AllocKnown'
        BY <3>1, <3>2, <3>3 DEF ListInv, AllocKnown, HeadOf, reader
      <4>4. ZspagesOut(r)'
        BY <3>1, <3>2, <3>3 DEF ListInv, ZspagesOut, Preparing, HeadOf, comp, writer
      <4> QED BY <4>1, <4>2, <4>3, <4>4 DEF ListInv
    <3>4. init_list_done' = init_list_done /\ (InitLists => InitLists')
      BY <3>1 DEF InitLists, init_list_done, tables, writer, reader, comp
    <3> QED BY <2>0, <3>3, <3>4 DEF ListsKept
  <2>2. CASE Next /\ init_list_done
    <3>1. PICK r, k : ListInv(r, k)
      BY <2>2 DEF ListsKept
    <3>2. \E r1, k1 : ListInv(r1, k1)'
      BY <2>2, <3>1, ListStep
    <3> QED BY <2>0, <2>2, <3>2, InitStays DEF ListsKept
  <2>3. CASE Next /\ ~ init_list_done
    BY <2>0, <2>3, ListsBegin DEF ListsKept
  <2> QED BY <2>1, <2>2, <2>3
<1> QED BY <1>1, <1>2, PTL DEF Spec

(* For every number of ways, pages and errors, with or without             *)
(* PromptMemory: whenever the page writer is idle, the FREE, UNCOMP and    *)
(* INCOMP lists are doubly linked from their head to their tail register   *)
(* (SrcL, DstL and the registers of hawk_pgwr_mngr.sv).                    *)
THEOREM ListsAlwaysWellFormed == Spec => []ListsWellFormed
<1>1. IInv /\ ListsKept => ListsWellFormed
  <2> SUFFICES ASSUME ListsKept, pwm = "IDLE", NEW x \in {"FREE", "UNCOMP", "INCOMP"}
               PROVE  Linked(x)
    BY DEF ListsWellFormed
  <2>1. PICK r, k : ListInv(r, k)
    BY DEF ListsKept, init_list_done
  <2>2. Chains(lst, ht, r, k)
    BY <2>1 DEF ListInv, FutL, FutH
  <2> QED BY <2>2, ListsSeen DEF Queues
<1> QED BY <1>1, ListsInductive, PTL

(* The steps that change what a page's contents depend on: updates that    *)
(* are sent, the two writes of a page transfer, CPU writes, and the grant  *)
(* of a first access.                                                      *)
Loud == \/ SendTblUpdate \/ SendIncomp \/ SendPopUcmp \/ SendFreewayTol \/ SendFreewayAtt
        \/ PwmPageTransfer \/ PwmZsPageUpdate \/ CpuWrite \/ TblUpdateDone
        \/ (CompressDone /\ trnsl.sts # "COMP")
Quiet == init_list_done /\ Next /\ ~ Loud

(* Quiet steps leave contents and owners as they are.                      *)
LEMMA QuietData ==
  ASSUME NEW r, NEW k, IInv, ListInv(r, k), Request, Quiet
  PROVE  /\ mem' = mem /\ FutAtt' = FutAtt
         /\ \A f \in Entries : r[f] # "OUT" => Owner(f)' = Owner(f)
         /\ \E k1 : ListInv(r, k1)'
<1>0. IInv /\ init_list_done /\ Next /\ ~ Loud /\ OneManager
  BY DEF Quiet, IInv
<1>1. mem' = mem
  <2>1. CASE PwmStep
    BY <1>0, <2>1 DEF PwmStep, InitAtt, InitList, PwmAttUpdate, PwmSlstUpdate,
       PwmDlstUpdate1, PwmDlstUpdate2, Loud
  <2>2. CASE PrmStep
    <3>1. Hit \/ DecompressDone => ~ req.fresh
      BY <1>0 DEF Request, Hit, DecompressDone, OneManager
    <3> QED BY <1>0, <2>2, <3>1 DEF PrmStep, ReadAtt, Hit, Grant, Miss, TakeFreeEntry,
       NeedVictim, DecodeLstEntry, SendTblUpdate, SendUpdate, CompressDone,
       DecompressDone, Loud
  <2>3. CASE CmpStep
    BY <2>3 DEF CmpStep, cmp_idle_others, CmpPeek, CmpBurstRead, CmpIncompressible,
       SendIncomp, IncompDone, StartZspage, FetchZspage, PrepZspage, PrepDone,
       SendPopUcmp, PopUcmpDone, SendMigrate, MigrateDone, SendFreewayTol,
       FreewayTolDone, SendFreewayAtt, FreewayAttDone, SendUpdate, UpdateDone, SendPage
  <2>4. CASE DecStep
    BY <2>4 DEF DecStep, dec_idle_others, DecFetchIway, DecBurstRead, SendDecompressed,
       DecompressedDone, FetchIflLstEntry, SendPushIfl, PushIflDone, SendUpdate,
       UpdateDone, SendPage
  <2>5. CASE \E c \in Chans, p \in Pages : Lookup(c, p)
    BY <2>5 DEF Lookup
  <2>6. CASE ReadError \/ CpuRead \/ CpuWrite \/ StayParked
    BY <1>0, <2>6 DEF ReadError, CpuRead, StayParked, vars, Loud
  <2> QED BY <1>0, <2>1, <2>2, <2>3, <2>4, <2>5, <2>6 DEF Next, ManagerStep
<1>2. /\ \E r1, k1 : ListInv(r1, k1)' /\ Moved(r, r1)
      /\ OwnersKept
  BY <1>0, ListStep
<1>3. CASE ~ Sending
  <2>1. FutAtt' = FutAtt
    BY <1>0, <1>3, FutKept
  <2>2. \A r1 : Moved(r, r1) => r1 = r
    BY <1>3 DEF Moved
  <2> QED BY <1>1, <1>2, <1>3, <2>1, <2>2 DEF OwnersKept
<1>4. CASE Sending
  <2>1. SendPushIfl
    BY <1>0, <1>4, Senders DEF Loud
  <2> DEFINE e == EntryOf(zpkt.iWay_ptr)
             u == [NoPkt EXCEPT
                       !.tolEntryId = e, !.loc = At(WayOf(e), Frame),
                       !.prev = lst[e].prev, !.next = lst[e].next,
                       !.TOL_UPDATE_ONLY = 2,
                       !.src_list = "IFL_DETACH", !.dst_list = "IFL_SIZE1"]
  <2>2. SendUpdate(u)
    BY <2>1 DEF SendPushIfl
  <2>3. u.TOL_UPDATE_ONLY = 2 /\ u.tolEntryId = e
    BY DEF NoPkt
  <2>4. FutAtt' = FutAtt /\ upd' = u
    <3> HIDE DEF u, e
    <3> QED BY <2>2, <2>3, FutSent
  <2>5. r[e] = "OUT"
    <3>1. zpkt.iWay_ptr \in Ways /\ ~ Preparing
      BY <1>0, <2>1 DEF SendPushIfl, IInv, SlotInv, DecWay, OneManager, Preparing
    <3> QED BY <3>1 DEF ListInv, ZspagesOut
  <2> HIDE DEF u, e
  <2>6. \A r1 : Moved(r, r1) => r1 = r
    BY <1>4, <2>3, <2>4 DEF Moved, RoleAfter
  <2>7. \A f \in Entries : r[f] # "OUT" => Owner(f)' = Owner(f)
    BY <1>2, <2>3, <2>4, <2>5 DEF OwnersKept
  <2> QED BY <1>1, <1>2, <2>4, <2>6, <2>7
<1> QED BY <1>3, <1>4

(* The writer's work is always that of the manager that waits for it.      *)
LEMMA JobsStep == IInv /\ AllocKnown /\ Jobs /\ Next => Jobs'
<1> SUFFICES ASSUME IInv, AllocKnown, Jobs, Next PROVE Jobs'
  OBVIOUS
<1>0. OneManager
  BY DEF IInv
<1> USE DEF Jobs, TolStates, OneManager, WriterBusy, PrmWaits, CmpWaits, DecWaits,
            init_list_done, comp, reader, writer
<1>1. CASE PwmStep
  BY <1>0, <1>1, WriterFrame DEF PwmStep, InitAtt, InitList, PwmAttUpdate, PwmSlstUpdate,
     PwmDlstUpdate1, PwmDlstUpdate2, PwmPageTransfer, PwmZsPageUpdate
<1>2. CASE PrmStep
  <2>1. CASE SendTblUpdate
    <3>1. alloc.TOL_UPDATE_ONLY = 0
      BY <2>1 DEF SendTblUpdate, AllocKnown, NoPkt
    <3> QED BY <1>0, <2>1, <3>1 DEF SendTblUpdate, SendUpdate
  <2>2. CASE ~ SendTblUpdate
    BY <1>0, <1>2, <2>2 DEF PrmStep, ReadAtt, Hit, Grant, Miss, TakeFreeEntry, NeedVictim,
       DecodeLstEntry, TblUpdateDone, CompressDone, DecompressDone
  <2> QED BY <2>1, <2>2
<1>3. CASE CmpStep
  <2>1. CASE SendIncomp \/ SendPopUcmp \/ SendFreewayTol \/ SendFreewayAtt
    BY <1>0, <2>1 DEF SendIncomp, SendPopUcmp, SendFreewayTol, SendFreewayAtt, SendUpdate, NoPkt
  <2>2. CASE ~ (SendIncomp \/ SendPopUcmp \/ SendFreewayTol \/ SendFreewayAtt)
    BY <1>0, <1>3, <2>2 DEF CmpStep, cmp_idle_others, CmpPeek, CmpBurstRead, CmpIncompressible,
     IncompDone, StartZspage, FetchZspage, PrepZspage, PrepDone, SendMigrate,
     PopUcmpDone, MigrateDone, FreewayTolDone, FreewayAttDone, UpdateDone, SendPage
  <2> QED BY <2>1, <2>2
<1>4. CASE DecStep
  <2>1. CASE SendPushIfl
    BY <1>0, <2>1 DEF SendPushIfl, SendUpdate, NoPkt
  <2>2. CASE ~ SendPushIfl
    BY <1>0, <1>4, <2>2 DEF DecStep, dec_idle_others, DecFetchIway, DecBurstRead, SendDecompressed,
     DecompressedDone, FetchIflLstEntry, PushIflDone, UpdateDone, SendPage
  <2> QED BY <2>1, <2>2
<1>5. CASE \E c \in Chans, p \in Pages : Lookup(c, p)
  BY <1>0, <1>5 DEF Lookup
<1>6. CASE ReadError \/ CpuRead \/ CpuWrite \/ StayParked
  BY <1>0, <1>6 DEF ReadError, CpuRead, CpuWrite, StayParked, vars
<1> QED BY <1>1, <1>2, <1>3, <1>4, <1>5, <1>6 DEF Next, ManagerStep

(* What a manager is in the middle of, it stays in the middle of ...       *)
LEMMA QuietControl ==
  IInv /\ Jobs /\ Request /\ Quiet =>
    /\ Handed => Handed' /\ ReqPage' = ReqPage /\ vic' = vic
    /\ Awaited => Awaited' /\ ReqPage' = ReqPage
    /\ Moving => Moving' /\ vic' = vic
    /\ OldHeld => OldHeld' /\ ReqPage' = ReqPage /\ trnsl' = trnsl
    /\ Written => Written' /\ vic' = vic /\ zpkt'.dest = zpkt.dest
    /\ (Prepared' <=> Prepared) /\ (Prepared => vic' = vic)
<1> SUFFICES ASSUME IInv, Jobs, Request, Quiet
             PROVE  /\ Handed => Handed' /\ ReqPage' = ReqPage /\ vic' = vic
                    /\ Awaited => Awaited' /\ ReqPage' = ReqPage
                    /\ Moving => Moving' /\ vic' = vic
                    /\ OldHeld => OldHeld' /\ ReqPage' = ReqPage /\ trnsl' = trnsl
                    /\ Written => Written' /\ vic' = vic /\ zpkt'.dest = zpkt.dest
                    /\ (Prepared' <=> Prepared) /\ (Prepared => vic' = vic)
  OBVIOUS
<1>0. IInv /\ Jobs /\ Request /\ init_list_done /\ Next /\ ~ Loud /\ OneManager /\ LookupInv
  BY DEF Quiet, IInv
<1> USE DEF Handed, Awaited, Moving, OldHeld, Written, Prepared, Unpacking, Given,
            ReqPage, VicPage, OneManager, WriterBusy, PrmWaits, CmpWaits, DecWaits,
            init_list_done, comp, reader, writer, LookupInv
<1>1. CASE PwmStep
  BY <1>0, <1>1, WriterFrame DEF PwmStep, InitAtt, InitList, PwmAttUpdate, PwmSlstUpdate,
     PwmDlstUpdate1, PwmDlstUpdate2, Loud, Jobs, TolStates
<1>2. CASE PrmStep
  <2>1. CASE CompressDone
    BY <1>0, <2>1 DEF CompressDone, Loud
  <2>2. CASE DecompressDone \/ Hit
    BY <1>0, <2>2 DEF DecompressDone, Hit
  <2>3. CASE ReadAtt \/ Miss \/ TakeFreeEntry \/ NeedVictim \/ DecodeLstEntry
    BY <1>0, <2>3 DEF ReadAtt, Miss, TakeFreeEntry, NeedVictim, DecodeLstEntry
  <2> QED BY <1>0, <1>2, <2>1, <2>2, <2>3 DEF PrmStep, Loud
<1>3. CASE CmpStep
  BY <1>0, <1>3 DEF CmpStep, cmp_idle_others, CmpPeek, CmpBurstRead, CmpIncompressible,
     IncompDone, StartZspage, FetchZspage, PrepZspage, PrepDone,
     PopUcmpDone, SendMigrate, MigrateDone, FreewayTolDone, FreewayAttDone,
     UpdateDone, SendPage, Loud
<1>4. CASE DecStep
  <2>1. UNCHANGED <<reader, comp>> /\ prm = "DECOMPRESS" /\ cmp = "IDLE"
    BY <1>0, <1>4, DecFrame DEF DecStep, DecFetchIway, DecBurstRead, SendDecompressed,
     DecompressedDone, FetchIflLstEntry, SendPushIfl, PushIflDone
  <2>2. CASE DecFetchIway \/ DecBurstRead
    <3>1. CASE DecFetchIway
      <4>0. Holds(trnsl.loc, ReqPage)
        BY <1>0, <3>1 DEF DecFetchIway, Request
      <4>1. dec = "IDLE" /\ dec' = "BURST_READ" /\ pwm' = pwm
        BY <3>1, <4>0 DEF DecFetchIway, Holds
      <4>2. pwm = "IDLE"
        BY <1>0, <2>1, <4>1
      <4> QED BY <2>1, <4>1, <4>2
    <3>2. CASE DecBurstRead
      <4>1. dec = "BURST_READ" /\ dec' = "DECOMP_WAIT" /\ pwm' = pwm
        BY <3>2 DEF DecBurstRead
      <4>2. pwm = "IDLE"
        BY <1>0, <2>1, <4>1
      <4> QED BY <2>1, <4>1, <4>2
    <3> QED BY <2>2, <3>1, <3>2
  <2>3. CASE SendDecompressed \/ DecompressedDone
    BY <1>0, <2>1, <2>3 DEF SendDecompressed, DecompressedDone, SendPage, UpdateDone
  <2>4. CASE FetchIflLstEntry \/ SendPushIfl \/ PushIflDone
    <3>1. dec \in {"FETCH_IFL_LST_ENTRY", "PUSH_IFL"} /\ dec' \in {"PUSH_IFL", "DONE"}
      BY <2>4 DEF FetchIflLstEntry, SendPushIfl, PushIflDone
    <3> QED BY <2>1, <3>1
  <2> QED BY <1>4, <2>2, <2>3, <2>4 DEF DecStep
<1>5. CASE \E c \in Chans, p \in Pages : Lookup(c, p)
  BY <1>0, <1>5 DEF Lookup
<1>6. CASE ReadError \/ CpuRead \/ CpuWrite \/ StayParked
  BY <1>0, <1>6 DEF ReadError, CpuRead, StayParked, vars, Loud
<1> QED BY <1>0, <1>1, <1>2, <1>3, <1>4, <1>5, <1>6 DEF Next, ManagerStep

(* The head of a list has the role of the list.                            *)
LEMMA HeadRole ==
  ASSUME NEW r, NEW k, Chains(FutL, FutH, r, k), NEW x \in Queues
  PROVE  /\ HeadOf(x) # NULL => HeadOf(x) \in Entries /\ r[HeadOf(x)] = x
         /\ HeadOf(x) = NULL => \A e \in Entries : r[e] # x
         /\ r \in [Entries -> Roles]
BY DEF Chains, Chain, Ends, Links, HeadOf

(* Places are kept by a quiet step.                                        *)
LEMMA QuietPlaces ==
  ASSUME NEW r, NEW k, IInv, ListInv(r, k), Placed(r), Quiet
  PROVE  Listed(r)' /\ Frames(r)' /\ Packed' /\ SlotsOwned' /\ WaysUsed(r)'
<1>0. Listed(r) /\ Frames(r) /\ Packed /\ SlotsOwned /\ WaysUsed(r) /\ Jobs /\ Request
  BY DEF Placed
<1>1. /\ mem' = mem /\ FutAtt' = FutAtt
      /\ \A f \in Entries : r[f] # "OUT" => Owner(f)' = Owner(f)
  BY <1>0, QuietData
<1>2. /\ Handed => Handed' /\ ReqPage' = ReqPage /\ vic' = vic
      /\ Awaited => Awaited' /\ ReqPage' = ReqPage
      /\ Moving => Moving' /\ vic' = vic
      /\ OldHeld => OldHeld' /\ ReqPage' = ReqPage /\ trnsl' = trnsl
      /\ Written => Written' /\ vic' = vic /\ zpkt'.dest = zpkt.dest
      /\ (Prepared' <=> Prepared) /\ (Prepared => vic' = vic)
  BY <1>0, QuietControl
<1>3. vic' = vic => VicPage' = VicPage
  BY DEF VicPage
<1>4. Listed(r)'
  <2> SUFFICES ASSUME NEW e \in Entries, r[e] \in {"UNCOMP", "INCOMP"}
               PROVE  LET p == Owner(e)'  w == WayOf(e)
                      IN  /\ p \in Pages
                          /\ \/ FutAtt'[p] = [sts |-> r[e], loc |-> At(w, Frame)]
                             \/ Handed' /\ p = ReqPage' /\ w = vic'.way
                          /\ \/ mem'[w].page = p
                             \/ Handed' /\ p = ReqPage' /\ w = vic'.way
                             \/ Awaited' /\ p = ReqPage'
                             \/ Moving' /\ p = VicPage' /\ w = vic'.way
    BY DEF Listed
  <2>1. Owner(e)' = Owner(e)
    BY <1>1
  <2> QED BY <1>0, <1>1, <1>2, <1>3, <2>1 DEF Listed
<1>5. Frames(r)'
  <2> SUFFICES ASSUME NEW p \in Pages, FutAtt[p].sts \in {"UNCOMP", "INCOMP"}
               PROVE  LET w == FutAtt[p].loc.way
                      IN  /\ FutAtt[p].loc.slot = Frame /\ w \in Ways
                          /\ r[EntryOf(w)] = FutAtt[p].sts /\ Owner(EntryOf(w))' = p
    BY <1>1 DEF Frames
  <2> DEFINE w == FutAtt[p].loc.way
  <2>1. /\ FutAtt[p].loc.slot = Frame /\ w \in Ways
        /\ r[EntryOf(w)] = FutAtt[p].sts /\ Owner(EntryOf(w)) = p
    BY <1>0 DEF Frames
  <2>2. Owner(EntryOf(w))' = Owner(EntryOf(w))
    BY <1>1, <2>1, WayInverse
  <2> QED BY <2>1, <2>2
<1>6. Packed' /\ SlotsOwned' /\ WaysUsed(r)'
  BY ZenonT(60), <1>0, <1>1, <1>2, <1>3 DEF Packed, Holds, SlotsOwned, WaysUsed
<1> QED BY <1>4, <1>5, <1>6

(* The zspage under construction is kept.                                  *)
LEMMA QuietConstruction ==
  IInv /\ Construction /\ Jobs /\ Quiet /\ mem' = mem => Construction'
<1> SUFFICES ASSUME IInv, Construction, Jobs, Quiet, mem' = mem PROVE Construction'
  OBVIOUS
<1>0. init_list_done /\ Next /\ ~ Loud /\ OneManager
  BY DEF Quiet, IInv
<1> USE DEF Construction, OneManager, WriterBusy, PrmWaits, CmpWaits, DecWaits,
            init_list_done, comp, reader, writer
<1>1. CASE PwmStep
  BY <1>0, <1>1, WriterFrame DEF PwmStep, InitAtt, InitList, PwmAttUpdate, PwmSlstUpdate,
     PwmDlstUpdate1, PwmDlstUpdate2, Loud, Jobs, TolStates
<1>2. CASE PrmStep
  BY <1>0, <1>2 DEF PrmStep, ReadAtt, Hit, Grant, Miss, TakeFreeEntry, NeedVictim,
     DecodeLstEntry, CompressDone, DecompressDone, Loud
<1>3. CASE CmpStep
  BY <1>0, <1>3 DEF CmpStep, cmp_idle_others, CmpPeek, CmpBurstRead, CmpIncompressible,
     IncompDone, StartZspage, FetchZspage, PrepZspage, PrepDone, SendMigrate,
     PopUcmpDone, MigrateDone, FreewayTolDone, FreewayAttDone, UpdateDone, SendPage, Loud
<1>4. CASE DecStep
  BY <1>0, <1>4, DecFrame DEF DecStep, DecFetchIway, DecBurstRead, SendDecompressed,
     DecompressedDone, FetchIflLstEntry, SendPushIfl, PushIflDone
<1>5. CASE \E c \in Chans, p \in Pages : Lookup(c, p)
  BY <1>0, <1>5 DEF Lookup
<1>6. CASE ReadError \/ CpuRead \/ CpuWrite \/ StayParked
  BY <1>0, <1>6 DEF ReadError, CpuRead, StayParked, vars, Loud
<1> QED BY <1>0, <1>1, <1>2, <1>3, <1>4, <1>5, <1>6 DEF Next, ManagerStep

(* A compression begins only when no way is free, and only then.           *)
LEMMA QuietFree ==
  ASSUME NEW r, NEW k, IInv, ListInv(r, k), FreeOnce(r), Request, Quiet, FutAtt' = FutAtt
  PROVE  FreeOnce(r)'
<1>0. init_list_done /\ Next /\ ~ Loud /\ OneManager /\ LookupInv
  BY DEF Quiet, IInv
<1>1. HeadOf("FREE") = NULL => \A e \in Entries : r[e] # "FREE"
  BY HeadRole DEF ListInv, Queues
<1> SUFFICES ASSUME prm' \in {"COMPRESS", "DECOMPRESS"}, \E e \in Entries : r[e] = "FREE",
                    prm \notin {"COMPRESS", "DECOMPRESS"}
             PROVE  FALSE
  BY DEF FreeOnce
<1>2. NeedVictim \/ (DecodeLstEntry /\ trnsl.sts = "COMP")
  <2>1. CASE PwmStep \/ CmpStep \/ DecStep
    BY <1>0, <2>1, WriterFrame, CompFrame, DecFrame DEF reader
  <2>2. CASE PrmStep
    BY <2>2 DEF PrmStep, ReadAtt, Hit, Grant, Miss, TakeFreeEntry, NeedVictim,
     DecodeLstEntry, SendTblUpdate, TblUpdateDone, CompressDone, DecompressDone
  <2>3. CASE \E c \in Chans, p \in Pages : Lookup(c, p)
    BY <2>3 DEF Lookup
  <2>4. CASE ReadError \/ CpuRead \/ CpuWrite \/ StayParked
    BY <2>4 DEF ReadError, CpuRead, CpuWrite, StayParked, vars, reader
  <2> QED BY <1>0, <2>1, <2>2, <2>3, <2>4 DEF Next, ManagerStep
<1>3. CASE NeedVictim
  <2>1. pwm = "IDLE" /\ ht.head["FREE"] = NULL
    BY <1>0, <1>3 DEF NeedVictim, OneManager, init_list_done, WriterBusy, PrmWaits,
       CmpWaits, DecWaits
  <2> QED BY <1>1, <2>1 DEF HeadOf, FutH
<1>4. CASE DecodeLstEntry /\ trnsl.sts = "COMP"
  BY <1>0, <1>4 DEF DecodeLstEntry, Request, FreeOnce, LookupInv, ReqPage
<1> QED BY <1>2, <1>3, <1>4

(* Where the victim is while it is held.                                   *)
LEMMA VictimPlace ==
  ASSUME NEW r, NEW k, IInv, ListInv(r, k), Placed(r), VictimHeld
  PROVE  /\ vic.way \in Ways /\ VicPage \in Pages
         /\ r[EntryOf(vic.way)] = "UNCOMP" /\ Owner(EntryOf(vic.way)) = VicPage
         /\ HeadOf("UNCOMP") = EntryOf(vic.way)
         /\ FutAtt[VicPage] = [sts |-> "UNCOMP", loc |-> At(vic.way, Frame)]
         /\ mem[vic.way].page = VicPage \/ Moving
         /\ prm = "COMPRESS" /\ ~ Handed /\ ~ Given /\ ReqPage # VicPage
         /\ trnsl.sts \in {"COMP", "DALLOC"} /\ FutAtt[ReqPage] = trnsl
         /\ ReqPage \in Pages
<1> DEFINE e == HeadOf("UNCOMP")
<1>1. /\ e # NULL /\ vic.way = WayOf(e) /\ VicPage = Owner(e)
  BY DEF ListInv, VictimKnown, VicPage, Owner
<1>2. e \in Entries /\ r[e] = "UNCOMP"
  BY <1>1, HeadRole DEF ListInv, Queues
<1>3. prm = "COMPRESS" /\ ~ Handed /\ ~ Given /\ ~ Unpacking
  BY DEF IInv, OneManager, VictimHeld, Handed, Given, Unpacking
<1>4. vic.way \in Ways /\ EntryOf(vic.way) = e
  BY <1>1, <1>2, WayInverse
<1>5. /\ VicPage \in Pages
      /\ FutAtt[VicPage] = [sts |-> "UNCOMP", loc |-> At(vic.way, Frame)]
      /\ mem[vic.way].page = VicPage \/ Moving
  BY <1>1, <1>2, <1>3 DEF Placed, Listed, Awaited
<1>6. trnsl.sts \in {"COMP", "DALLOC"} /\ FutAtt[ReqPage] = trnsl
  BY <1>3 DEF Placed, Request
<1>7. ReqPage # VicPage
  BY <1>5, <1>6
<1>8. ReqPage \in Pages
  BY <1>3 DEF IInv, LookupInv, ReqPage
<1> HIDE DEF e
<1> QED BY <1>1, <1>2, <1>3, <1>4, <1>5, <1>6, <1>7, <1>8 DEF e

(* The lookup has checked its page against the other channel's access; the *)
(* victim's burst has been read.                                           *)
AccessSettled == prm \notin {"IDLE", "LOOKUP_ATT", "CHK_ATT_ENTRY", "BUS_ERROR"}
VictimTaken == VictimHeld /\ cmp \notin {"BURST_READ", "POP_UCMP_PUSH_INCOMP"}

(* Where accesses come from, and what a lookup or a victim has settled     *)
(* about them.                                                             *)
LEMMA QuietAccessControl ==
  IInv /\ Quiet =>
    /\ acc' = acc \/ Hit \/ DecompressDone \/ CpuRead
    /\ AccessSettled' => Miss \/ (AccessSettled /\ ReqPage' = ReqPage)
    /\ VictimTaken' => CmpBurstRead \/ (VictimTaken /\ VicPage' = VicPage)
<1> SUFFICES ASSUME IInv, Quiet
             PROVE  /\ acc' = acc \/ Hit \/ DecompressDone \/ CpuRead
                    /\ AccessSettled' => Miss \/ (AccessSettled /\ ReqPage' = ReqPage)
                    /\ VictimTaken' => CmpBurstRead \/ (VictimTaken /\ VicPage' = VicPage)
  OBVIOUS
<1>0. init_list_done /\ Next /\ ~ Loud /\ OneManager
  BY DEF Quiet, IInv
<1> USE DEF AccessSettled, VictimTaken, VictimHeld, ReqPage, VicPage, OneManager, WriterBusy,
            PrmWaits, CmpWaits, DecWaits, init_list_done, comp, reader, writer
<1>1. CASE PwmStep
  BY <1>0, <1>1, WriterFrame DEF PwmStep, InitAtt, InitList, PwmAttUpdate, PwmSlstUpdate,
     PwmDlstUpdate1, PwmDlstUpdate2, Loud
<1>2. CASE PrmStep
  BY <1>0, <1>2 DEF PrmStep, ReadAtt, Hit, Grant, Miss, TakeFreeEntry, NeedVictim,
     DecodeLstEntry, CompressDone, DecompressDone, Loud
<1>3. CASE CmpStep
  BY <1>0, <1>3 DEF CmpStep, cmp_idle_others, CmpPeek, CmpBurstRead, CmpIncompressible,
     IncompDone, StartZspage, FetchZspage, PrepZspage, PrepDone, SendMigrate,
     PopUcmpDone, MigrateDone, FreewayTolDone, FreewayAttDone, UpdateDone, SendPage, Loud
<1>4. CASE DecStep
  BY <1>0, <1>4, DecFrame DEF DecStep, DecFetchIway, DecBurstRead, SendDecompressed,
     DecompressedDone, FetchIflLstEntry, SendPushIfl, PushIflDone
<1>5. CASE \E c \in Chans, p \in Pages : Lookup(c, p)
  BY <1>0, <1>5 DEF Lookup
<1>6. CASE ReadError \/ CpuRead \/ CpuWrite \/ StayParked
  BY <1>0, <1>6 DEF ReadError, CpuRead, StayParked, vars, Loud
<1> QED BY <1>0, <1>1, <1>2, <1>3, <1>4, <1>5, <1>6 DEF Next, ManagerStep

(* A granted access goes to a page that stays where it is: the next lookup *)
(* waits for it if it is for the same page, and the victim is read after   *)
(* it (PromptMemory).                                                      *)
LEMMA QuietAccesses ==
  ASSUME NEW r, NEW k, IInv, ListInv(r, k), Placed(r), Quiet, PromptMemory,
         FutAtt' = FutAtt
  PROVE  Accesses'
<1>0. Accesses /\ Request /\ LookupInv /\ OneManager
      /\ acc \in [Chans -> [page : PageOrNone, way : Ways \cup {NoWay}]]
  BY DEF Placed, IInv, TypeOK, AccType
<1>1. /\ acc' = acc \/ Hit \/ DecompressDone \/ CpuRead
      /\ AccessSettled' => Miss \/ (AccessSettled /\ ReqPage' = ReqPage)
      /\ VictimTaken' => CmpBurstRead \/ (VictimTaken /\ VicPage' = VicPage)
  BY QuietAccessControl
<1>2. ASSUME NEW c \in Chans, acc[c] # NoAcc
      PROVE  LET p == acc[c].page
             IN  /\ p \in Pages /\ FutAtt[p].sts \in {"UNCOMP", "INCOMP"}
                 /\ FutAtt[p].loc.way = acc[c].way
                 /\ AccessSettled' => p # ReqPage'
                 /\ VictimTaken' => p # VicPage'
  <2> DEFINE p == acc[c].page
  <2>1. /\ p \in Pages /\ FutAtt[p].sts \in {"UNCOMP", "INCOMP"}
        /\ FutAtt[p].loc.way = acc[c].way
        /\ AccessSettled => p # ReqPage
        /\ VictimTaken => p # VicPage
    BY <1>0, <1>2 DEF Accesses, AccessSettled, VictimTaken
  <2>2. ASSUME AccessSettled' PROVE p # ReqPage'
    <3>1. CASE Miss
      <4>1. FutAtt[ReqPage].sts \in {"COMP", "DALLOC"} /\ ReqPage' = ReqPage
        BY <1>0, <3>1 DEF Miss, Request, ReqPage
      <4> QED BY <2>1, <4>1
    <3> QED BY <1>1, <2>1, <2>2, <3>1
  <2>3. ASSUME VictimTaken' PROVE p # VicPage'
    <3>1. CASE CmpBurstRead
      <4>1. VictimHeld /\ VicPage' = VicPage /\ acc[c].way # vic.way
        BY <3>1 DEF CmpBurstRead, VictimHeld, VicPage
      <4>2. FutAtt[VicPage] = [sts |-> "UNCOMP", loc |-> At(vic.way, Frame)]
        BY <4>1, VictimPlace
      <4> QED BY <2>1, <4>1, <4>2 DEF At
    <3> QED BY <1>1, <2>1, <2>3, <3>1
  <2> QED BY <2>1, <2>2, <2>3
<1>3. CASE acc' = acc
  BY <1>2, <1>3 DEF Accesses, AccessSettled, VictimTaken
<1>4. CASE CpuRead
  <2>1. acc' = [acc EXCEPT !["rd"] = NoAcc]
    BY <1>4 DEF CpuRead
  <2>2. \A c \in Chans : acc'[c] # NoAcc => acc'[c] = acc[c]
    BY <1>0, <2>1
  <2> QED BY <1>2, <2>2 DEF Accesses, AccessSettled, VictimTaken
<1>5. ASSUME NEW w, Grant(w), cmp' = "IDLE", ReqPage \in Pages,
             FutAtt[ReqPage].sts \in {"UNCOMP", "INCOMP"}, FutAtt[ReqPage].loc.way = w
      PROVE  Accesses'
  <2>1. acc' = [acc EXCEPT ![req.chan] = [page |-> ReqPage, way |-> w]] /\ prm' = "IDLE"
    BY <1>5 DEF Grant, ReqPage
  <2>2. \A c \in Chans : \/ acc'[c] = acc[c]
                         \/ acc'[c] = [page |-> ReqPage, way |-> w]
    BY <1>0, <2>1
  <2>3. ~ AccessSettled' /\ ~ VictimTaken'
    BY <1>5, <2>1 DEF AccessSettled, VictimTaken, VictimHeld
  <2>4. \A c \in Chans : acc'[c] # NoAcc =>
          LET p == acc'[c].page
          IN  /\ p \in Pages /\ FutAtt[p].sts \in {"UNCOMP", "INCOMP"}
              /\ FutAtt[p].loc.way = acc'[c].way
    BY <1>2, <1>5, <2>2
  <2> QED BY <2>3, <2>4 DEF Accesses, AccessSettled, VictimTaken
<1>6. CASE Hit
  <2>1. Grant(trnsl.loc.way) /\ prm = "CHK_ATT_ENTRY" /\ trnsl.sts \in {"UNCOMP", "INCOMP"}
        /\ cmp' = cmp
    BY <1>6 DEF Hit, comp
  <2>2. FutAtt[ReqPage] = trnsl /\ ReqPage \in Pages /\ cmp = "IDLE"
    BY <1>0, <2>1 DEF Request, LookupInv, OneManager, ReqPage
  <2> QED BY <1>5, <2>1, <2>2
<1>7. CASE DecompressDone
  <2>1. prm = "DECOMPRESS" /\ cmp' = cmp /\ ~ free_entry_avail
    BY <1>7 DEF DecompressDone, comp, Placed
  <2>2. Grant(fw)
    BY <1>7, <2>1 DEF DecompressDone
  <2>3. FutAtt[ReqPage] = [sts |-> "UNCOMP", loc |-> At(fw, Frame)] /\ ReqPage \in Pages
        /\ cmp = "IDLE"
    BY <1>0, <2>1 DEF Request, LookupInv, OneManager, ReqPage
  <2> QED BY <1>5, <2>1, <2>2, <2>3 DEF At
<1> QED BY <1>1, <1>3, <1>4, <1>6, <1>7

(* ... and does not come to be in the middle of by a quiet step.           *)
LEMMA QuietReach ==
  IInv /\ Jobs /\ Quiet =>
    /\ Handed' => Handed /\ ReqPage' = ReqPage /\ vic' = vic
    /\ Written' => Written /\ vic' = vic /\ zpkt' = zpkt
    /\ Given' => Given /\ UNCHANGED <<req, trnsl, vic>>
<1> SUFFICES ASSUME IInv, Jobs, Quiet
             PROVE  /\ Handed' => Handed /\ ReqPage' = ReqPage /\ vic' = vic
                    /\ Written' => Written /\ vic' = vic /\ zpkt' = zpkt
                    /\ Given' => Given /\ UNCHANGED <<req, trnsl, vic>>
  OBVIOUS
<1>0. Jobs /\ init_list_done /\ Next /\ ~ Loud /\ OneManager
  BY DEF Quiet, IInv
<1> USE DEF Handed, Written, Given,
            ReqPage, VicPage, OneManager, WriterBusy, PrmWaits, CmpWaits, DecWaits,
            init_list_done, comp, reader, writer
<1>1. CASE PwmStep
  BY <1>0, <1>1, WriterFrame DEF PwmStep, InitAtt, InitList, PwmAttUpdate, PwmSlstUpdate,
     PwmDlstUpdate1, PwmDlstUpdate2, Loud, Jobs, TolStates
<1>2. CASE PrmStep
  <2>1. (cmp' = cmp /\ pwm' = pwm /\ cmp = "IDLE") \/ CompressDone
    BY <1>0, <1>2 DEF PrmStep, ReadAtt, Hit, Grant, Miss, TakeFreeEntry, NeedVictim,
     DecodeLstEntry, DecompressDone, Loud
  <2>2. CASE CompressDone
    BY <2>2 DEF CompressDone
  <2> QED BY <2>1, <2>2
<1>3. CASE CmpStep
  BY <1>0, <1>3 DEF CmpStep, cmp_idle_others, CmpPeek, CmpBurstRead, CmpIncompressible,
     IncompDone, StartZspage, FetchZspage, PrepZspage, PrepDone, SendMigrate,
     PopUcmpDone, MigrateDone, FreewayTolDone, FreewayAttDone,
     UpdateDone, SendPage, Loud
<1>4. CASE DecStep
  <2>1. UNCHANGED <<reader, comp>> /\ cmp = "IDLE"
    BY <1>0, <1>4, DecFrame DEF DecStep, DecFetchIway, DecBurstRead, SendDecompressed,
     DecompressedDone, FetchIflLstEntry, SendPushIfl, PushIflDone
  <2> QED BY <2>1
<1>5. CASE \E c \in Chans, p \in Pages : Lookup(c, p)
  BY <1>0, <1>5 DEF Lookup
<1>6. CASE ReadError \/ CpuRead \/ CpuWrite \/ StayParked
  BY <1>0, <1>6 DEF ReadError, CpuRead, StayParked, vars, Loud
<1> QED BY <1>0, <1>1, <1>2, <1>3, <1>4, <1>5, <1>6 DEF Next, ManagerStep

(* The handed over entry is kept.                                          *)
LEMMA QuietHanded ==
  ASSUME NEW r, NEW k, IInv, ListInv(r, k), Placed(r), Quiet
  PROVE  HandedOver(r)'
<1> SUFFICES ASSUME Handed'
             PROVE  /\ ReqPage' \in Pages
                    /\ \E w \in Ways : /\ vic'.way = w
                                      /\ r[EntryOf(w)] = "UNCOMP"
                                      /\ Owner(EntryOf(w))' = ReqPage'
  BY DEF HandedOver
<1>1. Handed /\ ReqPage' = ReqPage /\ vic' = vic
  BY QuietReach DEF Placed
<1>2. PICK w \in Ways : /\ vic.way = w /\ r[EntryOf(w)] = "UNCOMP"
                        /\ Owner(EntryOf(w)) = ReqPage /\ ReqPage \in Pages
  BY <1>1 DEF Placed, HandedOver
<1>3. Owner(EntryOf(w))' = Owner(EntryOf(w))
  BY <1>2, QuietData, WayInverse DEF Placed
<1> QED BY <1>1, <1>2, <1>3

(* The FIFO holds the page that was read into it until it is written.      *)
LEMMA QuietFifo ==
  ASSUME NEW r, NEW k, IInv, ListInv(r, k), Placed(r), Quiet
  PROVE  FifoHolds'
<1>0. Jobs /\ FifoHolds /\ init_list_done /\ Next /\ ~ Loud /\ OneManager
  BY DEF Quiet, IInv, Placed
<1> USE DEF FifoHolds,
            ReqPage, VicPage, OneManager, WriterBusy, PrmWaits, CmpWaits, DecWaits,
            init_list_done, comp, reader, writer
<1>1. CASE PwmStep
  BY <1>0, <1>1, WriterFrame DEF PwmStep, InitAtt, InitList, PwmAttUpdate, PwmSlstUpdate,
     PwmDlstUpdate1, PwmDlstUpdate2, Loud, Jobs, TolStates
<1>2. CASE PrmStep
  BY <1>0, <1>2 DEF PrmStep, ReadAtt, Hit, Grant, Miss, TakeFreeEntry, NeedVictim,
     DecodeLstEntry, CompressDone, DecompressDone, Loud
<1>3. CASE CmpStep
  <2>1. CASE CmpBurstRead
    <3>1. fifo' = mem[vic.way].page /\ cmp = "BURST_READ" /\ cmp' = "COMP_WAIT" /\ vic' = vic
          /\ dec' = dec
      BY <2>1 DEF CmpBurstRead, cmp_idle_others
    <3>2. mem[vic.way].page = VicPage \/ Moving
      BY <3>1, VictimPlace DEF VictimHeld
    <3> QED BY <1>0, <3>1, <3>2 DEF Moving
  <2>2. CASE ~ CmpBurstRead
    BY <1>0, <1>3, <2>2 DEF CmpStep, cmp_idle_others, CmpPeek, CmpIncompressible,
     IncompDone, StartZspage, FetchZspage, PrepZspage, PrepDone, SendMigrate,
     PopUcmpDone, MigrateDone, FreewayTolDone, FreewayAttDone,
     UpdateDone, SendPage, Loud
  <2> QED BY <2>1, <2>2
<1>4. CASE DecStep
  <2>1. UNCHANGED <<reader, comp>> /\ cmp = "IDLE" /\ prm = "DECOMPRESS"
    BY <1>0, <1>4, DecFrame DEF DecStep, DecFetchIway, DecBurstRead, SendDecompressed,
     DecompressedDone, FetchIflLstEntry, SendPushIfl, PushIflDone
  <2>2. CASE DecBurstRead
    <3>1. Holds(trnsl.loc, ReqPage)
      BY <2>1, <2>2 DEF DecBurstRead, Placed, Request, OldHeld, Unpacking
    <3> QED BY <2>1, <2>2, <3>1 DEF DecBurstRead, Holds
  <2>3. CASE ~ DecBurstRead
    BY <1>0, <1>4, <2>1, <2>3 DEF DecStep, DecFetchIway, SendDecompressed, SendPage, UpdateDone,
     DecompressedDone, FetchIflLstEntry, SendPushIfl, PushIflDone
  <2> QED BY <2>2, <2>3
<1>5. CASE \E c \in Chans, p \in Pages : Lookup(c, p)
  BY <1>0, <1>5 DEF Lookup
<1>6. CASE ReadError \/ CpuRead \/ CpuWrite \/ StayParked
  BY <1>0, <1>6 DEF ReadError, CpuRead, StayParked, vars, Loud
<1> QED BY <1>0, <1>1, <1>2, <1>3, <1>4, <1>5, <1>6 DEF Next, ManagerStep

(* The slot a migration takes is free.                                     *)
LEMMA FirstFreeClear ==
  ASSUME NEW md \in ZsPg_Md, ~ AllValid(md)
  PROVE  FirstFree(md) \in Slots /\ ~ md.pg_vld[FirstFree(md)]
<1>1. PICK s \in Slots : ~ md.pg_vld[s]
  BY DEF AllValid
<1>2. Slots = {1, 2, 3}
  BY DEF Slots, MAX_PAGE_ZSPAGE
<1>3. \E x \in Slots : ~ md.pg_vld[x] /\ \A y \in Slots : y < x => md.pg_vld[y]
  BY <1>1, <1>2
<1> QED BY <1>3 DEF FirstFree

(* The packet for a migration: a free slot of the zspage and the metadata  *)
(* with the page in it.                                                    *)
LEMMA FreePlace ==
  ASSUME NEW w \in Ways, NEW md \in ZsPg_Md, NEW p, NEW z,
         z = getFreeCpage_ZsPageiWay(w, md, p), ~ z.zspage_full
  PROVE  /\ z.dest.way = w /\ z.dest.slot \in Slots /\ z.iWay_ptr = w
         /\ ~ md.pg_vld[z.dest.slot] /\ z.zsPgMd = Filled(md, z.dest.slot, p)
<1>1. CASE AllValid(md)
  <2>1. z.zspage_full
    BY <1>1 DEF getFreeCpage_ZsPageiWay, NoZsPkt
  <2> QED BY <2>1
<1>2. CASE ~ AllValid(md)
  <2> DEFINE s == FirstFree(md)
  <2>1. s \in Slots /\ ~ md.pg_vld[s]
    BY <1>2, FirstFreeClear
  <2>2. z.dest = At(w, s) /\ z.iWay_ptr = w /\ z.zsPgMd = Filled(md, s, p)
    BY <1>2 DEF getFreeCpage_ZsPageiWay, Filled
  <2> HIDE DEF s
  <2> QED BY <2>1, <2>2 DEF At
<1> QED BY <1>1, <1>2

(* The packets of a migration, of a new zspage and of a decompression.     *)
Migrating == cmp = "MIGRATE_TO_ZSPAGE" /\ ~ zpkt.zspage_full /\ pwm # "WAIT_BRESP"
Starting == cmp = "PREP_ZSPAGE_MD" /\ pwm # "IDLE"
Started == cmp = "UPDATE_ATT_POP_UCMP_HEAD" /\ pwm = "IDLE"
Dropping == dec = "BURST_READ" \/ (dec = "DECOMP_WAIT" /\ pwm # "WAIT_BRESP")

(* Where page packets come from.                                           *)
LEMMA PacketControl ==
  IInv /\ Jobs /\ Quiet =>
    /\ Migrating' => \/ FetchZspage
                     \/ Migrating /\ UNCHANGED <<vic, zpkt>>
    /\ Starting' => PrepZspage \/ (Starting /\ UNCHANGED <<vic, zpkt>>)
    /\ Started' => /\ UNCHANGED <<vic, zpkt>>
                   /\ Started \/ Starting
    /\ Dropping' => \/ DecFetchIway /\ dec' = "BURST_READ"
                    \/ Dropping /\ UNCHANGED <<zpkt, trnsl, fw, req>>
    /\ pwm' = "ZS_PAGE_UPDATE" => pwm = "ZS_PAGE_UPDATE"
<1> SUFFICES ASSUME IInv, Jobs, Quiet
             PROVE
    /\ Migrating' => \/ FetchZspage
                     \/ Migrating /\ UNCHANGED <<vic, zpkt>>
    /\ Starting' => PrepZspage \/ (Starting /\ UNCHANGED <<vic, zpkt>>)
    /\ Started' => /\ UNCHANGED <<vic, zpkt>>
                   /\ Started \/ Starting
    /\ Dropping' => \/ DecFetchIway /\ dec' = "BURST_READ"
                    \/ Dropping /\ UNCHANGED <<zpkt, trnsl, fw, req>>
    /\ pwm' = "ZS_PAGE_UPDATE" => pwm = "ZS_PAGE_UPDATE"
  OBVIOUS
<1>0. Jobs /\ init_list_done /\ Next /\ ~ Loud /\ OneManager
  BY DEF Quiet, IInv
<1> USE DEF Migrating, Starting, Started, Dropping,
            OneManager, WriterBusy, PrmWaits, CmpWaits, DecWaits,
            init_list_done, comp, reader, writer
<1>1. CASE PwmStep
  BY <1>0, <1>1, WriterFrame DEF PwmStep, InitAtt, InitList, PwmAttUpdate, PwmSlstUpdate,
     PwmDlstUpdate1, PwmDlstUpdate2, Loud, Jobs, TolStates
<1>2. CASE PrmStep
  <2>1. (cmp' = cmp /\ pwm' = pwm /\ cmp = "IDLE") \/ CompressDone
    BY <1>0, <1>2 DEF PrmStep, ReadAtt, Hit, Grant, Miss, TakeFreeEntry, NeedVictim,
     DecodeLstEntry, DecompressDone, Loud
  <2>2. CASE CompressDone
    BY <1>0, <2>2 DEF CompressDone
  <2>3. CASE dec = "IDLE"
    BY <1>0, <1>2, <2>1, <2>2, <2>3 DEF PrmStep, ReadAtt, Hit, Grant, Miss, TakeFreeEntry, NeedVictim,
     DecodeLstEntry, DecompressDone, Loud
  <2>4. CASE dec # "IDLE"
    BY <1>0, <1>2, <2>1, <2>2, <2>4 DEF PrmStep, ReadAtt, Hit, Grant, Miss, TakeFreeEntry, NeedVictim,
     DecodeLstEntry, DecompressDone, Loud
  <2> QED BY <2>3, <2>4
<1>3. CASE CmpStep
  BY <1>0, <1>3 DEF CmpStep, cmp_idle_others, CmpPeek, CmpBurstRead, CmpIncompressible,
     IncompDone, StartZspage, FetchZspage, PrepZspage, PrepDone, SendMigrate,
     PopUcmpDone, MigrateDone, FreewayTolDone, FreewayAttDone,
     UpdateDone, SendPage, Loud
<1>4. CASE DecStep
  <2>1. UNCHANGED <<reader, comp>> /\ cmp = "IDLE"
    BY <1>0, <1>4, DecFrame DEF DecStep, DecFetchIway, DecBurstRead, SendDecompressed,
     DecompressedDone, FetchIflLstEntry, SendPushIfl, PushIflDone
  <2>2. pwm' = "ZS_PAGE_UPDATE" => pwm = "ZS_PAGE_UPDATE"
    BY <1>4 DEF DecStep, DecFetchIway, DecBurstRead, SendDecompressed,
     DecompressedDone, FetchIflLstEntry, SendPushIfl, PushIflDone, SendUpdate, UpdateDone, SendPage
  <2>3. Dropping' => \/ DecFetchIway /\ dec' = "BURST_READ"
                     \/ Dropping /\ UNCHANGED zpkt
    BY <1>0, <1>4 DEF DecStep, DecFetchIway, DecBurstRead, SendDecompressed,
     DecompressedDone, FetchIflLstEntry, SendPushIfl, PushIflDone, SendUpdate, UpdateDone, SendPage
  <2> QED BY <2>1, <2>2, <2>3
<1>5. CASE \E c \in Chans, p \in Pages : Lookup(c, p)
  BY <1>0, <1>5 DEF Lookup
<1>6. CASE ReadError \/ CpuRead \/ CpuWrite \/ StayParked
  BY <1>0, <1>6 DEF ReadError, CpuRead, StayParked, vars, Loud
<1> QED BY <1>0, <1>1, <1>2, <1>3, <1>4, <1>5, <1>6 DEF Next, ManagerStep

(* A page packet says where the page goes and what the metadata will be.   *)
LEMMA QuietPacket ==
  ASSUME NEW r, NEW k, IInv, ListInv(r, k), Placed(r), Quiet, mem' = mem
  PROVE  PagePacket'
<1>0. PagePacket /\ Jobs /\ Construction /\ Request /\ TypeOK /\ OneManager
  BY DEF Placed, IInv
<1>1. /\ Migrating' => \/ FetchZspage
                       \/ Migrating /\ UNCHANGED <<vic, zpkt>>
      /\ Starting' => PrepZspage \/ (Starting /\ UNCHANGED <<vic, zpkt>>)
      /\ Started' => /\ UNCHANGED <<vic, zpkt>>
                     /\ Started \/ Starting
      /\ Dropping' => \/ DecFetchIway /\ dec' = "BURST_READ"
                      \/ Dropping /\ UNCHANGED <<zpkt, trnsl, fw, req>>
      /\ pwm' = "ZS_PAGE_UPDATE" => pwm = "ZS_PAGE_UPDATE"
  BY <1>0, PacketControl
<1>2. Written' => Written /\ vic' = vic /\ zpkt' = zpkt
  BY <1>0, QuietReach
<1>3. ASSUME Migrating'
      PROVE  \E w \in Ways, s \in Slots :
               /\ zpkt'.dest.way = w /\ zpkt'.dest.slot = s
               /\ mem[w].iway = w /\ zpkt'.iWay_ptr = w /\ ~ mem[w].md.pg_vld[s]
               /\ zpkt'.zsPgMd = Filled(mem[w].md, s, VicPage')
               /\ pwm' = "ZS_PAGE_UPDATE" => mem[w].slot[s] = VicPage'
  <2>1. CASE FetchZspage
    <3>1. /\ zpkt' = getFreeCpage_ZsPageiWay(mem[uc].iway, mem[uc].md, VicPage)
          /\ vic' = vic /\ cmp = "COMP_WAIT" /\ uc # NoWay /\ pwm' = pwm
      BY <2>1 DEF FetchZspage, VicPage, writer
    <3>2. uc \in Ways /\ mem[uc].md \in ZsPg_Md
      BY <1>0, <3>1 DEF TypeOK, CompType, MemType, MemWay
    <3>3. mem[uc].iway = uc /\ pwm # "ZS_PAGE_UPDATE"
      BY <1>0, <3>1 DEF Construction, OneManager, WriterBusy, PrmWaits, CmpWaits, DecWaits
    <3>4. ~ zpkt'.zspage_full
      BY <1>3 DEF Migrating
    <3>5. ASSUME NEW z, z = zpkt'
          PROVE  /\ z.dest.way = uc /\ z.dest.slot \in Slots /\ z.iWay_ptr = uc
                 /\ ~ mem[uc].md.pg_vld[z.dest.slot]
                 /\ z.zsPgMd = Filled(mem[uc].md, z.dest.slot, VicPage)
      <4>1. ASSUME NEW w, w = uc, NEW md, md = mem[uc].md, NEW p, p = VicPage
            PROVE  /\ z.dest.way = w /\ z.dest.slot \in Slots /\ z.iWay_ptr = w
                   /\ ~ md.pg_vld[z.dest.slot] /\ z.zsPgMd = Filled(md, z.dest.slot, p)
        BY <3>1, <3>2, <3>3, <3>4, <3>5, <4>1, FreePlace
      <4> QED BY <4>1
    <3>6. VicPage' = VicPage
      BY <3>1 DEF VicPage
    <3> QED BY <1>1, <3>2, <3>3, <3>5, <3>6
  <2>2. CASE Migrating /\ UNCHANGED <<vic, zpkt>>
    BY <1>0, <1>1, <2>2 DEF PagePacket, Migrating, VicPage
  <2> QED BY <1>1, <1>3, <2>1, <2>2
<1>4. ASSUME Starting'
      PROVE  /\ zpkt'.dest = At(vic'.way, 1) /\ zpkt'.iWay_ptr = vic'.way
             /\ zpkt'.zsPgMd = Filled(NoMd, 1, VicPage')
             /\ pwm' = "ZS_PAGE_UPDATE" => mem[vic'.way].slot[1] = VicPage'
  <2>1. CASE PrepZspage
    <3>1. /\ vic' = vic /\ pwm' = "CMPDCMP"
          /\ zpkt' = [NoZsPkt EXCEPT
                !.dest = At(vic.way, 1), !.iWay_ptr = vic.way,
                !.zsPgMd.pg_vld[1] = TRUE, !.zsPgMd.page[1] = vic.attEntryId]
      BY <2>1 DEF PrepZspage, SendPage, comp
    <3>2. ASSUME NEW z, z = zpkt', NEW w, w = vic.way, NEW p, p = vic.attEntryId
          PROVE  z.dest = At(w, 1) /\ z.iWay_ptr = w /\ z.zsPgMd = Filled(NoMd, 1, p)
      <4>1. z = [NoZsPkt EXCEPT !.dest = At(w, 1), !.iWay_ptr = w,
                                !.zsPgMd.pg_vld[1] = TRUE, !.zsPgMd.page[1] = p]
        BY <3>1, <3>2
      <4> QED BY <4>1 DEF NoZsPkt, NoMd, Filled
    <3> QED BY <3>1, <3>2 DEF VicPage
  <2>2. CASE Starting /\ UNCHANGED <<vic, zpkt>>
    BY <1>0, <1>1, <2>2 DEF PagePacket, Starting, VicPage
  <2> QED BY <1>1, <1>4, <2>1, <2>2
<1>5. Started' => zpkt'.dest = At(vic'.way, 1)
  BY <1>0, <1>1 DEF PagePacket, Started, Starting
<1>6. Written' => Holds(zpkt.dest, VicPage)'
  BY <1>0, <1>2 DEF PagePacket, Holds, VicPage
<1>7. ASSUME Dropping'
      PROVE  /\ zpkt'.iWay_ptr = trnsl'.loc.way /\ zpkt'.dest = At(fw', Frame)
             /\ zpkt'.zsPgMd = ClearPage(mem[trnsl'.loc.way].md, ReqPage')
  <2>1. CASE DecFetchIway /\ dec' = "BURST_READ"
    <3> DEFINE z == setCpageFree_ZsPageiWay(trnsl.loc.way, mem[trnsl.loc.way].md, req.page)
    <3>1. /\ zpkt' = [z EXCEPT !.dest = At(fw, Frame)]
          /\ UNCHANGED reader
      BY <2>1 DEF DecFetchIway, dec_idle_others
    <3>2. /\ zpkt'.dest = At(fw, Frame) /\ zpkt'.iWay_ptr = trnsl.loc.way
          /\ zpkt'.zsPgMd = ClearPage(mem[trnsl.loc.way].md, req.page)
      BY <3>1 DEF setCpageFree_ZsPageiWay
    <3> HIDE DEF z
    <3> QED BY <3>1, <3>2 DEF reader, ReqPage
  <2>2. CASE Dropping /\ UNCHANGED <<zpkt, trnsl, fw, req>>
    BY <1>0, <2>2 DEF PagePacket, Dropping, ReqPage
  <2> QED BY <1>1, <1>7, <2>1, <2>2
<1> HIDE DEF Migrating, Starting, Started, Dropping
<1> QED BY <1>3, <1>4, <1>5, <1>6, <1>7 DEF PagePacket, Migrating, Starting, Started, Dropping

(* What a lookup relies on late.                                           *)
Late == prm \in {"POP_FREE_LST", "WAIT_LST_ENTRY"} \/ (prm = "COMPRESS" /\ ~ Given)
Old == OldHeld /\ dec # "BUS_ERROR"

(* Where the states of a lookup come from.                                 *)
LEMMA RequestControl ==
  IInv /\ Jobs /\ Quiet =>
    /\ req'.fresh /\ prm' \in {"IDLE", "LOOKUP_ATT", "DECOMPRESS"} =>
         \/ req.fresh /\ prm \in {"IDLE", "LOOKUP_ATT", "DECOMPRESS"}
         \/ CompressDone \/ (DecodeLstEntry /\ trnsl.sts = "COMP")
    /\ prm' = "CHK_ATT_ENTRY" =>
         ReadAtt \/ (prm = "CHK_ATT_ENTRY" /\ UNCHANGED <<req, trnsl>>)
    /\ Late' => Miss \/ (Late /\ UNCHANGED <<req, trnsl>>)
    /\ prm' = "TBL_UPDATE" =>
         \/ DecodeLstEntry /\ trnsl.sts # "COMP"
         \/ DecompressDone /\ free_entry_avail
         \/ prm = "TBL_UPDATE" /\ UNCHANGED <<req, trnsl, alloc>>
    /\ prm' = "TBL_UPDATE_DONE" => prm = "TBL_UPDATE_DONE" /\ UNCHANGED <<req, trnsl>>
    /\ prm' = "DECOMPRESS" =>
         \/ DecodeLstEntry /\ trnsl.sts = "COMP"
         \/ CompressDone
         \/ prm = "DECOMPRESS" /\ UNCHANGED <<req, trnsl, fw, free_entry_avail>>
    /\ Old' => CompressDone \/ (DecodeLstEntry /\ trnsl.sts = "COMP")
                 \/ (Old /\ UNCHANGED <<req, trnsl>>)
    /\ dec' = "BUS_ERROR" =>
         /\ UNCHANGED <<req, trnsl, fw>> /\ prm = "DECOMPRESS"
         /\ dec \in {"BUS_ERROR", "IDLE", "FETCH_IFL_LST_ENTRY"}
    /\ dec' = "NO_IWAY" => dec = "NO_IWAY" \/ DecFetchIway
<1> SUFFICES ASSUME IInv, Jobs, Quiet
             PROVE
    /\ req'.fresh /\ prm' \in {"IDLE", "LOOKUP_ATT", "DECOMPRESS"} =>
         \/ req.fresh /\ prm \in {"IDLE", "LOOKUP_ATT", "DECOMPRESS"}
         \/ CompressDone \/ (DecodeLstEntry /\ trnsl.sts = "COMP")
    /\ prm' = "CHK_ATT_ENTRY" =>
         ReadAtt \/ (prm = "CHK_ATT_ENTRY" /\ UNCHANGED <<req, trnsl>>)
    /\ Late' => Miss \/ (Late /\ UNCHANGED <<req, trnsl>>)
    /\ prm' = "TBL_UPDATE" =>
         \/ DecodeLstEntry /\ trnsl.sts # "COMP"
         \/ DecompressDone /\ free_entry_avail
         \/ prm = "TBL_UPDATE" /\ UNCHANGED <<req, trnsl, alloc>>
    /\ prm' = "TBL_UPDATE_DONE" => prm = "TBL_UPDATE_DONE" /\ UNCHANGED <<req, trnsl>>
    /\ prm' = "DECOMPRESS" =>
         \/ DecodeLstEntry /\ trnsl.sts = "COMP"
         \/ CompressDone
         \/ prm = "DECOMPRESS" /\ UNCHANGED <<req, trnsl, fw, free_entry_avail>>
    /\ Old' => CompressDone \/ (DecodeLstEntry /\ trnsl.sts = "COMP")
                 \/ (Old /\ UNCHANGED <<req, trnsl>>)
    /\ dec' = "BUS_ERROR" =>
         /\ UNCHANGED <<req, trnsl, fw>> /\ prm = "DECOMPRESS"
         /\ dec \in {"BUS_ERROR", "IDLE", "FETCH_IFL_LST_ENTRY"}
    /\ dec' = "NO_IWAY" => dec = "NO_IWAY" \/ DecFetchIway
  OBVIOUS
<1>0. Jobs /\ init_list_done /\ Next /\ ~ Loud /\ OneManager
  BY DEF Quiet, IInv
<1> USE DEF Late, Old, OldHeld, Given, Unpacking,
            OneManager, WriterBusy, PrmWaits, CmpWaits, DecWaits,
            init_list_done, comp, reader, writer
<1>1. CASE PwmStep
  BY <1>0, <1>1, WriterFrame DEF PwmStep, InitAtt, InitList, PwmAttUpdate, PwmSlstUpdate,
     PwmDlstUpdate1, PwmDlstUpdate2, Loud, Jobs, TolStates
<1>2. CASE PrmStep
  <2>1. CASE CompressDone
    BY <1>0, <2>1 DEF CompressDone, Loud
  <2>2. CASE DecompressDone
    BY <1>0, <2>2 DEF DecompressDone, Grant, NoReq
  <2>3. CASE Hit
    BY <1>0, <2>3 DEF Hit, Grant, NoReq
  <2>4. CASE DecodeLstEntry
    BY <1>0, <2>4 DEF DecodeLstEntry
  <2>5. CASE ReadAtt \/ Miss \/ TakeFreeEntry \/ NeedVictim
    BY <1>0, <2>5 DEF ReadAtt, Miss, TakeFreeEntry, NeedVictim
  <2> QED BY <1>0, <1>2, <2>1, <2>2, <2>3, <2>4, <2>5 DEF PrmStep, Loud
<1>3. CASE CmpStep
  <2>1. UNCHANGED <<reader, dec>> /\ prm = "COMPRESS"
    BY <1>0, <1>3, CompFrame
  <2>2. Given' => Given
    BY <1>0, <1>3, QuietReach
  <2>3. Given => Given'
    BY <1>0, <1>3 DEF CmpStep, cmp_idle_others, CmpPeek, CmpBurstRead, CmpIncompressible,
     IncompDone, StartZspage, FetchZspage, PrepZspage, PrepDone, SendMigrate,
     PopUcmpDone, MigrateDone, FreewayTolDone, FreewayAttDone,
     UpdateDone, SendPage, Loud
  <2> QED BY <1>0, <2>1, <2>2, <2>3
<1>4. CASE DecStep
  <2>1. UNCHANGED <<reader, comp>> /\ cmp = "IDLE" /\ prm = "DECOMPRESS"
    BY <1>0, <1>4, DecFrame DEF DecStep, DecFetchIway, DecBurstRead, SendDecompressed,
     DecompressedDone, FetchIflLstEntry, SendPushIfl, PushIflDone
  <2> QED
    BY <1>0, <1>4, <2>1 DEF DecStep, DecFetchIway, DecBurstRead, SendDecompressed,
     DecompressedDone, FetchIflLstEntry, SendPushIfl, PushIflDone, SendUpdate, UpdateDone, SendPage
<1>5. CASE \E c \in Chans, p \in Pages : Lookup(c, p)
  BY <1>0, <1>5 DEF Lookup
<1>6. CASE ReadError
  BY <1>0, <1>6 DEF ReadError
<1>7. CASE CpuRead \/ CpuWrite \/ StayParked
  BY <1>0, <1>7 DEF CpuRead, StayParked, vars, Loud
<1> QED BY <1>0, <1>1, <1>2, <1>3, <1>4, <1>5, <1>6, <1>7 DEF Next, ManagerStep

(* What a lookup has read of its page is still true.                       *)
LEMMA QuietRequest ==
  ASSUME NEW r, NEW k, IInv, ListInv(r, k), Placed(r), Quiet, mem' = mem, FutAtt' = FutAtt
  PROVE  Request' /\ (prm' = "DECOMPRESS" => ~ free_entry_avail')
<1>0. /\ Listed(r) /\ Frames(r) /\ FreeOnce(r) /\ Jobs /\ Request /\ TypeOK /\ OneManager
      /\ LookupInv /\ (prm = "DECOMPRESS" => ~ free_entry_avail)
  BY DEF Placed, IInv
<1> DEFINE
      C1 == req.fresh => prm \notin {"IDLE", "LOOKUP_ATT", "DECOMPRESS"}
      C2 == prm = "CHK_ATT_ENTRY" =>
              FutAtt[ReqPage] = trnsl /\ (req.fresh <=> trnsl.sts = "DALLOC")
      C3 == Late => /\ trnsl.sts \in {"COMP", "DALLOC"} /\ FutAtt[ReqPage] = trnsl
                    /\ req.fresh <=> trnsl.sts = "DALLOC"
      C4 == prm = "TBL_UPDATE" => /\ FutAtt[ReqPage].sts = "DALLOC" /\ req.fresh
                                  /\ trnsl = [sts |-> "UNCOMP", loc |-> alloc.loc]
      C5 == prm = "TBL_UPDATE_DONE" =>
              FutAtt[ReqPage] = trnsl /\ trnsl.sts = "UNCOMP" /\ req.fresh
      C6 == Given => /\ FutAtt[ReqPage] = [sts |-> "UNCOMP", loc |-> At(vic.way, Frame)]
                     /\ trnsl.sts \in {"COMP", "DALLOC"}
                     /\ req.fresh <=> trnsl.sts = "DALLOC"
      C7 == prm = "DECOMPRESS" => FutAtt[ReqPage] = [sts |-> "UNCOMP", loc |-> At(fw, Frame)]
      C8 == Old => Holds(trnsl.loc, ReqPage)
      C9 == dec = "BUS_ERROR" => Holds(trnsl.loc, ReqPage) \/ mem[fw].page = ReqPage
      C10 == dec # "NO_IWAY"
<1>1. Request <=> (C1 /\ C2 /\ C3 /\ C4 /\ C5 /\ C6 /\ C7 /\ C8 /\ C9 /\ C10)
  BY DEF Request, Late, Old
<1>2. Request' <=> (C1 /\ C2 /\ C3 /\ C4 /\ C5 /\ C6 /\ C7 /\ C8 /\ C9 /\ C10)'
  BY DEF Request, Late, Old
<1>3. C1 /\ C2 /\ C3 /\ C4 /\ C5 /\ C6 /\ C7 /\ C8 /\ C9 /\ C10
  BY <1>0, <1>1
<1> HIDE DEF C1, C2, C3, C4, C5, C6, C7, C8, C9, C10
<1>4. /\ req'.fresh /\ prm' \in {"IDLE", "LOOKUP_ATT", "DECOMPRESS"} =>
         \/ req.fresh /\ prm \in {"IDLE", "LOOKUP_ATT", "DECOMPRESS"}
         \/ CompressDone \/ (DecodeLstEntry /\ trnsl.sts = "COMP")
      /\ prm' = "CHK_ATT_ENTRY" =>
           ReadAtt \/ (prm = "CHK_ATT_ENTRY" /\ UNCHANGED <<req, trnsl>>)
      /\ Late' => Miss \/ (Late /\ UNCHANGED <<req, trnsl>>)
      /\ prm' = "TBL_UPDATE" =>
           \/ DecodeLstEntry /\ trnsl.sts # "COMP"
           \/ DecompressDone /\ free_entry_avail
           \/ prm = "TBL_UPDATE" /\ UNCHANGED <<req, trnsl, alloc>>
      /\ prm' = "TBL_UPDATE_DONE" => prm = "TBL_UPDATE_DONE" /\ UNCHANGED <<req, trnsl>>
      /\ prm' = "DECOMPRESS" =>
           \/ DecodeLstEntry /\ trnsl.sts = "COMP"
           \/ CompressDone
           \/ prm = "DECOMPRESS" /\ UNCHANGED <<req, trnsl, fw, free_entry_avail>>
      /\ Old' => CompressDone \/ (DecodeLstEntry /\ trnsl.sts = "COMP")
                   \/ (Old /\ UNCHANGED <<req, trnsl>>)
      /\ dec' = "BUS_ERROR" =>
           /\ UNCHANGED <<req, trnsl, fw>> /\ prm = "DECOMPRESS"
           /\ dec \in {"BUS_ERROR", "IDLE", "FETCH_IFL_LST_ENTRY"}
      /\ dec' = "NO_IWAY" => dec = "NO_IWAY" \/ DecFetchIway
  BY <1>0, RequestControl
<1>5. ~ (DecodeLstEntry /\ trnsl.sts = "COMP")
  <2> SUFFICES ASSUME DecodeLstEntry, trnsl.sts = "COMP" PROVE FALSE
    OBVIOUS
  <2>1. prm = "WAIT_LST_ENTRY" /\ ht.head["FREE"] # NULL /\ ReqPage \in Pages
    BY <1>0 DEF DecodeLstEntry, LookupInv, ReqPage
  <2>2. pwm = "IDLE"
    BY <1>0, <2>1 DEF Quiet, OneManager, WriterBusy, PrmWaits, CmpWaits, DecWaits, init_list_done
  <2>3. \E e \in Entries : r[e] = "FREE"
    BY <2>1, <2>2, HeadRole DEF ListInv, Queues, HeadOf, FutH
  <2>4. FutAtt[ReqPage].sts = "COMP"
    BY <1>3, <2>1 DEF C3, Late
  <2> QED BY <1>0, <2>1, <2>3, <2>4 DEF FreeOnce
<1>6. CompressDone => /\ Given /\ Old /\ trnsl.sts = "COMP" /\ ~ req.fresh
                      /\ UNCHANGED <<req, trnsl, free_entry_avail>> /\ fw' = vic.way
                      /\ ~ free_entry_avail
  <2> SUFFICES ASSUME CompressDone
      PROVE  /\ Given /\ Old /\ trnsl.sts = "COMP" /\ ~ req.fresh
             /\ UNCHANGED <<req, trnsl, free_entry_avail>> /\ fw' = vic.way
             /\ ~ free_entry_avail
    OBVIOUS
  <2>1. cmp = "DONE" /\ prm = "COMPRESS" /\ trnsl.sts = "COMP"
    BY DEF CompressDone, Quiet, Loud
  <2>2. UNCHANGED <<req, trnsl, free_entry_avail>> /\ fw' = vic.way
    BY <2>1 DEF CompressDone
  <2>3. dec = "IDLE" /\ ~ free_entry_avail
    BY <1>0, <2>1 DEF OneManager, LookupInv
  <2>4. Given /\ Old
    BY <2>1, <2>3 DEF Given, Old, OldHeld
  <2> QED BY <1>3, <2>1, <2>2, <2>3, <2>4 DEF C6
<1>7. C1' /\ C5'
  BY <1>3, <1>4, <1>5, <1>6 DEF C1, C5, ReqPage
<1>8. C2'
  <2>1. CASE ReadAtt
    <3>1. pwm = "IDLE"
      BY <1>0, <2>1 DEF ReadAtt, Quiet, OneManager, WriterBusy, PrmWaits, CmpWaits, DecWaits,
         init_list_done
    <3>2. FutAtt = att
      BY <3>1 DEF FutAtt
    <3>3. /\ trnsl' = att[req.page] /\ req' = [req EXCEPT !.fresh = att[req.page].sts = "DALLOC"]
      BY <2>1 DEF ReadAtt
    <3>4. req'.page = req.page /\ (req'.fresh <=> att[req.page].sts = "DALLOC")
      BY <1>0, <3>3 DEF TypeOK, ReaderType
    <3> QED BY <3>2, <3>3, <3>4 DEF C2, ReqPage
  <2> QED BY <1>3, <1>4, <2>1 DEF C2, ReqPage
<1>9. C3'
  <2>1. CASE Miss
    BY <1>3, <2>1 DEF Miss, C2, C3, ReqPage
  <2> QED BY <1>3, <1>4, <2>1 DEF C3, ReqPage
<1>10. C4'
  <2>1. CASE DecodeLstEntry /\ trnsl.sts # "COMP"
    <3>1. prm = "WAIT_LST_ENTRY" /\ UNCHANGED req
          /\ trnsl' = [sts |-> "UNCOMP", loc |-> alloc'.loc]
      BY <2>1 DEF DecodeLstEntry
    <3> QED BY <1>3, <2>1, <3>1 DEF C3, C4, Late, ReqPage
  <2>2. ~ (DecompressDone /\ free_entry_avail)
    BY <1>0 DEF DecompressDone
  <2> QED BY <1>3, <1>4, <2>1, <2>2 DEF C4, ReqPage
<1>11. C6'
  BY <1>0, <1>3, QuietReach DEF C6, ReqPage
<1>12. C7' /\ (prm' = "DECOMPRESS" => ~ free_entry_avail')
  BY <1>0, <1>3, <1>4, <1>5, <1>6 DEF C6, C7, ReqPage
<1>13. UNCHANGED <<req, trnsl>> => (Holds(trnsl.loc, ReqPage)' <=> Holds(trnsl.loc, ReqPage))
  BY DEF Holds, ReqPage
<1>14. C8'
  BY <1>3, <1>4, <1>5, <1>6, <1>13 DEF C8
<1>15. C9'
  <2> SUFFICES ASSUME dec' = "BUS_ERROR"
               PROVE  Holds(trnsl.loc, ReqPage)' \/ mem'[fw'].page = ReqPage'
    BY DEF C9
  <2>1. UNCHANGED <<req, trnsl, fw>> /\ ReqPage' = ReqPage /\ prm = "DECOMPRESS"
    BY <1>4 DEF ReqPage
  <2>2. CASE dec = "BUS_ERROR"
    BY <1>3, <1>13, <2>1, <2>2 DEF C9
  <2>3. CASE dec = "IDLE"
    BY <1>3, <1>13, <2>1, <2>3 DEF C8, Old, OldHeld, Unpacking
  <2>4. CASE dec = "FETCH_IFL_LST_ENTRY"
    <3>1. FutAtt[ReqPage] = [sts |-> "UNCOMP", loc |-> At(fw, Frame)] /\ ReqPage \in Pages
      BY <1>0, <1>3, <2>1 DEF C7, LookupInv, ReqPage
    <3>2. /\ fw \in Ways /\ r[EntryOf(fw)] = "UNCOMP" /\ Owner(EntryOf(fw)) = ReqPage
      BY <1>0, <3>1 DEF Frames, At
    <3>3. EntryOf(fw) \in Entries /\ WayOf(EntryOf(fw)) = fw
      BY <3>2, WayInverse
    <3>4. ~ Handed /\ ~ Awaited /\ ~ Moving
      BY <1>0, <2>1, <2>4 DEF OneManager, Handed, Awaited, Given, Unpacking, Moving
    <3> QED BY <1>0, <2>1, <3>2, <3>3, <3>4 DEF Listed
  <2> QED BY <1>4, <2>2, <2>3, <2>4
<1>16. C10'
  <2> SUFFICES ASSUME DecFetchIway PROVE dec' # "NO_IWAY"
    BY <1>3, <1>4 DEF C10
  <2>1. Holds(trnsl.loc, ReqPage)
    BY <1>3 DEF C8, DecFetchIway, Old, OldHeld, Unpacking
  <2> QED BY <2>1 DEF DecFetchIway, Holds
<1> QED BY <1>2, <1>7, <1>8, <1>9, <1>10, <1>11, <1>12, <1>14, <1>15, <1>16

(* A step that sends no table update and writes no page.                   *)
LEMMA QuietStep ==
  ASSUME NEW r, NEW k, IInv, ListInv(r, k), Placed(r), Quiet, PromptMemory
  PROVE  Placed(r)' /\ \E k1 : ListInv(r, k1)'
<1>0. Request /\ Jobs /\ Construction /\ FreeOnce(r) /\ AllocKnown /\ Next
  BY DEF Placed, ListInv, Quiet
<1>1. mem' = mem /\ FutAtt' = FutAtt /\ \E k1 : ListInv(r, k1)'
  BY <1>0, QuietData
<1>2. Listed(r)' /\ Frames(r)' /\ Packed' /\ SlotsOwned' /\ WaysUsed(r)'
  BY QuietPlaces
<1>3. Construction' /\ FreeOnce(r)' /\ Accesses' /\ Jobs'
  BY <1>0, <1>1, QuietConstruction, QuietFree, QuietAccesses, JobsStep
<1>4. /\ Request' /\ HandedOver(r)' /\ FifoHolds' /\ PagePacket'
      /\ prm' = "DECOMPRESS" => ~ free_entry_avail'
  BY <1>1, QuietRequest, QuietHanded, QuietFifo, QuietPacket
<1> QED BY <1>1, <1>2, <1>3, <1>4 DEF Placed

(* What a sent update does to a page and its list entry.                   *)
LEMMA SentPlace ==
  ASSUME NEW r, NEW k, IInv, init_list_done, ListInv(r, k), Next,
         NEW u, SendUpdate(u), ~ u.ATT_UPDATE_ONLY, u.TOL_UPDATE_ONLY # 2,
         NEW p \in Pages, u.attEntryId = p, NEW e, u.tolEntryId = e
  PROVE  /\ FutAtt' = [FutAtt EXCEPT ![p] = [sts |-> AttSts(u), loc |-> u.loc]]
         /\ e \in Entries /\ r[e] = u.src_list /\ Owner(e)' = u.owner
         /\ \A f \in Entries \ {e} : Owner(f)' = Owner(f)
         /\ \E r1, k1 :
              /\ ListInv(r1, k1)'
              /\ \A f \in Entries \ {e} : r1[f] = r[f]
              /\ r1[e] = IF u.dst_list = "NULLIFY" THEN "OUT" ELSE u.dst_list
<1>1. Sending /\ upd' = u
      /\ FutAtt' = [FutAtt EXCEPT ![p] = [sts |-> AttSts(u), loc |-> u.loc]]
  BY FutSent
<1>2. /\ \E r1, k1 : ListInv(r1, k1)' /\ Moved(r, r1)
      /\ OwnersKept
      /\ e \in Entries /\ r[e] = u.src_list
  BY <1>1, ListStep
<1>3. Owner(e)' = u.owner /\ \A f \in Entries \ {e} : Owner(f)' = Owner(f)
  BY <1>1, <1>2 DEF OwnersKept
<1>4. PICK r1, k1 : ListInv(r1, k1)' /\ Moved(r, r1)
  BY <1>2
<1>5. r1 = RoleAfter(r, u) /\ r \in [Entries -> Roles]
  BY <1>1, <1>4 DEF Moved, ListInv, Chains
<1>6. (\A f \in Entries \ {e} : r1[f] = r[f])
      /\ r1[e] = IF u.dst_list = "NULLIFY" THEN "OUT" ELSE u.dst_list
  BY <1>2, <1>5 DEF RoleAfter
<1> QED BY <1>1, <1>2, <1>3, <1>4, <1>6

(* Frames of the next state, way by way.                                   *)
LEMMA FramesNext ==
  ASSUME NEW r,
         \A q \in Pages : FutAtt'[q].sts \in {"UNCOMP", "INCOMP"} =>
           \E w \in Ways : /\ FutAtt'[q].loc.slot = Frame /\ FutAtt'[q].loc.way = w
                           /\ r[EntryOf(w)] = FutAtt'[q].sts /\ Owner(EntryOf(w))' = q
  PROVE  Frames(r)'
BY DEF Frames, Owner

(* A page gets its first way from the free list (TBL_UPDATE).              *)
LEMMA AllocatePlaced ==
  ASSUME NEW r, NEW k, IInv, init_list_done, ListInv(r, k), Placed(r), Next, SendTblUpdate,
         NEW p, p = ReqPage, NEW e, e = HeadOf("FREE"), NEW u, u = alloc
  PROVE  \E r1 : Placed(r1)' /\ \E k1 : ListInv(r1, k1)'
<1>0. /\ TypeOK /\ OneManager /\ LookupInv /\ AllocKnown /\ Request /\ Jobs
      /\ Listed(r) /\ Frames(r) /\ Packed /\ SlotsOwned /\ WaysUsed(r) /\ Construction
      /\ FreeOnce(r) /\ Accesses
  BY DEF Placed, IInv, ListInv
<1>1. /\ SendUpdate(u) /\ prm = "TBL_UPDATE" /\ prm' = "TBL_UPDATE_DONE" /\ pwm = "IDLE"
      /\ cmp = "IDLE" /\ dec = "IDLE" /\ ~ free_entry_avail
      /\ UNCHANGED <<mem, zpkt, req, trnsl, free_entry_avail, cmp, vic, uc, fifo, dec, acc>>
  BY <1>0 DEF SendTblUpdate, SendUpdate, comp, OneManager, LookupInv
<1>2. /\ u.attEntryId = p /\ u.tolEntryId = e /\ u.loc = At(WayOf(e), Frame) /\ u.owner = p
      /\ u.src_list = "FREE" /\ u.dst_list = "UNCOMP"
      /\ ~ u.ATT_UPDATE_ONLY /\ u.TOL_UPDATE_ONLY = 0 /\ AttSts(u) = "UNCOMP" /\ p \in Pages
  <2>1. p \in Pages /\ AttSts(u) = "UNCOMP"
    BY <1>0, <1>1 DEF LookupInv, ReqPage
  <2>2. u = [NoPkt EXCEPT !.attEntryId = p, !.tolEntryId = e,
                                 !.loc = At(WayOf(e), Frame), !.owner = p,
                                 !.prev = FutL[e].prev, !.next = FutL[e].next,
                                 !.src_list = "FREE", !.dst_list = "UNCOMP"]
    BY <1>0, <1>1 DEF AllocKnown, ReqPage
  <2> QED BY <2>1, <2>2 DEF NoPkt
<1>3. /\ FutAtt' = [FutAtt EXCEPT ![p] = [sts |-> "UNCOMP", loc |-> At(WayOf(e), Frame)]]
      /\ e \in Entries /\ r[e] = "FREE" /\ Owner(e)' = p
      /\ \A f \in Entries \ {e} : Owner(f)' = Owner(f)
      /\ \E r1, k1 :
           /\ ListInv(r1, k1)'
           /\ \A f \in Entries \ {e} : r1[f] = r[f]
           /\ r1[e] = "UNCOMP"
  BY <1>1, <1>2, SentPlace
<1>4. PICK r1 : /\ \E k1 : ListInv(r1, k1)'
                /\ \A f \in Entries \ {e} : r1[f] = r[f]
                /\ r1[e] = "UNCOMP"
  BY <1>3
<1>5. /\ FutAtt'[p] = [sts |-> "UNCOMP", loc |-> At(WayOf(e), Frame)]
      /\ \A q \in Pages \ {p} : FutAtt'[q] = FutAtt[q]
  <2>1. FutAtt = att /\ att \in [Pages -> AttEntry]
    BY <1>0, <1>1 DEF FutAtt, TypeOK, TablesType
  <2> QED BY <1>2, <1>3, <2>1
<1>6. FutAtt[p].sts = "DALLOC" /\ req.fresh /\ trnsl = [sts |-> "UNCOMP", loc |-> u.loc]
  BY <1>0, <1>1 DEF Request
<1>7. /\ ~ Handed /\ ~ Awaited /\ ~ Moving /\ ~ OldHeld /\ ~ Written /\ ~ Prepared
      /\ ~ Handed' /\ Awaited' /\ ~ Moving' /\ ~ OldHeld' /\ ~ Written' /\ ~ Prepared' /\ ~ Given'
      /\ ReqPage' = p
  BY <1>1 DEF Handed, Awaited, Moving, OldHeld, Written, Prepared, Given, Unpacking, ReqPage
<1>8. Listed(r1)'
  <2> SUFFICES ASSUME NEW f \in Entries, r1[f] \in {"UNCOMP", "INCOMP"}
               PROVE  LET q == Owner(f)'  w == WayOf(f)
                      IN  /\ q \in Pages
                          /\ FutAtt'[q] = [sts |-> r1[f], loc |-> At(w, Frame)]
                          /\ mem[w].page = q \/ (Awaited' /\ q = ReqPage')
    BY <1>1 DEF Listed
  <2>1. CASE f = e
    BY <1>2, <1>3, <1>4, <1>5, <1>7, <2>1
  <2>2. CASE f # e
    BY <1>0, <1>3, <1>4, <1>5, <1>6, <1>7, <2>2 DEF Listed
  <2> QED BY <2>1, <2>2
<1>9. Frames(r1)'
  <2> SUFFICES ASSUME NEW q \in Pages, FutAtt'[q].sts \in {"UNCOMP", "INCOMP"}
               PROVE  \E w \in Ways :
                        /\ FutAtt'[q].loc.slot = Frame /\ FutAtt'[q].loc.way = w
                        /\ r1[EntryOf(w)] = FutAtt'[q].sts /\ Owner(EntryOf(w))' = q
    BY FramesNext
  <2>1. CASE q = p
    <3>1. WayOf(e) \in Ways /\ EntryOf(WayOf(e)) = e
      BY <1>3, WayInverse
    <3> QED BY <1>3, <1>4, <1>5, <2>1, <3>1 DEF At
  <2>2. CASE q # p
    <3>0. FutAtt'[q] = FutAtt[q]
      BY <1>5, <2>2
    <3>1. PICK w \in Ways : /\ FutAtt[q].loc.slot = Frame /\ FutAtt[q].loc.way = w
                            /\ r[EntryOf(w)] = FutAtt[q].sts /\ Owner(EntryOf(w)) = q
      BY <1>0, <3>0 DEF Frames
    <3>2. EntryOf(w) \in Entries \ {e}
      BY <1>3, <3>0, <3>1, WayInverse
    <3> QED BY <1>3, <1>4, <3>0, <3>1, <3>2
  <2> QED BY <2>1, <2>2
<1>10. Packed'
  <2> SUFFICES ASSUME NEW q \in Pages, FutAtt'[q].sts = "COMP"
               PROVE  Holds(FutAtt[q].loc, q)' /\ FutAtt'[q] = FutAtt[q]
    BY DEF Packed, Holds
  <2>1. q # p
    <3>1. FutAtt'[p].sts = "UNCOMP"
      BY <1>5
    <3> QED BY <3>1
  <2>2. FutAtt'[q] = FutAtt[q]
    BY <1>5, <2>1
  <2>3. Holds(FutAtt[q].loc, q)
    BY <1>0, <2>2 DEF Packed
  <2>4. mem' = mem
    BY <1>1
  <2> QED BY <2>2, <2>3, <2>4 DEF Holds
<1>11. SlotsOwned'
  BY <1>0, <1>1, <1>2, <1>5, <1>6, <1>7 DEF SlotsOwned
<1>12. WaysUsed(r1)'
  <2>1. \A w \in Ways : r1[EntryOf(w)] # "OUT" <=> r[EntryOf(w)] # "OUT"
    BY <1>3, <1>4, WayInverse
  <2> QED BY <1>0, <1>1, <1>7, <2>1 DEF WaysUsed
<1>13. Construction' /\ FreeOnce(r1)'
  BY <1>0, <1>1, <1>2, <1>3, <1>4, <1>5 DEF Construction, FreeOnce
<1>14. Accesses'
  <2>1. \A c \in Chans : acc[c] # NoAcc => acc[c].page # p
    BY <1>0, <1>1 DEF Accesses
  <2> QED BY <1>0, <1>1, <1>5, <1>7, <2>1 DEF Accesses, VictimHeld
<1>15. Request'
  BY <1>1, <1>2, <1>5, <1>6, <1>7 DEF Request
<1>16. HandedOver(r1)' /\ FifoHolds' /\ PagePacket' /\ (prm' = "DECOMPRESS" => ~ free_entry_avail')
  BY <1>1, <1>7 DEF HandedOver, FifoHolds, PagePacket
<1>17. Jobs'
  BY <1>0, JobsStep
<1> QED BY <1>4, <1>8, <1>9, <1>10, <1>11, <1>12, <1>13, <1>14, <1>15, <1>16, <1>17 DEF Placed

(* The updates sent for a victim.                                          *)
LEMMA VictimSent ==
  ASSUME NEW r, NEW k, IInv, init_list_done, ListInv(r, k), Placed(r), Next, VictimHeld,
         pwm = "IDLE", NEW u, SendUpdate(u),
         NEW p, p = VicPage, NEW e, e = HeadOf("UNCOMP"),
         ~ u.ATT_UPDATE_ONLY, u.TOL_UPDATE_ONLY # 2, u.attEntryId = p, u.tolEntryId = e
  PROVE  /\ p \in Pages /\ vic.way = WayOf(e) /\ WayOf(e) \in Ways /\ EntryOf(WayOf(e)) = e
         /\ e \in Entries /\ r[e] = "UNCOMP" /\ Owner(e) = p
         /\ FutAtt[p] = [sts |-> "UNCOMP", loc |-> At(WayOf(e), Frame)]
         /\ FutAtt'[p] = [sts |-> AttSts(u), loc |-> u.loc]
         /\ \A q \in Pages \ {p} : FutAtt'[q] = FutAtt[q]
         /\ Owner(e)' = u.owner
         /\ \A f \in Entries \ {e} : Owner(f)' = Owner(f)
         /\ \E r1 : /\ \E k1 : ListInv(r1, k1)'
                    /\ \A f \in Entries \ {e} : r1[f] = r[f]
                    /\ r1[e] = IF u.dst_list = "NULLIFY" THEN "OUT" ELSE u.dst_list
<1>1. PICK w \in Ways : w = vic.way
  BY VictimPlace
<1>2. /\ p \in Pages /\ r[EntryOf(w)] = "UNCOMP" /\ Owner(EntryOf(w)) = p /\ e = EntryOf(w)
      /\ FutAtt[p] = [sts |-> "UNCOMP", loc |-> At(w, Frame)]
  BY <1>1, VictimPlace
<1>3. WayOf(e) = w /\ e \in Entries
  BY <1>2, WayInverse
<1>4. /\ FutAtt' = [FutAtt EXCEPT ![p] = [sts |-> AttSts(u), loc |-> u.loc]]
      /\ Owner(e)' = u.owner
      /\ \A f \in Entries \ {e} : Owner(f)' = Owner(f)
      /\ \E r1, k1 :
           /\ ListInv(r1, k1)'
           /\ \A f \in Entries \ {e} : r1[f] = r[f]
           /\ r1[e] = IF u.dst_list = "NULLIFY" THEN "OUT" ELSE u.dst_list
  BY <1>2, SentPlace
<1>5. FutAtt = att /\ att \in [Pages -> AttEntry]
  BY DEF FutAtt, IInv, TypeOK, TablesType
<1>6. /\ FutAtt'[p] = [sts |-> AttSts(u), loc |-> u.loc]
      /\ \A q \in Pages \ {p} : FutAtt'[q] = FutAtt[q]
  BY <1>2, <1>4, <1>5
<1> QED BY <1>1, <1>2, <1>3, <1>4, <1>6

(* An update leaves the entry of every other page where it is.             *)
LEMMA OthersFramed ==
  ASSUME NEW r, NEW r1, NEW e \in Entries, NEW p, NEW q \in Pages, Frames(r), q # p,
         FutAtt'[q] = FutAtt[q], FutAtt[q].sts \in {"UNCOMP", "INCOMP"}, Owner(e) = p,
         \A f \in Entries \ {e} : r1[f] = r[f] /\ Owner(f)' = Owner(f)
  PROVE  \E w \in Ways :
           /\ FutAtt'[q].loc.slot = Frame /\ FutAtt'[q].loc.way = w
           /\ r1[EntryOf(w)] = FutAtt'[q].sts /\ Owner(EntryOf(w))' = q
<1>1. PICK w \in Ways : /\ FutAtt[q].loc.slot = Frame /\ FutAtt[q].loc.way = w
                        /\ r[EntryOf(w)] = FutAtt[q].sts /\ Owner(EntryOf(w)) = q
  BY DEF Frames
<1>2. EntryOf(w) \in Entries \ {e}
  BY <1>1, WayInverse
<1> QED BY <1>1, <1>2

(* A victim that does not compress goes to the incompressible list.        *)
LEMMA IncompPlaced ==
  ASSUME NEW r, NEW k, IInv, init_list_done, ListInv(r, k), Placed(r), Next, SendIncomp,
         NEW p, p = VicPage, NEW e, e = HeadOf("UNCOMP")
  PROVE  \E r1 : Placed(r1)' /\ \E k1 : ListInv(r1, k1)'
<1>0. /\ TypeOK /\ OneManager /\ LookupInv /\ Request /\ Jobs /\ AllocKnown
      /\ Listed(r) /\ Frames(r) /\ Packed /\ SlotsOwned /\ WaysUsed(r) /\ Construction
      /\ FreeOnce(r) /\ Accesses /\ (prm = "DECOMPRESS" => ~ free_entry_avail)
  BY DEF Placed, IInv, ListInv
<1> DEFINE u == [NoPkt EXCEPT
                   !.attEntryId = vic.attEntryId, !.tolEntryId = ht.head["UNCOMP"],
                   !.loc = At(vic.way, Frame), !.owner = vic.attEntryId,
                   !.prev = vic.prev, !.next = vic.next,
                   !.src_list = "UNCOMP", !.dst_list = "INCOMP"]
<1>1. /\ SendUpdate(u) /\ prm = "COMPRESS" /\ pwm = "IDLE" /\ pwm' # "IDLE"
      /\ cmp = "POP_UCMP_PUSH_INCOMP" /\ dec = "IDLE"
      /\ UNCHANGED <<mem, zpkt, prm, req, trnsl, fw, free_entry_avail, cmp, vic, uc, fifo, dec, acc>>
  BY <1>0 DEF SendIncomp, SendUpdate, comp, reader, cmp_idle_others, OneManager
<1>2. /\ u.attEntryId = p /\ u.tolEntryId = e /\ u.loc = At(vic.way, Frame) /\ u.owner = p
      /\ u.dst_list = "INCOMP"
      /\ ~ u.ATT_UPDATE_ONLY /\ u.TOL_UPDATE_ONLY = 0 /\ AttSts(u) = "INCOMP"
  <2>1. ht.head["UNCOMP"] = e
    BY <1>1 DEF HeadOf, FutH
  <2> QED BY <2>1 DEF NoPkt, AttSts, VicPage
<1> HIDE DEF u
<1>3. VictimHeld
  BY <1>1 DEF VictimHeld
<1>4. /\ p \in Pages /\ vic.way = WayOf(e) /\ WayOf(e) \in Ways /\ EntryOf(WayOf(e)) = e
      /\ e \in Entries /\ r[e] = "UNCOMP" /\ Owner(e) = p
      /\ FutAtt[p] = [sts |-> "UNCOMP", loc |-> At(WayOf(e), Frame)]
      /\ FutAtt'[p] = [sts |-> "INCOMP", loc |-> At(WayOf(e), Frame)]
      /\ \A q \in Pages \ {p} : FutAtt'[q] = FutAtt[q]
      /\ Owner(e)' = p
      /\ \A f \in Entries \ {e} : Owner(f)' = Owner(f)
      /\ \E r1 : /\ \E k1 : ListInv(r1, k1)'
                 /\ \A f \in Entries \ {e} : r1[f] = r[f]
                 /\ r1[e] = "INCOMP"
  <2> DEFINE G(z) ==
        /\ p \in Pages /\ vic.way = WayOf(e) /\ WayOf(e) \in Ways /\ EntryOf(WayOf(e)) = e
        /\ e \in Entries /\ r[e] = "UNCOMP" /\ Owner(e) = p
        /\ FutAtt[p] = [sts |-> "UNCOMP", loc |-> At(WayOf(e), Frame)]
        /\ FutAtt'[p] = [sts |-> AttSts(z), loc |-> z.loc]
        /\ \A q \in Pages \ {p} : FutAtt'[q] = FutAtt[q]
        /\ Owner(e)' = z.owner
        /\ \A f \in Entries \ {e} : Owner(f)' = Owner(f)
        /\ \E r1 : /\ \E k1 : ListInv(r1, k1)'
                   /\ \A f \in Entries \ {e} : r1[f] = r[f]
                   /\ r1[e] = IF z.dst_list = "NULLIFY" THEN "OUT" ELSE z.dst_list
  <2>1. ASSUME NEW z, z = u PROVE G(z)
    <3>1. /\ SendUpdate(z) /\ ~ z.ATT_UPDATE_ONLY /\ z.TOL_UPDATE_ONLY # 2
          /\ z.attEntryId = p /\ z.tolEntryId = e
      BY <1>1, <1>2, <2>1
    <3> QED BY <1>1, <1>3, <3>1, VictimSent
  <2>2. G(u)
    BY <2>1
  <2> QED BY <1>2, <2>2
<1>5. PICK r1 : /\ \E k1 : ListInv(r1, k1)'
                /\ \A f \in Entries \ {e} : r1[f] = r[f]
                /\ r1[e] = "INCOMP"
  BY <1>4
<1>6. /\ mem[WayOf(e)].page = p /\ ReqPage # p /\ ReqPage \in Pages
      /\ trnsl.sts \in {"COMP", "DALLOC"} /\ FutAtt[ReqPage] = trnsl
  BY <1>1, <1>3, <1>4, VictimPlace DEF Moving
<1>7. /\ ~ Handed /\ ~ Awaited /\ ~ Moving /\ ~ OldHeld /\ ~ Written /\ ~ Prepared
      /\ ~ Handed' /\ ~ Awaited' /\ ~ Moving' /\ ~ OldHeld' /\ ~ Written' /\ ~ Prepared' /\ ~ Given'
      /\ ReqPage' = ReqPage /\ ~ VictimHeld'
  BY <1>1 DEF Handed, Awaited, Moving, OldHeld, Written, Prepared, Given, Unpacking, ReqPage,
              VictimHeld
<1>8. Listed(r1)'
  <2> SUFFICES ASSUME NEW f \in Entries, r1[f] \in {"UNCOMP", "INCOMP"}
               PROVE  LET q == Owner(f)'  w == WayOf(f)
                      IN  /\ q \in Pages
                          /\ FutAtt'[q] = [sts |-> r1[f], loc |-> At(w, Frame)]
                          /\ mem[w].page = q
    BY <1>1 DEF Listed
  <2>1. CASE f = e
    BY <1>4, <1>5, <1>6, <2>1
  <2>2. CASE f # e
    <3>1. /\ Owner(f) \in Pages /\ FutAtt[Owner(f)] = [sts |-> r[f], loc |-> At(WayOf(f), Frame)]
          /\ mem[WayOf(f)].page = Owner(f) /\ Owner(f)' = Owner(f) /\ r1[f] = r[f]
      BY <1>0, <1>4, <1>5, <1>7, <2>2 DEF Listed
    <3>2. WayOf(f) # WayOf(e)
      BY <1>4, <2>2, WayInverse
    <3>3. Owner(f) # p
      BY <1>4, <3>1, <3>2 DEF At
    <3> QED BY <1>4, <3>1, <3>3
  <2> QED BY <2>1, <2>2
<1>9. Frames(r1)'
  <2> SUFFICES ASSUME NEW q \in Pages, FutAtt'[q].sts \in {"UNCOMP", "INCOMP"}
               PROVE  \E w \in Ways :
                        /\ FutAtt'[q].loc.slot = Frame /\ FutAtt'[q].loc.way = w
                        /\ r1[EntryOf(w)] = FutAtt'[q].sts /\ Owner(EntryOf(w))' = q
    BY FramesNext
  <2>1. CASE q = p
    BY <1>4, <1>5, <2>1 DEF At
  <2>2. CASE q # p
    BY <1>0, <1>4, <1>5, <2>2, OthersFramed
  <2> QED BY <2>1, <2>2
<1>10. Packed' /\ SlotsOwned'
  <2>1. \A q \in Pages : FutAtt'[q].sts = "COMP" \/ FutAtt[q].sts = "COMP" =>
           FutAtt'[q] = FutAtt[q]
    BY <1>4
  <2>2. Packed'
    BY SMTT(30), <1>0, <1>1, <2>1 DEF Packed, Holds
  <2>3. SlotsOwned'
    <3> SUFFICES ASSUME NEW w \in Ways, NEW s \in Slots, mem[w].md.pg_vld[s],
                        NEW q, q = mem[w].md.page[s]
                 PROVE  q \in Pages /\ FutAtt'[q] = [sts |-> "COMP", loc |-> At(w, s)]
      BY <1>1 DEF SlotsOwned
    <3>1. q \in Pages /\ FutAtt[q] = [sts |-> "COMP", loc |-> At(w, s)]
      BY <1>0, <1>7 DEF SlotsOwned
    <3> QED BY <2>1, <3>1
  <2> QED BY <2>2, <2>3
<1>12. WaysUsed(r1)'
  <2>1. \A w \in Ways : r1[EntryOf(w)] # "OUT" <=> r[EntryOf(w)] # "OUT"
    BY <1>4, <1>5, WayInverse
  <2> QED BY <1>0, <1>1, <1>7, <2>1 DEF WaysUsed
<1>13. Construction' /\ FreeOnce(r1)'
  BY <1>0, <1>1, <1>4, <1>5 DEF Construction, FreeOnce
<1>14. Accesses'
  <2>1. \A q \in Pages : FutAtt[q].sts \in {"UNCOMP", "INCOMP"} =>
           FutAtt'[q].sts \in {"UNCOMP", "INCOMP"} /\ FutAtt'[q].loc = FutAtt[q].loc
    BY <1>4
  <2> QED BY <1>0, <1>1, <1>7, <2>1 DEF Accesses
<1>15. Request'
  BY <1>0, <1>1, <1>4, <1>6, <1>7 DEF Request
<1>16. HandedOver(r1)' /\ FifoHolds' /\ PagePacket' /\ (prm' = "DECOMPRESS" => ~ free_entry_avail')
  BY <1>1, <1>7 DEF HandedOver, FifoHolds, PagePacket
<1>17. Jobs'
  BY <1>0, JobsStep
<1> QED BY <1>5, <1>8, <1>9, <1>10, <1>12, <1>13, <1>14, <1>15, <1>16, <1>17 DEF Placed

(* The victim is in its slot: its entry goes, off the lists or to the page *)
(* asked for.                                                              *)
LEMMA StoredPlaced ==
  ASSUME NEW r, NEW k, IInv, init_list_done, ListInv(r, k), Placed(r), Next,
         NEW p, p = VicPage, NEW e, e = HeadOf("UNCOMP"),
         NEW u, SendUpdate(u), ~ u.ATT_UPDATE_ONLY, u.TOL_UPDATE_ONLY = 0,
         u.attEntryId = p, u.tolEntryId = e, u.loc = zpkt.dest, AttSts(u) = "COMP",
         \/ cmp = "UPDATE_ATT_POP_UCMP_HEAD" /\ u.dst_list = "NULLIFY"
         \/ cmp = "TOL_UPDATE_FREEWAY_ENTRY" /\ u.dst_list = "UNCOMP" /\ u.owner = ReqPage,
         UNCHANGED <<mem, zpkt, reader, comp, fifo, dec, acc>>
  PROVE  \E r1 : Placed(r1)' /\ \E k1 : ListInv(r1, k1)'
<1>0. /\ TypeOK /\ OneManager /\ LookupInv /\ Request /\ Jobs /\ AllocKnown /\ PagePacket
      /\ Listed(r) /\ Frames(r) /\ Packed /\ SlotsOwned /\ WaysUsed(r) /\ Construction
      /\ FreeOnce(r) /\ Accesses /\ (prm = "DECOMPRESS" => ~ free_entry_avail)
  BY DEF Placed, IInv, ListInv
<1>1. /\ prm = "COMPRESS" /\ pwm = "IDLE" /\ pwm' = "ATT_UPDATE" /\ dec = "IDLE"
      /\ UNCHANGED <<mem, zpkt, prm, req, trnsl, fw, free_entry_avail, cmp, vic, uc, fifo, dec, acc>>
  BY <1>0 DEF SendUpdate, comp, reader, OneManager
<1>2. cmp \in {"UPDATE_ATT_POP_UCMP_HEAD", "TOL_UPDATE_FREEWAY_ENTRY"}
  OBVIOUS
<1>3. VictimHeld /\ Written
  BY <1>1, <1>2 DEF VictimHeld, Written
<1>4. /\ p \in Pages /\ vic.way = WayOf(e) /\ WayOf(e) \in Ways /\ EntryOf(WayOf(e)) = e
      /\ e \in Entries /\ r[e] = "UNCOMP" /\ Owner(e) = p
      /\ FutAtt[p] = [sts |-> "UNCOMP", loc |-> At(WayOf(e), Frame)]
      /\ FutAtt'[p] = [sts |-> "COMP", loc |-> zpkt.dest]
      /\ \A q \in Pages \ {p} : FutAtt'[q] = FutAtt[q]
      /\ Owner(e)' = u.owner
      /\ \A f \in Entries \ {e} : Owner(f)' = Owner(f)
      /\ \E r1 : /\ \E k1 : ListInv(r1, k1)'
                 /\ \A f \in Entries \ {e} : r1[f] = r[f]
                 /\ r1[e] = IF u.dst_list = "NULLIFY" THEN "OUT" ELSE u.dst_list
  BY <1>1, <1>3, VictimSent
<1>5. PICK r1 : /\ \E k1 : ListInv(r1, k1)'
                /\ \A f \in Entries \ {e} : r1[f] = r[f]
                /\ r1[e] = IF u.dst_list = "NULLIFY" THEN "OUT" ELSE u.dst_list
  BY <1>4
<1>6. /\ ReqPage # p /\ ReqPage \in Pages
      /\ trnsl.sts \in {"COMP", "DALLOC"} /\ FutAtt[ReqPage] = trnsl
      /\ Holds(zpkt.dest, p)
  BY <1>0, <1>3, <1>4, VictimPlace DEF PagePacket
<1>7. /\ ~ Handed /\ ~ Awaited /\ ~ OldHeld /\ (Moving => cmp = "UPDATE_ATT_POP_UCMP_HEAD")
      /\ (Prepared <=> cmp = "UPDATE_ATT_POP_UCMP_HEAD")
      /\ (Handed' <=> cmp = "TOL_UPDATE_FREEWAY_ENTRY")
      /\ ~ Awaited' /\ ~ Moving' /\ ~ OldHeld' /\ ~ Written' /\ ~ Prepared' /\ ~ Given'
      /\ ReqPage' = ReqPage /\ ~ VictimHeld'
  BY <1>1, <1>2 DEF Handed, Awaited, Moving, OldHeld, Written, Prepared, Given, Unpacking, ReqPage,
              VictimHeld
<1>8. Listed(r1)'
  <2> SUFFICES ASSUME NEW f \in Entries, r1[f] \in {"UNCOMP", "INCOMP"}
               PROVE  LET q == Owner(f)'  w == WayOf(f)
                      IN  /\ q \in Pages
                          /\ \/ FutAtt'[q] = [sts |-> r1[f], loc |-> At(w, Frame)]
                             \/ Handed' /\ q = ReqPage' /\ w = vic'.way
                          /\ \/ mem[w].page = q
                             \/ Handed' /\ q = ReqPage' /\ w = vic'.way
    BY <1>1 DEF Listed
  <2>1. CASE f = e
    <3>1. cmp = "TOL_UPDATE_FREEWAY_ENTRY" /\ u.owner = ReqPage
      BY <1>5, <2>1
    <3> QED BY <1>1, <1>4, <1>6, <1>7, <2>1, <3>1
  <2>2. CASE f # e
    <3>2. WayOf(f) # WayOf(e)
      BY <1>4, <2>2, WayInverse
    <3>1. /\ Owner(f) \in Pages /\ FutAtt[Owner(f)] = [sts |-> r[f], loc |-> At(WayOf(f), Frame)]
          /\ mem[WayOf(f)].page = Owner(f) /\ Owner(f)' = Owner(f) /\ r1[f] = r[f]
      BY <1>0, <1>4, <1>5, <1>7, <2>2, <3>2 DEF Listed
    <3>3. Owner(f) # p
      BY <1>4, <3>1, <3>2 DEF At
    <3> QED BY <1>4, <3>1, <3>3
  <2> QED BY <2>1, <2>2
<1>9. Frames(r1)'
  <2> SUFFICES ASSUME NEW q \in Pages, FutAtt'[q].sts \in {"UNCOMP", "INCOMP"}
               PROVE  \E w \in Ways :
                        /\ FutAtt'[q].loc.slot = Frame /\ FutAtt'[q].loc.way = w
                        /\ r1[EntryOf(w)] = FutAtt'[q].sts /\ Owner(EntryOf(w))' = q
    BY FramesNext
  <2>1. q # p
    BY <1>4
  <2> QED BY <1>0, <1>4, <1>5, <2>1, OthersFramed
<1>10. Packed'
  <2> SUFFICES ASSUME NEW q \in Pages, FutAtt'[q].sts = "COMP"
               PROVE  Holds(FutAtt'[q].loc, q)
    BY <1>1 DEF Packed, Holds
  <2> QED BY <1>0, <1>4, <1>6 DEF Packed
<1>11. SlotsOwned'
  <2> SUFFICES ASSUME NEW w \in Ways, NEW s \in Slots, mem[w].md.pg_vld[s],
                      NEW q, q = mem[w].md.page[s]
               PROVE  q \in Pages /\ FutAtt'[q] = [sts |-> "COMP", loc |-> At(w, s)]
    BY <1>1 DEF SlotsOwned
  <2>1. /\ q \in Pages
        /\ \/ FutAtt[q] = [sts |-> "COMP", loc |-> At(w, s)]
           \/ q = p /\ zpkt.dest = At(w, s)
    BY <1>0, <1>7 DEF SlotsOwned
  <2> QED BY <1>4, <2>1
<1>12. WaysUsed(r1)'
  <2> SUFFICES ASSUME NEW w \in Ways
               PROVE  /\ mem[w].iway = NoWay => mem[w].md = NoMd
                      /\ mem[w].iway = NoWay <=> r1[EntryOf(w)] # "OUT"
    BY <1>1, <1>7 DEF WaysUsed
  <2>1. /\ mem[w].iway = NoWay => mem[w].md = NoMd
        /\ mem[w].iway = NoWay <=> (r[EntryOf(w)] # "OUT" /\ ~ (Prepared /\ w = vic.way))
    BY <1>0 DEF WaysUsed
  <2>2. EntryOf(w) = e <=> w = vic.way
    BY <1>4, WayInverse
  <2>3. EntryOf(w) \in Entries
    BY WayInverse
  <2> QED BY <1>2, <1>4, <1>5, <1>7, <2>1, <2>2, <2>3
<1>13. Construction'
  BY <1>0, <1>1, <1>2 DEF Construction
<1>14. FreeOnce(r1)'
  <2>1. ~ \E f \in Entries : r[f] = "FREE"
    BY <1>0, <1>1 DEF FreeOnce
  <2> QED BY <1>4, <1>5, <2>1 DEF FreeOnce
<1>15. Accesses'
  <2>1. \A c \in Chans : acc[c] # NoAcc => acc[c].page # p
    BY <1>0, <1>2, <1>3 DEF Accesses
  <2> QED BY <1>0, <1>1, <1>4, <1>7, <2>1 DEF Accesses
<1>16. Request'
  BY <1>0, <1>1, <1>4, <1>6, <1>7 DEF Request
<1>17. HandedOver(r1)'
  <2> SUFFICES ASSUME cmp = "TOL_UPDATE_FREEWAY_ENTRY"
               PROVE  \E w \in Ways : /\ vic'.way = w
                                      /\ r1[EntryOf(w)] = "UNCOMP"
                                      /\ Owner(EntryOf(w))' = ReqPage'
    BY <1>6, <1>7 DEF HandedOver
  <2> QED BY <1>1, <1>4, <1>5, <1>7
<1>18. FifoHolds' /\ PagePacket' /\ (prm' = "DECOMPRESS" => ~ free_entry_avail')
  BY <1>1, <1>2, <1>7 DEF FifoHolds, PagePacket
<1>19. Jobs'
  BY <1>0, JobsStep
<1> QED BY <1>5, <1>8, <1>9, <1>10, <1>11, <1>12, <1>13, <1>14, <1>15, <1>16, <1>17, <1>18, <1>19
        DEF Placed

(* A victim is in its slot, and its entry is taken for a zspage or handed  *)
(* over.                                                                   *)
LEMMA StoredStep ==
  ASSUME NEW r, NEW k, IInv, init_list_done, ListInv(r, k), Placed(r), Next,
         SendPopUcmp \/ SendFreewayTol
  PROVE  \E r1 : Placed(r1)' /\ \E k1 : ListInv(r1, k1)'
<1> DEFINE u1 == [NoPkt EXCEPT
                   !.attEntryId = vic.attEntryId, !.tolEntryId = ht.head["UNCOMP"],
                   !.loc = zpkt.dest, !.prev = vic.prev, !.next = vic.next,
                   !.src_list = "UNCOMP", !.dst_list = "NULLIFY"]
           u2 == [NoPkt EXCEPT
                   !.attEntryId = vic.attEntryId, !.tolEntryId = ht.head["UNCOMP"],
                   !.loc = zpkt.dest, !.owner = req.page,
                   !.prev = vic.prev, !.next = vic.next,
                   !.src_list = "UNCOMP", !.dst_list = "UNCOMP"]
<1>1. ASSUME NEW u, u = u1 \/ u = u2
      PROVE  /\ ~ u.ATT_UPDATE_ONLY /\ u.TOL_UPDATE_ONLY = 0
             /\ u.attEntryId = VicPage /\ u.tolEntryId = ht.head["UNCOMP"]
             /\ u.loc = zpkt.dest /\ AttSts(u) = "COMP"
             /\ u = u1 => u.dst_list = "NULLIFY"
             /\ u = u2 => u.dst_list = "UNCOMP" /\ u.owner = ReqPage
  BY ZenonT(60), <1>1 DEF NoPkt, AttSts, VicPage, ReqPage
<1>2. /\ SendPopUcmp => cmp = "UPDATE_ATT_POP_UCMP_HEAD" /\ SendUpdate(u1)
      /\ SendFreewayTol => cmp = "TOL_UPDATE_FREEWAY_ENTRY" /\ SendUpdate(u2)
      /\ UNCHANGED <<mem, zpkt, reader, comp, fifo, dec, acc>> /\ pwm = "IDLE"
  BY DEF SendPopUcmp, SendFreewayTol, SendUpdate, cmp_idle_others
<1> HIDE DEF u1, u2
<1>3. HeadOf("UNCOMP") = ht.head["UNCOMP"]
  BY <1>2 DEF HeadOf, FutH
<1>4. PICK u : \/ u = u1 /\ SendPopUcmp /\ SendUpdate(u)
               \/ u = u2 /\ SendFreewayTol /\ SendUpdate(u)
  <2>1. CASE SendPopUcmp
    BY <1>2, <2>1
  <2>2. CASE SendFreewayTol
    BY <1>2, <2>2
  <2> QED BY <2>1, <2>2
<1>5. PICK p, e : p = VicPage /\ e = HeadOf("UNCOMP")
  OBVIOUS
<1>6. /\ ~ u.ATT_UPDATE_ONLY /\ u.TOL_UPDATE_ONLY = 0
      /\ u.attEntryId = p /\ u.tolEntryId = e
      /\ u.loc = zpkt.dest /\ AttSts(u) = "COMP" /\ SendUpdate(u)
      /\ \/ cmp = "UPDATE_ATT_POP_UCMP_HEAD" /\ u.dst_list = "NULLIFY"
         \/ cmp = "TOL_UPDATE_FREEWAY_ENTRY" /\ u.dst_list = "UNCOMP" /\ u.owner = ReqPage
  BY <1>1, <1>2, <1>3, <1>4, <1>5
<1> QED BY <1>2, <1>5, <1>6, StoredPlaced

(* The page asked for gets the victim's way in the ATT.                    *)
LEMMA GivenPlaced ==
  ASSUME NEW r, NEW k, IInv, init_list_done, ListInv(r, k), Placed(r), Next, SendFreewayAtt,
         NEW p, p = ReqPage
  PROVE  \E r1 : Placed(r1)' /\ \E k1 : ListInv(r1, k1)'
<1>0. /\ TypeOK /\ OneManager /\ LookupInv /\ Request /\ Jobs /\ AllocKnown /\ HandedOver(r)
      /\ Listed(r) /\ Frames(r) /\ Packed /\ SlotsOwned /\ WaysUsed(r) /\ Construction
      /\ FreeOnce(r) /\ Accesses /\ (prm = "DECOMPRESS" => ~ free_entry_avail)
  BY DEF Placed, IInv, ListInv
<1> DEFINE u == [NoPkt EXCEPT
                   !.attEntryId = req.page, !.loc = At(vic.way, Frame),
                   !.ATT_UPDATE_ONLY = TRUE, !.ATT_STS = "UNCOMP"]
<1>1. /\ SendUpdate(u) /\ prm = "COMPRESS" /\ pwm = "IDLE" /\ pwm' # "IDLE"
      /\ cmp = "ATT_UPDATE_FREEWAY_ENTRY" /\ dec = "IDLE"
      /\ UNCHANGED <<mem, zpkt, prm, req, trnsl, fw, free_entry_avail, cmp, vic, uc, fifo, dec, acc>>
  BY <1>0 DEF SendFreewayAtt, SendUpdate, comp, reader, cmp_idle_others, OneManager
<1>2. /\ u.attEntryId = p /\ u.loc = At(vic.way, Frame)
      /\ u.ATT_UPDATE_ONLY /\ u.TOL_UPDATE_ONLY = 0 /\ AttSts(u) = "UNCOMP"
  BY DEF NoPkt, AttSts, ReqPage
<1> HIDE DEF u
<1>3. /\ Handed /\ ~ Given /\ ~ Awaited /\ ~ Moving /\ ~ OldHeld /\ ~ Written /\ ~ Prepared
      /\ ~ Handed' /\ Given' /\ Awaited' /\ ~ Moving' /\ (OldHeld' <=> trnsl.sts = "COMP")
      /\ ~ Written' /\ ~ Prepared'
      /\ ReqPage' = p /\ ~ VictimHeld /\ ~ VictimHeld' /\ vic' = vic
  BY <1>1 DEF Handed, Awaited, Moving, OldHeld, Written, Prepared, Given, Unpacking, ReqPage,
              VictimHeld
<1>4. PICK w \in Ways : /\ vic.way = w /\ r[EntryOf(w)] = "UNCOMP"
                        /\ Owner(EntryOf(w)) = p /\ p \in Pages
  BY <1>0, <1>3 DEF HandedOver
<1>5. /\ FutAtt' = [att EXCEPT ![p] = [sts |-> "UNCOMP", loc |-> At(w, Frame)]]
      /\ FutAtt = att /\ FutL = lst /\ FutL' = lst /\ Sending /\ upd' = u
  <2>1. ASSUME NEW z, z = u
        PROVE  /\ FutAtt' = [att EXCEPT ![p] = [sts |-> "UNCOMP", loc |-> At(w, Frame)]]
               /\ FutAtt = att /\ FutL = lst /\ FutL' = lst /\ Sending /\ upd' = z
    <3>1. /\ SendUpdate(z) /\ z.ATT_UPDATE_ONLY /\ z.TOL_UPDATE_ONLY # 2
          /\ z.attEntryId = p /\ z.loc = At(w, Frame) /\ AttSts(z) = "UNCOMP"
      BY <1>1, <1>2, <1>4, <2>1
    <3> QED BY <3>1, FutSent
  <2> QED BY <2>1
<1>6. /\ FutAtt'[p] = [sts |-> "UNCOMP", loc |-> At(w, Frame)]
      /\ \A q \in Pages \ {p} : FutAtt'[q] = FutAtt[q]
      /\ \A f : Owner(f)' = Owner(f)
  <2>1. att \in [Pages -> AttEntry]
    BY <1>0 DEF TypeOK, TablesType
  <2> QED BY <1>4, <1>5, <2>1 DEF Owner
<1>7. \E k1 : ListInv(r, k1)'
  <2>1. PICK r1, k1 : ListInv(r1, k1)' /\ Moved(r, r1)
    BY ListStep
  <2>2. r1 = r
    BY <1>2, <1>5, <2>1 DEF Moved, RoleAfter
  <2> QED BY <2>1, <2>2
<1>8. trnsl.sts \in {"COMP", "DALLOC"} /\ FutAtt[p] = trnsl /\ (req.fresh <=> trnsl.sts = "DALLOC")
  BY <1>0, <1>1, <1>3 DEF Request
<1>9. Listed(r)'
  <2> SUFFICES ASSUME NEW f \in Entries, r[f] \in {"UNCOMP", "INCOMP"}
               PROVE  LET q == Owner(f)'  v == WayOf(f)
                      IN  /\ q \in Pages
                          /\ FutAtt'[q] = [sts |-> r[f], loc |-> At(v, Frame)]
                          /\ mem[v].page = q \/ q = p
    BY <1>1, <1>3 DEF Listed
  <2>1. CASE f = EntryOf(w)
    BY <1>4, <1>6, <2>1, WayInverse
  <2>2. CASE f # EntryOf(w)
    <3>1. WayOf(f) # w
      BY <2>2, WayInverse
    <3>2. /\ Owner(f) \in Pages /\ FutAtt[Owner(f)] = [sts |-> r[f], loc |-> At(WayOf(f), Frame)]
          /\ mem[WayOf(f)].page = Owner(f)
      BY <1>0, <1>3, <1>4, <3>1 DEF Listed
    <3>3. Owner(f) # p
      BY <1>8, <3>2
    <3> QED BY <1>6, <3>2, <3>3
  <2> QED BY <2>1, <2>2
<1>10. Frames(r)'
  <2> SUFFICES ASSUME NEW q \in Pages, FutAtt'[q].sts \in {"UNCOMP", "INCOMP"}
               PROVE  \E v \in Ways :
                        /\ FutAtt'[q].loc.slot = Frame /\ FutAtt'[q].loc.way = v
                        /\ r[EntryOf(v)] = FutAtt'[q].sts /\ Owner(EntryOf(v))' = q
    BY FramesNext
  <2>1. CASE q = p
    BY <1>4, <1>6, <2>1 DEF At
  <2>2. CASE q # p
    BY <1>0, <1>6, <2>2 DEF Frames
  <2> QED BY <2>1, <2>2
<1>11. Packed'
  <2> SUFFICES ASSUME NEW q \in Pages, FutAtt'[q].sts = "COMP"
               PROVE  Holds(FutAtt'[q].loc, q)
    BY <1>1 DEF Packed, Holds
  <2> QED BY <1>0, <1>6 DEF Packed
<1>12. SlotsOwned'
  <2> SUFFICES ASSUME NEW v \in Ways, NEW s \in Slots, mem[v].md.pg_vld[s],
                      NEW q, q = mem[v].md.page[s]
               PROVE  /\ q \in Pages
                      /\ \/ FutAtt'[q] = [sts |-> "COMP", loc |-> At(v, s)]
                         \/ trnsl.sts = "COMP" /\ q = p /\ trnsl.loc = At(v, s)
    BY <1>1, <1>3 DEF SlotsOwned
  <2>1. q \in Pages /\ FutAtt[q] = [sts |-> "COMP", loc |-> At(v, s)]
    BY <1>0, <1>3 DEF SlotsOwned
  <2> QED BY <1>6, <1>8, <2>1
<1>13. WaysUsed(r)' /\ Construction'
  BY <1>0, <1>1, <1>3 DEF WaysUsed, Construction
<1>14. FreeOnce(r)'
  BY <1>0, <1>1 DEF FreeOnce
<1>15. Accesses'
  <2>1. \A c \in Chans : acc[c] # NoAcc => acc[c].page # p
    BY <1>0, <1>1 DEF Accesses
  <2> QED BY <1>0, <1>1, <1>3, <1>6, <2>1 DEF Accesses
<1>16. Request'
  <2>1. trnsl.sts = "COMP" => Holds(trnsl.loc, p)
    BY <1>0, <1>4, <1>8 DEF Packed
  <2>2. OldHeld' => Holds(trnsl.loc, ReqPage)'
    BY <1>1, <1>3, <2>1 DEF Holds
  <2> QED BY <1>1, <1>3, <1>4, <1>6, <1>8, <2>2 DEF Request
<1>17. HandedOver(r)' /\ FifoHolds' /\ PagePacket' /\ (prm' = "DECOMPRESS" => ~ free_entry_avail')
  BY <1>1, <1>3 DEF HandedOver, FifoHolds, PagePacket
<1>18. Jobs'
  BY <1>0, JobsStep
<1> QED BY <1>7, <1>9, <1>10, <1>11, <1>12, <1>13, <1>14, <1>15, <1>16, <1>17, <1>18 DEF Placed

(* Steps that send nothing leave the tables as they will be.               *)
LEMMA TablesStay ==
  ASSUME NEW r, NEW k, IInv, init_list_done, ListInv(r, k), Frames(r), Next, ~ Sending
  PROVE  /\ FutAtt' = FutAtt /\ (\A f \in Entries : Owner(f)' = Owner(f))
         /\ ListInv(r, k)' /\ Frames(r)'
<1>1. FutAtt' = FutAtt /\ (\A f \in Entries : Owner(f)' = Owner(f)) /\ ListInv(r, k)'
  BY FutKept, ListsQuiet DEF OwnersKept
<1>2. Frames(r)'
  <2> SUFFICES ASSUME NEW q \in Pages, FutAtt'[q].sts \in {"UNCOMP", "INCOMP"}
               PROVE  \E v \in Ways :
                        /\ FutAtt'[q].loc.slot = Frame /\ FutAtt'[q].loc.way = v
                        /\ r[EntryOf(v)] = FutAtt'[q].sts /\ Owner(EntryOf(v))' = q
    BY FramesNext
  <2>1. PICK v \in Ways : /\ FutAtt[q].loc.slot = Frame /\ FutAtt[q].loc.way = v
                          /\ r[EntryOf(v)] = FutAtt[q].sts /\ Owner(EntryOf(v)) = q
    BY <1>1 DEF Frames
  <2>2. EntryOf(v) \in Entries
    BY WayInverse
  <2> QED BY <1>1, <2>1, <2>2
<1> QED BY <1>1, <1>2

(* The first access to a page that was given a way.                        *)
LEMMA GrantPlaced ==
  ASSUME NEW r, NEW k, IInv, init_list_done, ListInv(r, k), Placed(r), Next, ~ Sending,
         NEW p, p = ReqPage, NEW w, Grant(w), req.fresh, prm # "IDLE",
         FutAtt[p] = [sts |-> "UNCOMP", loc |-> At(w, Frame)],
         trnsl.sts # "COMP", prm # "DECOMPRESS",
         ~ Handed, ~ Moving, ~ Written, ~ Prepared, cmp # "PREP_ZSPAGE_MD",
         cmp' = "IDLE", dec' = "IDLE", uc' = uc, pwm' = "IDLE"
  PROVE  Placed(r)' /\ ListInv(r, k)'
<1>0. /\ TypeOK /\ OneManager /\ LookupInv /\ Request /\ Jobs /\ AllocKnown
      /\ Listed(r) /\ Frames(r) /\ Packed /\ SlotsOwned /\ WaysUsed(r) /\ Construction
      /\ FreeOnce(r) /\ Accesses
  BY DEF Placed, IInv, ListInv
<1>1. /\ mem' = [mem EXCEPT ![w] = RawFrame(p)] /\ prm' = "IDLE" /\ req' = NoReq
      /\ acc' = [acc EXCEPT ![req.chan] = [page |-> p, way |-> w]]
      /\ p \in Pages
  BY <1>0 DEF Grant, ReqPage, LookupInv
<1>2. /\ FutAtt' = FutAtt /\ (\A f \in Entries : Owner(f)' = Owner(f))
      /\ ListInv(r, k)' /\ Frames(r)'
  BY <1>0, TablesStay
<1>3. w \in Ways /\ r[EntryOf(w)] = "UNCOMP" /\ Owner(EntryOf(w)) = p
  BY <1>0, <1>1 DEF Frames, At
<1>4. mem[w].iway = NoWay /\ mem[w].md = NoMd
  BY <1>0, <1>3 DEF WaysUsed
<1>5. /\ mem'[w].page = p /\ mem'[w].iway = NoWay /\ mem'[w].md = NoMd
      /\ \A v \in Ways \ {w} : mem'[v] = mem[v]
  <2>1. mem \in [Ways -> MemWay]
    BY <1>0 DEF TypeOK, MemType
  <2> QED BY <1>1, <1>3, <2>1 DEF RawFrame
<1>6. /\ ~ Handed' /\ ~ Awaited' /\ ~ Moving' /\ ~ Written' /\ ~ Prepared' /\ ~ OldHeld' /\ ~ Given'
      /\ ~ OldHeld
  BY <1>0, <1>1 DEF Handed, Awaited, Moving, OldHeld, Written, Prepared, Given, Unpacking, OneManager
<1>7. Listed(r)'
  <2> SUFFICES ASSUME NEW f \in Entries, r[f] \in {"UNCOMP", "INCOMP"}
               PROVE  LET q == Owner(f)'  v == WayOf(f)
                      IN  /\ q \in Pages
                          /\ FutAtt'[q] = [sts |-> r[f], loc |-> At(v, Frame)]
                          /\ mem'[v].page = q
    BY DEF Listed
  <2>1. /\ Owner(f) \in Pages /\ FutAtt[Owner(f)] = [sts |-> r[f], loc |-> At(WayOf(f), Frame)]
        /\ mem[WayOf(f)].page = Owner(f) \/ Owner(f) = p
    BY <1>0 DEF Listed
  <2>2. WayOf(f) = w <=> f = EntryOf(w)
    BY <1>3, WayInverse
  <2>3. Owner(f) = p => WayOf(f) = w
    BY <2>1 DEF At
  <2>4. WayOf(f) \in Ways
    BY WayInverse
  <2> QED BY <1>2, <1>3, <1>5, <2>1, <2>2, <2>3, <2>4
<1>8. Packed'
  <2> SUFFICES ASSUME NEW q \in Pages, FutAtt[q].sts = "COMP"
               PROVE  Holds(FutAtt[q].loc, q)'
    BY <1>2 DEF Packed, Holds
  <2>1. Holds(FutAtt[q].loc, q)
    BY <1>0 DEF Packed
  <2>2. FutAtt[q].loc.way \in Ways \ {w}
    BY <1>4, <2>1, WayInverse DEF Holds
  <2> QED BY <1>2, <1>5, <2>1, <2>2 DEF Holds
<1>9. SlotsOwned'
  <2> SUFFICES ASSUME NEW v \in Ways, NEW s \in Slots, mem'[v].md.pg_vld[s],
                      NEW q, q = mem'[v].md.page[s]
               PROVE  /\ q \in Pages
                      /\ FutAtt[q] = [sts |-> "COMP", loc |-> At(v, s)]
    BY <1>2 DEF SlotsOwned
  <2>1. mem'[v].md = mem[v].md
    BY <1>4, <1>5
  <2> QED BY <1>0, <1>6, <2>1 DEF SlotsOwned
<1>10. WaysUsed(r)'
  <2> SUFFICES ASSUME NEW v \in Ways
               PROVE  /\ mem'[v].iway = NoWay => mem'[v].md = NoMd
                      /\ mem'[v].iway = NoWay <=> r[EntryOf(v)] # "OUT"
    BY <1>6 DEF WaysUsed
  <2>1. mem'[v].md = mem[v].md /\ mem'[v].iway = mem[v].iway
    BY <1>4, <1>5
  <2> QED BY <1>0, <2>1 DEF WaysUsed
<1>11. Construction'
  <2>1. uc # NoWay => uc \in Ways /\ uc # w /\ mem[uc].iway = uc
    BY <1>0, <1>4 DEF Construction, TypeOK, CompType
  <2> QED BY <1>5, <2>1 DEF Construction
<1>12. FreeOnce(r)'
  BY <1>0, <1>1, <1>2 DEF FreeOnce
<1>13. Accesses'
  <2>1. \A c \in Chans : \/ acc'[c] = acc[c]
                         \/ acc'[c] = [page |-> p, way |-> w]
    <3>1. acc \in [Chans -> [page : PageOrNone, way : Ways \cup {NoWay}]]
      BY <1>0 DEF TypeOK, AccType
    <3> QED BY <1>1, <3>1
  <2>2. \A c \in Chans : acc'[c] # NoAcc =>
          LET q == acc'[c].page
          IN  /\ q \in Pages /\ FutAtt[q].sts \in {"UNCOMP", "INCOMP"}
              /\ FutAtt[q].loc.way = acc'[c].way
    BY <1>0, <1>1, <2>1 DEF Accesses, At
  <2> QED BY <1>1, <1>2, <2>2 DEF Accesses, VictimHeld
<1>14. Request'
  BY <1>1, <1>6 DEF Request, NoReq
<1>15. HandedOver(r)' /\ FifoHolds' /\ PagePacket' /\ (prm' = "DECOMPRESS" => ~ free_entry_avail')
  BY <1>1, <1>6 DEF HandedOver, FifoHolds, PagePacket
<1>16. Jobs'
  BY <1>0, JobsStep
<1> QED BY <1>2, <1>7, <1>8, <1>9, <1>10, <1>11, <1>12, <1>13, <1>14, <1>15, <1>16 DEF Placed

(* The first access to a page may find anything in its way; it writes.     *)
LEMMA FirstAccess ==
  ASSUME NEW r, NEW k, IInv, init_list_done, ListInv(r, k), Placed(r), Next,
         TblUpdateDone \/ (CompressDone /\ trnsl.sts # "COMP")
  PROVE  Placed(r)' /\ ListInv(r, k)'
<1>0. OneManager /\ Request /\ LookupInv
  BY DEF IInv, Placed
<1> USE DEF Handed, Moving, Written, Prepared, OneManager, WriterBusy, PrmWaits, CmpWaits,
            DecWaits, init_list_done, comp, writer, Sending, Given
<1>1. PICK p : p = ReqPage
  OBVIOUS
<1>2. CASE TblUpdateDone
  <2>1. PICK w : w = trnsl.loc.way
    OBVIOUS
  <2>2. /\ prm = "TBL_UPDATE_DONE" /\ cmp = "IDLE" /\ dec = "IDLE" /\ pwm = "WAIT_BRESP"
        /\ pwm' = "IDLE" /\ UNCHANGED <<cmp, dec, uc>> /\ Grant(w)
    BY <1>0, <1>2, <2>1 DEF TblUpdateDone
  <2>3. FutAtt[p] = trnsl /\ trnsl.sts = "UNCOMP" /\ req.fresh /\ p \in Pages
    BY <1>0, <1>1, <2>2 DEF Request, LookupInv, ReqPage
  <2>4. FutAtt[p] = [sts |-> "UNCOMP", loc |-> At(w, Frame)]
    <3>1. trnsl \in AttEntry /\ trnsl.loc.slot = Frame
      BY <2>3 DEF Placed, Frames, IInv, TypeOK, ReaderType
    <3>2. trnsl = [sts |-> trnsl.sts, loc |-> trnsl.loc]
          /\ trnsl.loc = [way |-> trnsl.loc.way, slot |-> trnsl.loc.slot]
      BY <3>1 DEF AttEntry, Loc
    <3> QED BY <2>1, <2>3, <3>1, <3>2 DEF At
  <2> QED BY <1>1, <2>2, <2>3, <2>4, GrantPlaced
<1>3. CASE CompressDone /\ trnsl.sts # "COMP"
  <2>1. PICK w : w = vic.way
    OBVIOUS
  <2>2. /\ prm = "COMPRESS" /\ cmp = "DONE" /\ dec = "IDLE" /\ pwm = "IDLE"
        /\ cmp' = "IDLE" /\ UNCHANGED <<pwm, dec, uc>> /\ Grant(w)
    BY <1>0, <1>3, <2>1 DEF CompressDone
  <2>3. /\ FutAtt[p] = [sts |-> "UNCOMP", loc |-> At(w, Frame)] /\ req.fresh
        /\ trnsl.sts # "COMP"
    BY <1>0, <1>1, <1>3, <2>1, <2>2 DEF Request
  <2> QED BY <1>1, <2>2, <2>3, GrantPlaced
<1> QED BY <1>2, <1>3

(* The control of a CPU access is its own.                                 *)
LEMMA WriteControl ==
  ASSUME IInv, CpuWrite
  PROVE  /\ UNCHANGED <<tables, writer, zpkt, reader, comp, dec>> /\ ~ Sending
         /\ (Handed' <=> Handed) /\ (Awaited' <=> Awaited) /\ (Moving' <=> Moving)
         /\ (OldHeld' <=> OldHeld) /\ (Written' <=> Written) /\ (Prepared' <=> Prepared)
         /\ (Given' <=> Given) /\ (VictimHeld' <=> VictimHeld)
         /\ ReqPage' = ReqPage /\ VicPage' = VicPage
BY DEF CpuWrite, Sending, Handed, Awaited, Moving, OldHeld, Written, Prepared, Given, Unpacking,
       VictimHeld, ReqPage, VicPage, comp, reader, writer

(* A CPU write makes every other copy of its page stale, and there is      *)
(* none.                                                                   *)
LEMMA WritePlaced ==
  ASSUME NEW r, NEW k, IInv, init_list_done, ListInv(r, k), Placed(r), Next, CpuWrite
  PROVE  Placed(r)' /\ ListInv(r, k)'
<1>0. /\ TypeOK /\ OneManager /\ LookupInv /\ Request /\ Jobs /\ AllocKnown /\ HandedOver(r)
      /\ Listed(r) /\ Frames(r) /\ Packed /\ SlotsOwned /\ WaysUsed(r) /\ Construction
      /\ FreeOnce(r) /\ Accesses /\ FifoHolds /\ PagePacket
      /\ (prm = "DECOMPRESS" => ~ free_entry_avail)
  BY DEF Placed, IInv, ListInv
<1>1. /\ UNCHANGED <<tables, writer, zpkt, reader, comp, dec>> /\ ~ Sending
      /\ (Handed' <=> Handed) /\ (Awaited' <=> Awaited) /\ (Moving' <=> Moving)
      /\ (OldHeld' <=> OldHeld) /\ (Written' <=> Written) /\ (Prepared' <=> Prepared)
      /\ (Given' <=> Given) /\ (VictimHeld' <=> VictimHeld)
      /\ ReqPage' = ReqPage /\ VicPage' = VicPage
  BY WriteControl
<1>2. UNCHANGED <<pwm, prm, req, trnsl, fw, free_entry_avail, alloc, cmp, vic, uc>>
  BY <1>1 DEF writer, reader, comp
<1>3. /\ FutAtt' = FutAtt /\ (\A f \in Entries : Owner(f)' = Owner(f))
      /\ ListInv(r, k)' /\ Frames(r)'
  BY <1>0, <1>1, TablesStay
<1>4. PICK p, w : p = acc["wr"].page /\ w = acc["wr"].way
  OBVIOUS
<1>5. /\ "wr" \in Chans /\ p \in Pages /\ FutAtt[p].sts \in {"UNCOMP", "INCOMP"}
      /\ FutAtt[p].loc.way = w
      /\ prm \notin {"IDLE", "LOOKUP_ATT", "CHK_ATT_ENTRY", "BUS_ERROR"} => p # ReqPage
      /\ VictimHeld /\ cmp \notin {"BURST_READ", "POP_UCMP_PUSH_INCOMP"} => p # VicPage
  BY <1>0, <1>4 DEF CpuWrite, Accesses
<1>6. w \in Ways /\ r[EntryOf(w)] \in {"UNCOMP", "INCOMP"} /\ Owner(EntryOf(w)) = p
  BY <1>0, <1>5 DEF Frames
<1>7. mem[w].iway = NoWay /\ mem[w].md = NoMd
  <2>1. ASSUME Prepared, w = vic.way PROVE FALSE
    <3>1. VictimHeld /\ cmp \notin {"BURST_READ", "POP_UCMP_PUSH_INCOMP"}
      BY <2>1 DEF Prepared, VictimHeld
    <3>2. FutAtt[VicPage] = [sts |-> "UNCOMP", loc |-> At(vic.way, Frame)]
          /\ Owner(EntryOf(vic.way)) = VicPage
      BY <3>1, VictimPlace
    <3> QED BY <1>5, <1>6, <2>1, <3>1, <3>2
  <2> QED BY <1>0, <1>6, <2>1 DEF WaysUsed
<1>8. /\ mem'[w].page = p /\ mem'[w].iway = NoWay /\ mem'[w].md = NoMd
      /\ \A v \in Ways \ {w} :
           /\ mem'[v].iway = mem[v].iway /\ mem'[v].md = mem[v].md
           /\ \A q : q # p /\ mem[v].page = q => mem'[v].page = q
           /\ \A q : \A s \in Slots : q # p /\ mem[v].slot[s] = q => mem'[v].slot[s] = q
      /\ fifo # p => fifo' = fifo
  <2>1. mem \in [Ways -> MemWay]
    BY <1>0 DEF TypeOK, MemType
  <2>2. mem'[w] = RawFrame(p) /\ (fifo # p => fifo' = fifo)
    BY <1>4, <1>6 DEF CpuWrite
  <2>3. ASSUME NEW v \in Ways \ {w}
        PROVE  /\ mem'[v].iway = mem[v].iway /\ mem'[v].md = mem[v].md
               /\ \A q : q # p /\ mem[v].page = q => mem'[v].page = q
               /\ \A q : \A s \in Slots : q # p /\ mem[v].slot[s] = q => mem'[v].slot[s] = q
    <3>1. PICK m : m = mem[v]
      OBVIOUS
    <3>2. m \in MemWay
      BY <2>1, <2>3, <3>1
    <3>3. mem'[v] = [m EXCEPT !.page = IF @ = p THEN NoPage ELSE @,
                              !.slot = [s \in Slots |-> IF @[s] = p THEN NoPage ELSE @[s]]]
      BY <1>4, <2>3, <3>1 DEF CpuWrite
    <3>4. /\ mem'[v].iway = m.iway /\ mem'[v].md = m.md
          /\ mem'[v].page = IF m.page = p THEN NoPage ELSE m.page
          /\ mem'[v].slot = [s \in Slots |-> IF m.slot[s] = p THEN NoPage ELSE m.slot[s]]
      BY <3>2, <3>3 DEF MemWay
    <3> QED BY <3>1, <3>4
  <2>4. mem'[w].page = p /\ mem'[w].iway = NoWay /\ mem'[w].md = NoMd
    BY <2>2 DEF RawFrame
  <2> QED BY <2>2, <2>3, <2>4
<1>9. acc' = [acc EXCEPT !["wr"] = NoAcc]
  BY DEF CpuWrite
<1>10. ASSUME NEW loc, NEW q, q # p
       PROVE  /\ Holds(loc, q) => loc.way # w
              /\ Holds(loc, q) =>
                   /\ mem'[loc.way].iway = loc.way /\ mem'[loc.way].md.pg_vld[loc.slot]
                   /\ mem'[loc.way].md.page[loc.slot] = q /\ mem'[loc.way].slot[loc.slot] = q
  <2>1. Holds(loc, q) => loc.way # w
    BY <1>7, WayInverse DEF Holds
  <2> QED BY <1>8, <1>10, <2>1 DEF Holds
<1>11. Listed(r)'
  <2> SUFFICES ASSUME NEW f \in Entries, r[f] \in {"UNCOMP", "INCOMP"}
               PROVE  LET q == Owner(f)  v == WayOf(f)
                      IN  /\ q \in Pages
                          /\ \/ FutAtt[q] = [sts |-> r[f], loc |-> At(v, Frame)]
                             \/ Handed /\ q = ReqPage /\ v = vic.way
                          /\ \/ mem'[v].page = q
                             \/ Handed /\ q = ReqPage /\ v = vic.way
                             \/ Awaited /\ q = ReqPage
                             \/ Moving /\ q = VicPage /\ v = vic.way
    BY <1>1, <1>2, <1>3 DEF Listed
  <2>1. /\ Owner(f) \in Pages
        /\ \/ FutAtt[Owner(f)] = [sts |-> r[f], loc |-> At(WayOf(f), Frame)]
           \/ Handed /\ Owner(f) = ReqPage /\ WayOf(f) = vic.way
        /\ \/ mem[WayOf(f)].page = Owner(f)
           \/ Handed /\ Owner(f) = ReqPage /\ WayOf(f) = vic.way
           \/ Awaited /\ Owner(f) = ReqPage
           \/ Moving /\ Owner(f) = VicPage /\ WayOf(f) = vic.way
    BY <1>0 DEF Listed
  <2>2. WayOf(f) \in Ways /\ EntryOf(WayOf(f)) = f
    BY WayInverse
  <2>3. CASE WayOf(f) = w
    BY <1>6, <1>8, <2>1, <2>2, <2>3
  <2>4. CASE WayOf(f) # w
    <3>1. CASE Owner(f) = p
      <4>1. ~ (Handed /\ ReqPage = p)
        BY <1>0, <1>5 DEF Handed, OneManager
      <4>2. FutAtt[p].loc.way = WayOf(f)
        BY <2>1, <3>1, <4>1 DEF At
      <4> QED BY <1>5, <2>4, <4>2
    <3>2. CASE Owner(f) # p
      BY <1>8, <2>1, <2>2, <2>4, <3>2
    <3> QED BY <3>1, <3>2
  <2> QED BY <2>3, <2>4
<1>12. Packed'
  <2> SUFFICES ASSUME NEW q \in Pages, FutAtt[q].sts = "COMP"
               PROVE  Holds(FutAtt[q].loc, q)'
    BY <1>3 DEF Packed, Holds
  <2>1. Holds(FutAtt[q].loc, q) /\ q # p
    BY <1>0, <1>5 DEF Packed
  <2> QED BY ZenonT(60), <1>3, <1>10, <2>1 DEF Holds
<1>13. \A v \in Ways : mem'[v].md = mem[v].md /\ mem'[v].iway = mem[v].iway
  BY <1>7, <1>8
<1>14. SlotsOwned'
  <2> SUFFICES ASSUME NEW v \in Ways, NEW s \in Slots, mem'[v].md.pg_vld[s],
                      NEW q, q = mem'[v].md.page[s]
               PROVE  /\ q \in Pages
                      /\ \/ FutAtt[q] = [sts |-> "COMP", loc |-> At(v, s)]
                         \/ OldHeld /\ q = ReqPage /\ trnsl.loc = At(v, s)
                         \/ Written /\ q = VicPage /\ zpkt.dest = At(v, s)
    BY <1>1, <1>2, <1>3 DEF SlotsOwned
  <2>1. mem'[v].md = mem[v].md
    BY <1>13
  <2> QED BY <1>0, <2>1 DEF SlotsOwned
<1>15. WaysUsed(r)'
  <2> SUFFICES ASSUME NEW v \in Ways
               PROVE  /\ mem'[v].iway = NoWay => mem'[v].md = NoMd
                      /\ mem'[v].iway = NoWay <=>
                           (r[EntryOf(v)] # "OUT" /\ ~ (Prepared /\ v = vic.way))
    BY <1>1, <1>2 DEF WaysUsed
  <2> QED BY <1>0, <1>13 DEF WaysUsed
<1>16. Construction'
  <2>1. uc # NoWay => uc \in Ways
    BY <1>0 DEF TypeOK, CompType
  <2> QED BY <1>0, <1>2, <1>13, <2>1 DEF Construction
<1>17. FreeOnce(r)'
  BY <1>0, <1>2, <1>3 DEF FreeOnce
<1>18. Accesses'
  <2>1. \A c \in Chans : acc'[c] # NoAcc => acc'[c] = acc[c]
    <3>1. acc \in [Chans -> [page : PageOrNone, way : Ways \cup {NoWay}]]
      BY <1>0 DEF TypeOK, AccType
    <3> QED BY <1>9, <3>1
  <2> QED BY <1>0, <1>1, <1>2, <1>3, <2>1 DEF Accesses
<1>19. prm \in {"COMPRESS", "DECOMPRESS"} => p # ReqPage
  BY <1>5
<1>20. Request'
  <2>1. OldHeld /\ dec # "BUS_ERROR" => Holds(trnsl.loc, ReqPage)'
    <3> SUFFICES ASSUME OldHeld, dec # "BUS_ERROR" PROVE Holds(trnsl.loc, ReqPage)'
      OBVIOUS
    <3>1. Holds(trnsl.loc, ReqPage)
      BY <1>0 DEF Request
    <3>2. ReqPage # p
      BY <1>0, <1>19 DEF OldHeld, Given, Unpacking, OneManager
    <3> QED BY <1>1, <1>2, <1>10, <3>1, <3>2 DEF Holds
  <2>2. dec = "BUS_ERROR" => Holds(trnsl.loc, ReqPage)' \/ mem'[fw].page = ReqPage
    <3> SUFFICES ASSUME dec = "BUS_ERROR"
                 PROVE  Holds(trnsl.loc, ReqPage)' \/ mem'[fw].page = ReqPage
      OBVIOUS
    <3>1. ReqPage # p /\ prm = "DECOMPRESS"
      BY <1>0, <1>19 DEF OneManager
    <3>2. CASE Holds(trnsl.loc, ReqPage)
      BY <1>1, <1>2, <1>10, <3>1, <3>2 DEF Holds
    <3>3. CASE mem[fw].page = ReqPage
      <4>1. FutAtt[ReqPage] = [sts |-> "UNCOMP", loc |-> At(fw, Frame)] /\ ReqPage \in Pages
        BY <1>0, <3>1 DEF Request, LookupInv, ReqPage
      <4>2. fw \in Ways /\ Owner(EntryOf(fw)) = ReqPage
        BY <1>0, <4>1 DEF Frames, At
      <4>3. fw # w
        BY <1>6, <3>1, <4>2
      <4> QED BY <1>8, <3>1, <3>3, <4>2, <4>3
    <3> QED BY <1>0, <3>2, <3>3 DEF Request
  <2>3. dec' = dec
    BY <1>1
  <2> QED BY <1>0, <1>1, <1>2, <1>3, <2>1, <2>2, <2>3 DEF Request
<1>21. HandedOver(r)'
  <2>1. ASSUME NEW v \in Ways PROVE Owner(EntryOf(v))' = Owner(EntryOf(v))
    BY <1>3, WayInverse
  <2> QED BY <1>0, <1>1, <1>2, <2>1 DEF HandedOver
<1>22. FifoHolds'
  <2>1. cmp \in {"COMP_WAIT", "MIGRATE_TO_ZSPAGE", "PREP_ZSPAGE_MD"} => p # VicPage
    BY <1>5 DEF VictimHeld
  <2>2. dec # "IDLE" => p # ReqPage
    BY <1>0, <1>19 DEF OneManager
  <2>3. dec' = dec
    BY <1>1
  <2> QED BY <1>0, <1>1, <1>2, <1>8, <2>1, <2>2, <2>3 DEF FifoHolds
<1>23. PagePacket'
  <2>0. dec' = dec /\ zpkt' = zpkt
    BY <1>1
  <2>1. ASSUME cmp = "MIGRATE_TO_ZSPAGE", ~ zpkt.zspage_full, pwm # "WAIT_BRESP"
        PROVE  /\ zpkt.dest.way \in Ways /\ zpkt.dest.slot \in Slots
               /\ mem'[zpkt.dest.way].iway = zpkt.dest.way /\ zpkt.iWay_ptr = zpkt.dest.way
               /\ ~ mem'[zpkt.dest.way].md.pg_vld[zpkt.dest.slot]
               /\ zpkt.zsPgMd = Filled(mem'[zpkt.dest.way].md, zpkt.dest.slot, VicPage)
               /\ pwm = "ZS_PAGE_UPDATE" => mem'[zpkt.dest.way].slot[zpkt.dest.slot] = VicPage
    <3>1. /\ zpkt.dest.way \in Ways /\ zpkt.dest.slot \in Slots
          /\ mem[zpkt.dest.way].iway = zpkt.dest.way /\ zpkt.iWay_ptr = zpkt.dest.way
          /\ ~ mem[zpkt.dest.way].md.pg_vld[zpkt.dest.slot]
          /\ zpkt.zsPgMd = Filled(mem[zpkt.dest.way].md, zpkt.dest.slot, VicPage)
          /\ pwm = "ZS_PAGE_UPDATE" => mem[zpkt.dest.way].slot[zpkt.dest.slot] = VicPage
      BY <1>0, <2>1 DEF PagePacket
    <3>2. zpkt.dest.way # w
      BY <1>7, <3>1, WayInverse
    <3>3. p # VicPage
      BY <1>5, <2>1 DEF VictimHeld
    <3> QED BY <1>8, <3>1, <3>2, <3>3
  <2>2. ASSUME cmp = "PREP_ZSPAGE_MD", pwm # "IDLE"
        PROVE  /\ zpkt.dest = At(vic.way, 1) /\ zpkt.iWay_ptr = vic.way
               /\ zpkt.zsPgMd = Filled(NoMd, 1, VicPage)
               /\ pwm = "ZS_PAGE_UPDATE" => mem'[vic.way].slot[1] = VicPage
    <3>1. VictimHeld /\ p # VicPage
      BY <1>5, <2>2 DEF VictimHeld
    <3>2. vic.way \in Ways /\ Owner(EntryOf(vic.way)) = VicPage
      BY <3>1, VictimPlace
    <3>3. vic.way # w /\ 1 \in Slots
      BY <1>6, <3>1, <3>2 DEF Slots, MAX_PAGE_ZSPAGE
    <3> QED BY <1>0, <1>8, <2>2, <3>1, <3>2, <3>3 DEF PagePacket
  <2>3. Written => Holds(zpkt.dest, VicPage)'
    <3> SUFFICES ASSUME Written PROVE Holds(zpkt.dest, VicPage)'
      OBVIOUS
    <3>1. VictimHeld /\ cmp \notin {"BURST_READ", "POP_UCMP_PUSH_INCOMP"}
      BY DEF Written, VictimHeld
    <3>2. Holds(zpkt.dest, VicPage) /\ VicPage # p
      BY <1>0, <1>5, <3>1 DEF PagePacket
    <3>3. PICK loc, q : loc = zpkt.dest /\ q = VicPage
      OBVIOUS
    <3>4. Holds(loc, q) /\ q # p
      BY <3>2, <3>3
    <3>5. Holds(loc, q)'
      BY <1>10, <3>4 DEF Holds
    <3>6. loc = zpkt'.dest /\ q = VicPage'
      BY <1>1, <3>3
    <3> QED BY <3>5, <3>6 DEF Holds
  <2>4. ASSUME dec = "BURST_READ" \/ (dec = "DECOMP_WAIT" /\ pwm # "WAIT_BRESP")
        PROVE  /\ zpkt.iWay_ptr = trnsl.loc.way /\ zpkt.dest = At(fw, Frame)
               /\ zpkt.zsPgMd = ClearPage(mem'[trnsl.loc.way].md, ReqPage)
    <3>1. trnsl.loc.way \in Ways
      BY <2>4 DEF IInv, SlotInv, DecWay
    <3> QED BY <1>0, <1>13, <2>4, <3>1 DEF PagePacket
  <2>5. cmp = "UPDATE_ATT_POP_UCMP_HEAD" /\ pwm = "IDLE" => zpkt.dest = At(vic.way, 1)
    BY <1>0 DEF PagePacket
  <2> QED BY <1>1, <1>2, <2>0, <2>1, <2>2, <2>3, <2>4, <2>5 DEF PagePacket
<1>24. Jobs' /\ (prm' = "DECOMPRESS" => ~ free_entry_avail')
  BY <1>0, <1>2, JobsStep
<1> QED BY <1>3, <1>11, <1>12, <1>14, <1>15, <1>16, <1>17, <1>18, <1>20, <1>21, <1>22, <1>23, <1>24
        DEF Placed

(* What the page transfer leaves alone.                                    *)
LEMMA TransferControl ==
  ASSUME IInv, Jobs, PwmPageTransfer
  PROVE  /\ UNCHANGED <<tables, upd, zpkt, reader, comp, fifo, dec, acc>>
         /\ pwm = "CMPDCMP" /\ pwm' = "ZS_PAGE_UPDATE" /\ ~ Sending /\ init_list_done
         /\ \/ dec = "DECOMP_WAIT" /\ prm = "DECOMPRESS" /\ cmp = "IDLE"
            \/ cmp = "PREP_ZSPAGE_MD" /\ prm = "COMPRESS" /\ dec = "IDLE"
            \/ cmp = "MIGRATE_TO_ZSPAGE" /\ ~ zpkt.zspage_full /\ prm = "COMPRESS" /\ dec = "IDLE"
         /\ ~ Handed /\ ~ Handed' /\ ~ Given /\ ~ Given' /\ ~ Prepared /\ ~ Prepared'
         /\ ~ Written /\ ~ Written' /\ (OldHeld' <=> OldHeld) /\ ~ Moving
         /\ (VictimHeld' <=> VictimHeld)
         /\ ReqPage' = ReqPage /\ VicPage' = VicPage
BY DEF PwmPageTransfer, Sending, Handed, OldHeld, Written, Prepared, Given, Unpacking, Moving,
       VictimHeld, ReqPage, VicPage, comp, reader, IInv, OneManager, Jobs, init_list_done, TolStates

(* A transfer that keeps the metadata and the valid slots of every way.    *)
LEMMA TransferKeeps ==
  ASSUME NEW r, NEW k, IInv, ListInv(r, k), Placed(r), Next, PwmPageTransfer,
         \A v \in Ways : /\ mem'[v].md = mem[v].md /\ mem'[v].iway = mem[v].iway
                         /\ mem[v].iway = v =>
                              \A s \in Slots : mem[v].md.pg_vld[s] =>
                                mem'[v].slot[s] = mem[v].slot[s]
  PROVE  /\ Frames(r)' /\ Packed' /\ SlotsOwned' /\ WaysUsed(r)' /\ Construction'
         /\ FreeOnce(r)' /\ Accesses' /\ Request' /\ HandedOver(r)' /\ FifoHolds' /\ Jobs'
         /\ (prm' = "DECOMPRESS" => ~ free_entry_avail') /\ ListInv(r, k)'
         /\ FutAtt' = FutAtt /\ (\A f \in Entries : Owner(f)' = Owner(f))
<1>0. /\ TypeOK /\ OneManager /\ LookupInv /\ Request /\ Jobs /\ AllocKnown
      /\ Frames(r) /\ Packed /\ SlotsOwned /\ WaysUsed(r) /\ Construction
      /\ FreeOnce(r) /\ Accesses /\ FifoHolds
      /\ (prm = "DECOMPRESS" => ~ free_entry_avail)
  BY DEF Placed, IInv, ListInv
<1>1. /\ UNCHANGED <<tables, upd, zpkt, reader, comp, fifo, dec, acc>>
      /\ pwm = "CMPDCMP" /\ pwm' = "ZS_PAGE_UPDATE" /\ ~ Sending /\ init_list_done
      /\ \/ dec = "DECOMP_WAIT" /\ prm = "DECOMPRESS" /\ cmp = "IDLE"
         \/ cmp = "PREP_ZSPAGE_MD" /\ prm = "COMPRESS" /\ dec = "IDLE"
         \/ cmp = "MIGRATE_TO_ZSPAGE" /\ ~ zpkt.zspage_full /\ prm = "COMPRESS" /\ dec = "IDLE"
      /\ ~ Handed /\ ~ Handed' /\ ~ Given /\ ~ Given' /\ ~ Prepared /\ ~ Prepared'
      /\ ~ Written /\ ~ Written' /\ (OldHeld' <=> OldHeld) /\ ~ Moving
      /\ (VictimHeld' <=> VictimHeld)
      /\ ReqPage' = ReqPage /\ VicPage' = VicPage
  BY <1>0, TransferControl
<1>2. UNCHANGED <<prm, req, trnsl, fw, free_entry_avail, alloc, cmp, vic, uc, dec, acc, fifo, zpkt>>
  BY <1>1 DEF reader, comp
<1>3. /\ FutAtt' = FutAtt /\ (\A f \in Entries : Owner(f)' = Owner(f))
      /\ ListInv(r, k)' /\ Frames(r)'
  BY <1>0, <1>1, TablesStay
<1>4. \A v \in Ways : mem'[v].md = mem[v].md /\ mem'[v].iway = mem[v].iway
  OBVIOUS
<1>5. ASSUME NEW loc, NEW q, Holds(loc, q)
      PROVE  /\ loc.way \in Ways /\ loc.slot \in Slots
             /\ mem'[loc.way].iway = loc.way /\ mem'[loc.way].md.pg_vld[loc.slot]
             /\ mem'[loc.way].md.page[loc.slot] = q /\ mem'[loc.way].slot[loc.slot] = q
  BY <1>5 DEF Holds
<1>6. Packed'
  <2> SUFFICES ASSUME NEW q \in Pages, FutAtt[q].sts = "COMP" PROVE Holds(FutAtt[q].loc, q)'
    BY <1>3 DEF Packed, Holds
  <2>1. Holds(FutAtt[q].loc, q)
    BY <1>0 DEF Packed
  <2> QED BY ZenonT(60), <1>3, <1>5, <2>1 DEF Holds
<1>7. SlotsOwned'
  <2> SUFFICES ASSUME NEW v \in Ways, NEW s \in Slots, mem'[v].md.pg_vld[s],
                      NEW q, q = mem'[v].md.page[s]
               PROVE  /\ q \in Pages
                      /\ \/ FutAtt[q] = [sts |-> "COMP", loc |-> At(v, s)]
                         \/ OldHeld /\ q = ReqPage /\ trnsl.loc = At(v, s)
    BY <1>1, <1>2, <1>3 DEF SlotsOwned
  <2> QED BY <1>0, <1>1, <1>4 DEF SlotsOwned
<1>8. WaysUsed(r)'
  <2> SUFFICES ASSUME NEW v \in Ways
               PROVE  /\ mem'[v].iway = NoWay => mem'[v].md = NoMd
                      /\ mem'[v].iway = NoWay <=> r[EntryOf(v)] # "OUT"
    BY <1>1, <1>2 DEF WaysUsed
  <2> QED BY <1>0, <1>1, <1>4 DEF WaysUsed
<1>9. Construction'
  <2>1. uc # NoWay => uc \in Ways
    BY <1>0 DEF TypeOK, CompType
  <2> QED BY <1>0, <1>1, <1>2, <1>4, <2>1 DEF Construction
<1>10. FreeOnce(r)'
  BY <1>0, <1>2, <1>3 DEF FreeOnce
<1>11. Accesses'
  BY <1>0, <1>1, <1>2, <1>3 DEF Accesses
<1>12. Request'
  <2>1. OldHeld' => Holds(trnsl.loc, ReqPage)'
    <3> SUFFICES ASSUME OldHeld PROVE Holds(trnsl.loc, ReqPage)'
      BY <1>1
    <3>1. Holds(trnsl.loc, ReqPage)
      BY <1>0, <1>1 DEF Request
    <3> QED BY <1>1, <1>2, <1>5, <3>1 DEF Holds
  <2>2. dec' # "BUS_ERROR" /\ dec' # "NO_IWAY"
    BY <1>1
  <2> QED BY <1>0, <1>1, <1>2, <1>3, <2>1, <2>2 DEF Request
<1>13. HandedOver(r)'
  BY <1>1 DEF HandedOver
<1>14. FifoHolds'
  BY <1>0, <1>1, <1>2 DEF FifoHolds
<1>15. Jobs' /\ (prm' = "DECOMPRESS" => ~ free_entry_avail')
  BY <1>0, <1>2, JobsStep
<1> QED BY <1>3, <1>6, <1>7, <1>8, <1>9, <1>10, <1>11, <1>12, <1>13, <1>14, <1>15

(* The victim goes to a slot of an existing zspage.                        *)
LEMMA MigratePlaced ==
  ASSUME NEW r, NEW k, IInv, ListInv(r, k), Placed(r), Next, PwmPageTransfer,
         cmp = "MIGRATE_TO_ZSPAGE", NEW w, w = zpkt.dest.way, NEW t, t = zpkt.dest.slot
  PROVE  Placed(r)' /\ ListInv(r, k)'
<1>0. /\ TypeOK /\ Jobs /\ Listed(r) /\ WaysUsed(r) /\ FifoHolds /\ PagePacket
  BY DEF Placed, IInv
<1>1. /\ UNCHANGED <<tables, upd, zpkt, reader, comp, fifo, dec, acc>>
      /\ pwm = "CMPDCMP" /\ pwm' = "ZS_PAGE_UPDATE" /\ ~ Sending
      /\ ~ zpkt.zspage_full /\ prm = "COMPRESS" /\ dec = "IDLE"
      /\ ~ Handed /\ ~ Given /\ ~ Prepared /\ ~ Moving /\ ~ Written' /\ VicPage' = VicPage
  BY <1>0, TransferControl
<1>2. UNCHANGED <<prm, req, trnsl, fw, cmp, vic, uc, dec, acc, fifo, zpkt>>
  BY <1>1 DEF reader, comp
<1>3. /\ w \in Ways /\ t \in Slots /\ mem[w].iway = w /\ zpkt.iWay_ptr = w
      /\ ~ mem[w].md.pg_vld[t] /\ zpkt.zsPgMd = Filled(mem[w].md, t, VicPage)
      /\ fifo = VicPage
  BY <1>0, <1>1 DEF PagePacket, FifoHolds
<1>4. /\ mem'[w].md = mem[w].md /\ mem'[w].iway = mem[w].iway /\ mem'[w].slot[t] = fifo
      /\ \A s \in Slots \ {t} : mem'[w].slot[s] = mem[w].slot[s]
      /\ \A v \in Ways \ {w} : mem'[v] = mem[v]
  <2>1. mem \in [Ways -> MemWay]
    BY <1>0 DEF TypeOK, MemType
  <2>2. PICK m : m = mem[w]
    OBVIOUS
  <2>3. m \in MemWay
    BY <1>3, <2>1, <2>2
  <2>4. mem'[w] = [m EXCEPT !.page = NoPage, !.slot[t] = fifo]
        /\ \A v \in Ways \ {w} : mem'[v] = mem[v]
    BY <1>1, <1>3, <2>1, <2>2 DEF PwmPageTransfer
  <2>5. /\ mem'[w].md = m.md /\ mem'[w].iway = m.iway /\ mem'[w].slot = [m.slot EXCEPT ![t] = fifo]
    BY <2>3, <2>4 DEF MemWay
  <2> QED BY <1>3, <2>2, <2>3, <2>4, <2>5 DEF MemWay
<1>5. \A v \in Ways : /\ mem'[v].md = mem[v].md /\ mem'[v].iway = mem[v].iway
                      /\ mem[v].iway = v =>
                           \A s \in Slots : mem[v].md.pg_vld[s] =>
                             mem'[v].slot[s] = mem[v].slot[s]
  BY <1>3, <1>4
<1>6. /\ Frames(r)' /\ Packed' /\ SlotsOwned' /\ WaysUsed(r)' /\ Construction'
      /\ FreeOnce(r)' /\ Accesses' /\ Request' /\ HandedOver(r)' /\ FifoHolds' /\ Jobs'
      /\ (prm' = "DECOMPRESS" => ~ free_entry_avail') /\ ListInv(r, k)'
      /\ FutAtt' = FutAtt /\ (\A f \in Entries : Owner(f)' = Owner(f))
  BY <1>5, TransferKeeps
<1>7. Listed(r)'
  <2> SUFFICES ASSUME NEW f \in Entries, r[f] \in {"UNCOMP", "INCOMP"}
               PROVE  /\ Owner(f) \in Pages
                      /\ FutAtt[Owner(f)] = [sts |-> r[f], loc |-> At(WayOf(f), Frame)]
                      /\ mem'[WayOf(f)].page = Owner(f)
    BY <1>6 DEF Listed
  <2>1. ~ Awaited
    BY <1>1 DEF Awaited, Unpacking
  <2>2. WayOf(f) \in Ways /\ EntryOf(WayOf(f)) = f /\ NoWay \notin Ways
    BY WayInverse
  <2>3. WayOf(f) # w
    BY <1>0, <1>1, <1>3, <2>2 DEF WaysUsed
  <2> QED BY <1>0, <1>1, <1>4, <2>1, <2>2, <2>3 DEF Listed
<1>8. PagePacket'
  <2>1. ~ (dec' = "BURST_READ" \/ (dec' = "DECOMP_WAIT" /\ pwm' # "WAIT_BRESP"))
        /\ cmp' = "MIGRATE_TO_ZSPAGE" /\ ~ Written'
    BY <1>1, <1>2
  <2>2. /\ zpkt'.dest.way = w /\ zpkt'.dest.slot = t
        /\ w \in Ways /\ t \in Slots /\ mem'[w].iway = w /\ zpkt'.iWay_ptr = w
        /\ ~ mem'[w].md.pg_vld[t]
        /\ zpkt'.zsPgMd = Filled(mem'[w].md, t, VicPage')
        /\ mem'[w].slot[t] = VicPage'
    BY <1>1, <1>2, <1>3, <1>4
  <2> QED BY <2>1, <2>2 DEF PagePacket
<1> QED BY <1>6, <1>7, <1>8 DEF Placed

(* The victim goes to the first slot of its own way, a new zspage.         *)
LEMMA PrepPlaced ==
  ASSUME NEW r, NEW k, IInv, ListInv(r, k), Placed(r), Next, PwmPageTransfer,
         cmp = "PREP_ZSPAGE_MD", NEW w, w = vic.way
  PROVE  Placed(r)' /\ ListInv(r, k)'
<1>0. /\ TypeOK /\ Jobs /\ Listed(r) /\ WaysUsed(r) /\ FifoHolds /\ PagePacket
  BY DEF Placed, IInv
<1>1. /\ UNCHANGED <<tables, upd, zpkt, reader, comp, fifo, dec, acc>>
      /\ pwm = "CMPDCMP" /\ pwm' = "ZS_PAGE_UPDATE" /\ ~ Sending
      /\ prm = "COMPRESS" /\ dec = "IDLE"
      /\ ~ Handed /\ ~ Given /\ ~ Prepared /\ ~ Moving /\ ~ Written' /\ VicPage' = VicPage
  BY <1>0, TransferControl
<1>2. UNCHANGED <<prm, req, trnsl, fw, cmp, vic, uc, dec, acc, fifo, zpkt>>
  BY <1>1 DEF reader, comp
<1>3. /\ w \in Ways /\ r[EntryOf(w)] = "UNCOMP" /\ Owner(EntryOf(w)) = VicPage
  BY VictimPlace DEF VictimHeld
<1>4. /\ zpkt.dest = At(w, 1) /\ zpkt.iWay_ptr = w /\ zpkt.zsPgMd = Filled(NoMd, 1, VicPage)
      /\ fifo = VicPage /\ mem[w].iway = NoWay /\ 1 \in Slots
  BY <1>0, <1>1, <1>3 DEF PagePacket, FifoHolds, WaysUsed, Slots, MAX_PAGE_ZSPAGE
<1>5. /\ mem'[w].md = mem[w].md /\ mem'[w].iway = mem[w].iway /\ mem'[w].slot[1] = fifo
      /\ \A v \in Ways \ {w} : mem'[v] = mem[v]
  <2>1. mem \in [Ways -> MemWay]
    BY <1>0 DEF TypeOK, MemType
  <2>2. PICK m : m = mem[w]
    OBVIOUS
  <2>3. m \in MemWay
    BY <1>3, <2>1, <2>2
  <2>0. zpkt.dest.way = w /\ zpkt.dest.slot = 1
    BY <1>4 DEF At
  <2>4. mem'[w] = [m EXCEPT !.page = NoPage, !.slot[1] = fifo]
        /\ \A v \in Ways \ {w} : mem'[v] = mem[v]
    BY <1>1, <1>3, <2>0, <2>1, <2>2 DEF PwmPageTransfer
  <2>5. /\ mem'[w].md = m.md /\ mem'[w].iway = m.iway /\ mem'[w].slot = [m.slot EXCEPT ![1] = fifo]
    BY <2>3, <2>4 DEF MemWay
  <2> QED BY <1>4, <2>2, <2>3, <2>4, <2>5 DEF MemWay
<1>6. /\ Frames(r)' /\ Packed' /\ SlotsOwned' /\ WaysUsed(r)' /\ Construction'
      /\ FreeOnce(r)' /\ Accesses' /\ Request' /\ HandedOver(r)' /\ FifoHolds' /\ Jobs'
      /\ (prm' = "DECOMPRESS" => ~ free_entry_avail') /\ ListInv(r, k)'
      /\ FutAtt' = FutAtt /\ (\A f \in Entries : Owner(f)' = Owner(f))
  <2>1. \A v \in Ways : /\ mem'[v].md = mem[v].md /\ mem'[v].iway = mem[v].iway
                        /\ mem[v].iway = v =>
                             \A s \in Slots : mem[v].md.pg_vld[s] =>
                               mem'[v].slot[s] = mem[v].slot[s]
    BY <1>4, <1>5, WayInverse
  <2> QED BY <2>1, TransferKeeps
<1>7. Moving' /\ vic'.way = w
  BY <1>1, <1>2 DEF Moving
<1>8. Listed(r)'
  <2> SUFFICES ASSUME NEW f \in Entries, r[f] \in {"UNCOMP", "INCOMP"}
               PROVE  /\ Owner(f) \in Pages
                      /\ FutAtt[Owner(f)] = [sts |-> r[f], loc |-> At(WayOf(f), Frame)]
                      /\ \/ mem'[WayOf(f)].page = Owner(f)
                         \/ Owner(f) = VicPage /\ WayOf(f) = w
    BY <1>1, <1>6, <1>7 DEF Listed
  <2>1. ~ Awaited
    BY <1>1 DEF Awaited, Unpacking
  <2>2. WayOf(f) \in Ways /\ EntryOf(WayOf(f)) = f
    BY WayInverse
  <2> QED BY <1>0, <1>1, <1>3, <1>5, <2>1, <2>2 DEF Listed
<1>9. PagePacket'
  <2>1. ~ (dec' = "BURST_READ" \/ (dec' = "DECOMP_WAIT" /\ pwm' # "WAIT_BRESP"))
        /\ cmp' = "PREP_ZSPAGE_MD" /\ ~ Written'
    BY <1>1, <1>2
  <2>2. /\ vic'.way = w /\ zpkt'.dest = At(w, 1) /\ zpkt'.iWay_ptr = w
        /\ zpkt'.zsPgMd = Filled(NoMd, 1, VicPage') /\ mem'[w].slot[1] = VicPage'
    BY <1>1, <1>2, <1>4, <1>5
  <2> QED BY <2>1, <2>2 DEF PagePacket
<1> QED BY <1>6, <1>8, <1>9 DEF Placed

(* A decompressed page goes to the way found for it.                       *)
LEMMA UnpackPlaced ==
  ASSUME NEW r, NEW k, IInv, ListInv(r, k), Placed(r), Next, PwmPageTransfer,
         prm = "DECOMPRESS", NEW w, w = fw
  PROVE  Placed(r)' /\ ListInv(r, k)'
<1>0. /\ TypeOK /\ LookupInv /\ Jobs /\ Listed(r) /\ Frames(r) /\ WaysUsed(r) /\ FifoHolds
      /\ PagePacket /\ Request
  BY DEF Placed, IInv
<1>1. /\ UNCHANGED <<tables, upd, zpkt, reader, comp, fifo, dec, acc>>
      /\ pwm = "CMPDCMP" /\ pwm' = "ZS_PAGE_UPDATE" /\ ~ Sending
      /\ dec = "DECOMP_WAIT" /\ cmp = "IDLE"
      /\ ~ Handed /\ ~ Given /\ ~ Prepared /\ ~ Moving /\ ~ Written' /\ ReqPage' = ReqPage
  BY <1>0, TransferControl
<1>2. UNCHANGED <<prm, req, trnsl, fw, cmp, vic, uc, dec, acc, fifo, zpkt>>
  BY <1>1 DEF reader, comp
<1>3. /\ FutAtt[ReqPage] = [sts |-> "UNCOMP", loc |-> At(w, Frame)] /\ ReqPage \in Pages
      /\ zpkt.iWay_ptr = trnsl.loc.way /\ zpkt.dest = At(w, Frame)
      /\ zpkt.zsPgMd = ClearPage(mem[trnsl.loc.way].md, ReqPage) /\ fifo = ReqPage
  BY <1>0, <1>1 DEF Request, LookupInv, ReqPage, PagePacket, FifoHolds
<1>4. w \in Ways /\ r[EntryOf(w)] = "UNCOMP" /\ Owner(EntryOf(w)) = ReqPage
  BY <1>0, <1>3 DEF Frames, At
<1>5. mem[w].iway = NoWay /\ mem[w].md = NoMd
  BY <1>0, <1>1, <1>4 DEF WaysUsed
<1>6. /\ mem'[w].md = NoMd /\ mem'[w].iway = NoWay /\ mem'[w].page = ReqPage
      /\ \A v \in Ways \ {w} : mem'[v] = mem[v]
  <2>1. mem \in [Ways -> MemWay]
    BY <1>0 DEF TypeOK, MemType
  <2>2. zpkt.dest.way = w
    BY <1>3 DEF At
  <2>3. mem'[w] = RawFrame(fifo) /\ \A v \in Ways \ {w} : mem'[v] = mem[v]
    BY <1>4, <2>1, <2>2 DEF PwmPageTransfer
  <2> QED BY <1>3, <2>3 DEF RawFrame
<1>7. /\ Frames(r)' /\ Packed' /\ SlotsOwned' /\ WaysUsed(r)' /\ Construction'
      /\ FreeOnce(r)' /\ Accesses' /\ Request' /\ HandedOver(r)' /\ FifoHolds' /\ Jobs'
      /\ (prm' = "DECOMPRESS" => ~ free_entry_avail') /\ ListInv(r, k)'
      /\ FutAtt' = FutAtt /\ (\A f \in Entries : Owner(f)' = Owner(f))
  <2>1. \A v \in Ways : /\ mem'[v].md = mem[v].md /\ mem'[v].iway = mem[v].iway
                        /\ mem[v].iway = v =>
                             \A s \in Slots : mem[v].md.pg_vld[s] =>
                               mem'[v].slot[s] = mem[v].slot[s]
    BY <1>4, <1>5, <1>6, WayInverse
  <2> QED BY <2>1, TransferKeeps
<1>8. Listed(r)'
  <2> SUFFICES ASSUME NEW f \in Entries, r[f] \in {"UNCOMP", "INCOMP"}
               PROVE  /\ Owner(f) \in Pages
                      /\ FutAtt[Owner(f)] = [sts |-> r[f], loc |-> At(WayOf(f), Frame)]
                      /\ mem'[WayOf(f)].page = Owner(f)
    BY <1>7 DEF Listed
  <2>1. /\ Owner(f) \in Pages
        /\ FutAtt[Owner(f)] = [sts |-> r[f], loc |-> At(WayOf(f), Frame)]
        /\ mem[WayOf(f)].page = Owner(f) \/ Owner(f) = ReqPage
    BY <1>0, <1>1 DEF Listed
  <2>2. WayOf(f) \in Ways /\ EntryOf(WayOf(f)) = f
    BY WayInverse
  <2>3. Owner(f) = ReqPage => WayOf(f) = w
    BY <1>3, <2>1 DEF At
  <2> QED BY <1>4, <1>6, <2>1, <2>2, <2>3
<1>9. PagePacket'
  <2>1. dec' = "DECOMP_WAIT" /\ cmp' = "IDLE" /\ ~ Written'
    BY <1>1, <1>2
  <2>2. trnsl.loc.way \in Ways
    BY <1>1 DEF IInv, SlotInv, DecWay
  <2>3. mem'[trnsl.loc.way].md = mem[trnsl.loc.way].md
    BY <1>5, <1>6, <2>2
  <2>4. /\ zpkt'.iWay_ptr = trnsl'.loc.way /\ zpkt'.dest = At(fw', Frame)
        /\ zpkt'.zsPgMd = ClearPage(mem'[trnsl'.loc.way].md, ReqPage')
    BY <1>1, <1>2, <1>3, <2>3
  <2> QED BY <2>1, <2>4 DEF PagePacket
<1> QED BY <1>7, <1>8, <1>9 DEF Placed

(* The writer has written the page from the FIFO.                          *)
LEMMA TransferPlaced ==
  ASSUME NEW r, NEW k, IInv, ListInv(r, k), Placed(r), Next, PwmPageTransfer
  PROVE  Placed(r)' /\ ListInv(r, k)'
<1>1. \/ dec = "DECOMP_WAIT" /\ prm = "DECOMPRESS"
      \/ cmp = "PREP_ZSPAGE_MD" \/ cmp = "MIGRATE_TO_ZSPAGE"
  BY TransferControl DEF Placed
<1> QED BY <1>1, MigratePlaced, PrepPlaced, UnpackPlaced

(* What the metadata write leaves alone.                                   *)
LEMMA MetadataControl ==
  ASSUME IInv, Jobs, PwmZsPageUpdate
  PROVE  /\ UNCHANGED <<tables, upd, zpkt, reader, comp, fifo, dec, acc>>
         /\ pwm = "ZS_PAGE_UPDATE" /\ pwm' = "WAIT_BRESP" /\ ~ Sending /\ init_list_done
         /\ \/ dec = "DECOMP_WAIT" /\ prm = "DECOMPRESS" /\ cmp = "IDLE"
            \/ cmp = "PREP_ZSPAGE_MD" /\ prm = "COMPRESS" /\ dec = "IDLE"
            \/ cmp = "MIGRATE_TO_ZSPAGE" /\ ~ zpkt.zspage_full /\ prm = "COMPRESS" /\ dec = "IDLE"
         /\ ~ Handed /\ ~ Handed' /\ ~ Given /\ ~ Given' /\ ~ Awaited /\ ~ Awaited'
         /\ ~ Prepared /\ (Prepared' <=> cmp = "PREP_ZSPAGE_MD")
         /\ ~ Written /\ (Written' <=> cmp # "IDLE") /\ (OldHeld <=> cmp = "IDLE") /\ ~ OldHeld'
         /\ (Moving <=> cmp = "PREP_ZSPAGE_MD") /\ (Moving' <=> Moving)
         /\ (VictimHeld' <=> VictimHeld) /\ (VictimHeld <=> cmp # "IDLE")
         /\ ReqPage' = ReqPage /\ VicPage' = VicPage
BY DEF PwmZsPageUpdate, Sending, Handed, OldHeld, Written, Prepared, Given, Unpacking, Moving,
       Awaited, VictimHeld, ReqPage, VicPage, comp, reader, IInv, OneManager, Jobs,
       init_list_done, TolStates

(* The metadata line is written: slots it calls valid keep their contents. *)
LEMMA MetadataWritten ==
  ASSUME IInv, PwmZsPageUpdate, NEW w \in Ways, w = zpkt.iWay_ptr, NEW z, z = zpkt.zsPgMd
  PROVE  /\ mem'[w].iway = w /\ mem'[w].md = z
         /\ \A s \in Slots : z.pg_vld[s] => mem'[w].slot[s] = mem[w].slot[s]
         /\ \A v \in Ways \ {w} : mem'[v] = mem[v]
<1>1. mem \in [Ways -> MemWay]
  BY DEF IInv, TypeOK, MemType
<1>2. PICK m : m = mem[w]
  OBVIOUS
<1>3. /\ mem'[w] = [page |-> NoPage,
                    slot |-> [s \in Slots |-> IF z.pg_vld[s] THEN m.slot[s] ELSE NoPage],
                    iway |-> w, md |-> z]
      /\ \A v \in Ways \ {w} : mem'[v] = mem[v]
  BY <1>1, <1>2 DEF PwmZsPageUpdate
<1> QED BY <1>2, <1>3

(* What a metadata write does not touch.                                   *)
LEMMA MetadataKeeps ==
  ASSUME NEW r, NEW k, IInv, ListInv(r, k), Placed(r), Next, PwmZsPageUpdate,
         NEW w \in Ways, w = zpkt.iWay_ptr
  PROVE  /\ Frames(r)' /\ Construction' /\ FreeOnce(r)' /\ Accesses' /\ Request'
         /\ HandedOver(r)' /\ FifoHolds' /\ Jobs'
         /\ (prm' = "DECOMPRESS" => ~ free_entry_avail') /\ ListInv(r, k)'
         /\ FutAtt' = FutAtt /\ (\A f \in Entries : Owner(f)' = Owner(f))
<1>0. /\ TypeOK /\ OneManager /\ LookupInv /\ Request /\ Jobs /\ AllocKnown
      /\ Frames(r) /\ Construction /\ FreeOnce(r) /\ Accesses /\ FifoHolds /\ PagePacket
      /\ (prm = "DECOMPRESS" => ~ free_entry_avail)
  BY DEF Placed, IInv, ListInv
<1>1. /\ UNCHANGED <<tables, upd, zpkt, reader, comp, fifo, dec, acc>>
      /\ pwm = "ZS_PAGE_UPDATE" /\ pwm' = "WAIT_BRESP" /\ ~ Sending /\ init_list_done
      /\ \/ dec = "DECOMP_WAIT" /\ prm = "DECOMPRESS" /\ cmp = "IDLE"
         \/ cmp = "PREP_ZSPAGE_MD" /\ prm = "COMPRESS" /\ dec = "IDLE"
         \/ cmp = "MIGRATE_TO_ZSPAGE" /\ ~ zpkt.zspage_full /\ prm = "COMPRESS" /\ dec = "IDLE"
      /\ ~ Handed' /\ ~ Given /\ ~ Given' /\ ~ OldHeld'
      /\ (VictimHeld' <=> VictimHeld) /\ ReqPage' = ReqPage /\ VicPage' = VicPage
  BY <1>0, MetadataControl
<1>2. UNCHANGED <<prm, req, trnsl, fw, free_entry_avail, alloc, cmp, vic, uc, dec, acc, fifo, zpkt>>
  BY <1>1 DEF reader, comp
<1>3. /\ FutAtt' = FutAtt /\ (\A f \in Entries : Owner(f)' = Owner(f))
      /\ ListInv(r, k)' /\ Frames(r)'
  BY <1>0, <1>1, TablesStay
<1>4. Construction'
  <2> SUFFICES ASSUME uc # NoWay PROVE mem'[uc].iway = uc
    BY <1>2 DEF Construction
  <2>1. uc \in Ways
    BY <1>0 DEF TypeOK, CompType
  <2>2. mem'[w].iway = w /\ \A v \in Ways \ {w} : mem'[v] = mem[v]
    BY MetadataWritten
  <2>3. mem[uc].iway = uc \/ uc = w
    BY <1>0, <1>1 DEF Construction, PagePacket
  <2> QED BY <2>1, <2>2, <2>3
<1>5. FreeOnce(r)'
  BY <1>0, <1>2, <1>3 DEF FreeOnce
<1>6. Accesses'
  BY <1>0, <1>1, <1>2, <1>3 DEF Accesses
<1>7. Request'
  <2>1. dec' # "BUS_ERROR" /\ dec' # "NO_IWAY"
    BY <1>1
  <2> QED BY <1>0, <1>1, <1>2, <1>3, <2>1 DEF Request
<1>8. HandedOver(r)'
  BY <1>1 DEF HandedOver
<1>9. FifoHolds'
  BY <1>0, <1>1, <1>2 DEF FifoHolds
<1>10. Jobs' /\ (prm' = "DECOMPRESS" => ~ free_entry_avail')
  BY <1>0, <1>2, JobsStep
<1> QED BY <1>3, <1>4, <1>5, <1>6, <1>7, <1>8, <1>9, <1>10

(* The zspage that took the victim records it.                             *)
LEMMA MigratedPlaced ==
  ASSUME NEW r, NEW k, IInv, ListInv(r, k), Placed(r), Next, PwmZsPageUpdate,
         cmp = "MIGRATE_TO_ZSPAGE", NEW w, w = zpkt.dest.way, NEW t, t = zpkt.dest.slot,
         NEW z, z = zpkt.zsPgMd, NEW p, p = VicPage
  PROVE  Placed(r)' /\ ListInv(r, k)'
<1>0. /\ TypeOK /\ Jobs /\ Listed(r) /\ WaysUsed(r) /\ Packed /\ SlotsOwned /\ PagePacket
  BY DEF Placed, IInv
<1>1. /\ UNCHANGED <<tables, upd, zpkt, reader, comp, fifo, dec, acc>>
      /\ pwm = "ZS_PAGE_UPDATE" /\ pwm' = "WAIT_BRESP" /\ ~ zpkt.zspage_full
      /\ dec = "IDLE" /\ ~ Awaited /\ ~ Handed /\ ~ Prepared /\ ~ Prepared'
      /\ ~ Written /\ Written' /\ ~ OldHeld /\ ~ OldHeld' /\ ~ Moving /\ ~ Moving' /\ VictimHeld
      /\ VicPage' = VicPage
  BY <1>0, MetadataControl
<1>2. UNCHANGED <<prm, req, trnsl, fw, cmp, vic, uc, dec, acc, fifo, zpkt>>
  BY <1>1 DEF reader, comp
<1>3. /\ w \in Ways /\ t \in Slots /\ mem[w].iway = w /\ zpkt.iWay_ptr = w
      /\ ~ mem[w].md.pg_vld[t] /\ z = Filled(mem[w].md, t, p) /\ mem[w].slot[t] = p
  BY <1>0, <1>1 DEF PagePacket
<1>4. p \in Pages /\ zpkt.dest = At(w, t)
  <2>1. zpkt.dest \in Loc
    BY <1>0 DEF TypeOK, ZsPkt
  <2> QED BY <1>1, <2>1, VictimPlace DEF Loc, At
<1>5. /\ Frames(r)' /\ Construction' /\ FreeOnce(r)' /\ Accesses' /\ Request'
      /\ HandedOver(r)' /\ FifoHolds' /\ Jobs'
      /\ (prm' = "DECOMPRESS" => ~ free_entry_avail') /\ ListInv(r, k)'
      /\ FutAtt' = FutAtt /\ (\A f \in Entries : Owner(f)' = Owner(f))
  BY <1>3, MetadataKeeps
<1>6. /\ z.pg_vld[t] /\ z.page[t] = p
      /\ \A s \in Slots \ {t} : z.pg_vld[s] = mem[w].md.pg_vld[s] /\ z.page[s] = mem[w].md.page[s]
  <2>1. mem \in [Ways -> MemWay]
    BY <1>0 DEF TypeOK, MemType
  <2>2. mem[w].md \in ZsPg_Md
    BY <1>3, <2>1 DEF MemWay
  <2>3. PICK m : m = mem[w].md
    OBVIOUS
  <2>4. /\ m.pg_vld \in [Slots -> BOOLEAN] /\ m.page \in [Slots -> PageOrNone]
        /\ z = [pg_vld |-> [m.pg_vld EXCEPT ![t] = TRUE], page |-> [m.page EXCEPT ![t] = p]]
    BY <1>3, <2>2, <2>3 DEF Filled, ZsPg_Md
  <2>5. z.pg_vld = [m.pg_vld EXCEPT ![t] = TRUE] /\ z.page = [m.page EXCEPT ![t] = p]
    BY <2>4
  <2> QED BY <1>3, <2>3, <2>4, <2>5
<1>7. /\ mem'[w].iway = w /\ mem'[w].md = z
      /\ \A s \in Slots : z.pg_vld[s] => mem'[w].slot[s] = mem[w].slot[s]
      /\ \A v \in Ways \ {w} : mem'[v] = mem[v]
  BY <1>3, MetadataWritten
<1>8. Listed(r)'
  <2> SUFFICES ASSUME NEW f \in Entries, r[f] \in {"UNCOMP", "INCOMP"}
               PROVE  /\ Owner(f) \in Pages
                      /\ FutAtt[Owner(f)] = [sts |-> r[f], loc |-> At(WayOf(f), Frame)]
                      /\ mem'[WayOf(f)].page = Owner(f)
    BY <1>5 DEF Listed
  <2>1. WayOf(f) \in Ways /\ EntryOf(WayOf(f)) = f /\ NoWay \notin Ways
    BY WayInverse
  <2>2. WayOf(f) # w
    BY <1>0, <1>1, <1>3, <2>1 DEF WaysUsed
  <2> QED BY <1>0, <1>1, <1>7, <2>1, <2>2 DEF Listed
<1>9. Packed'
  <2> SUFFICES ASSUME NEW q \in Pages, FutAtt[q].sts = "COMP" PROVE Holds(FutAtt[q].loc, q)'
    BY <1>5 DEF Packed, Holds
  <2>1. PICK loc : loc = FutAtt[q].loc
    OBVIOUS
  <2>2. Holds(loc, q)
    BY <1>0, <2>1 DEF Packed
  <2>3. ~ (loc.way = w /\ loc.slot = t)
    BY <1>3, <2>2 DEF Holds
  <2>4. /\ loc.way \in Ways /\ loc.slot \in Slots
        /\ mem'[loc.way].iway = loc.way /\ mem'[loc.way].md.pg_vld[loc.slot]
        /\ mem'[loc.way].md.page[loc.slot] = q /\ mem'[loc.way].slot[loc.slot] = q
    <3>1. CASE loc.way = w
      <4>1. PICK s : s = loc.slot
        OBVIOUS
      <4>2. /\ s \in Slots /\ s # t /\ mem[w].md.pg_vld[s]
            /\ mem[w].md.page[s] = q /\ mem[w].slot[s] = q
        BY <2>2, <2>3, <3>1, <4>1 DEF Holds
      <4>3. z.pg_vld[s] /\ z.page[s] = q
        BY <1>6, <4>2
      <4>4. mem'[w].slot[s] = q /\ mem'[w].md = z /\ mem'[w].iway = w
        BY <1>7, <4>2, <4>3
      <4> QED BY <1>3, <3>1, <4>1, <4>2, <4>3, <4>4
    <3>2. CASE loc.way # w
      BY <1>7, <2>2, <3>2 DEF Holds
    <3> QED BY <3>1, <3>2
  <2> QED BY <1>5, <2>1, <2>4 DEF Holds
<1>10. SlotsOwned'
  <2> SUFFICES ASSUME NEW v \in Ways, NEW s \in Slots, mem'[v].md.pg_vld[s],
                      NEW q, q = mem'[v].md.page[s]
               PROVE  /\ q \in Pages
                      /\ \/ FutAtt[q] = [sts |-> "COMP", loc |-> At(v, s)]
                         \/ q = p /\ zpkt.dest = At(v, s)
    BY <1>1, <1>2, <1>5 DEF SlotsOwned
  <2>1. CASE v = w /\ s = t
    BY <1>4, <1>6, <1>7, <2>1
  <2>2. CASE ~ (v = w /\ s = t)
    BY SMTT(30), <1>0, <1>1, <1>6, <1>7, <2>2 DEF SlotsOwned
  <2> QED BY <2>1, <2>2
<1>11. WaysUsed(r)'
  <2> SUFFICES ASSUME NEW v \in Ways
               PROVE  /\ mem'[v].iway = NoWay => mem'[v].md = NoMd
                      /\ mem'[v].iway = NoWay <=> r[EntryOf(v)] # "OUT"
    BY <1>1 DEF WaysUsed
  <2> QED BY <1>0, <1>1, <1>3, <1>7, WayInverse DEF WaysUsed
<1>12. PagePacket'
  <2>1. cmp' = "MIGRATE_TO_ZSPAGE" /\ dec' = "IDLE"
    BY <1>1, <1>2
  <2>2. Holds(zpkt.dest, VicPage)'
    <3>1. zpkt'.dest.way = w /\ zpkt'.dest.slot = t /\ VicPage' = p
      BY <1>1
    <3> QED BY <1>3, <1>6, <1>7, <3>1 DEF Holds
  <2> QED BY <1>1, <2>1, <2>2 DEF PagePacket
<1> QED BY <1>5, <1>8, <1>9, <1>10, <1>11, <1>12 DEF Placed

(* The victim's way becomes a zspage.                                      *)
LEMMA PreppedPlaced ==
  ASSUME NEW r, NEW k, IInv, ListInv(r, k), Placed(r), Next, PwmZsPageUpdate,
         cmp = "PREP_ZSPAGE_MD", NEW w, w = vic.way, NEW z, z = zpkt.zsPgMd,
         NEW p, p = VicPage
  PROVE  Placed(r)' /\ ListInv(r, k)'
<1>0. /\ TypeOK /\ Jobs /\ Listed(r) /\ WaysUsed(r) /\ Packed /\ SlotsOwned /\ PagePacket
  BY DEF Placed, IInv
<1>1. /\ UNCHANGED <<tables, upd, zpkt, reader, comp, fifo, dec, acc>>
      /\ pwm = "ZS_PAGE_UPDATE" /\ pwm' = "WAIT_BRESP"
      /\ dec = "IDLE" /\ ~ Awaited /\ ~ Handed /\ ~ Prepared /\ Prepared'
      /\ ~ Written /\ Written' /\ ~ OldHeld /\ ~ OldHeld' /\ Moving /\ Moving' /\ VictimHeld
      /\ VicPage' = VicPage
  BY <1>0, MetadataControl
<1>2. UNCHANGED <<prm, req, trnsl, fw, cmp, vic, uc, dec, acc, fifo, zpkt>>
  BY <1>1 DEF reader, comp
<1>3. /\ w \in Ways /\ p \in Pages /\ r[EntryOf(w)] = "UNCOMP" /\ Owner(EntryOf(w)) = p
  BY <1>1, VictimPlace
<1>4. /\ zpkt.dest = At(w, 1) /\ zpkt.iWay_ptr = w /\ z = Filled(NoMd, 1, p)
      /\ mem[w].slot[1] = p /\ mem[w].iway = NoWay /\ 1 \in Slots
  BY <1>0, <1>1, <1>3 DEF PagePacket, WaysUsed, Slots, MAX_PAGE_ZSPAGE
<1>5. /\ Frames(r)' /\ Construction' /\ FreeOnce(r)' /\ Accesses' /\ Request'
      /\ HandedOver(r)' /\ FifoHolds' /\ Jobs'
      /\ (prm' = "DECOMPRESS" => ~ free_entry_avail') /\ ListInv(r, k)'
      /\ FutAtt' = FutAtt /\ (\A f \in Entries : Owner(f)' = Owner(f))
  BY <1>3, <1>4, MetadataKeeps
<1>6. z.pg_vld[1] /\ z.page[1] = p /\ \A s \in Slots \ {1} : ~ z.pg_vld[s]
  BY <1>4 DEF Filled, NoMd
<1>7. /\ mem'[w].iway = w /\ mem'[w].md = z /\ mem'[w].slot[1] = p
      /\ \A v \in Ways \ {w} : mem'[v] = mem[v]
  BY <1>3, <1>4, <1>6, MetadataWritten
<1>8. vic'.way = w
  BY <1>2
<1>9. Listed(r)'
  <2> SUFFICES ASSUME NEW f \in Entries, r[f] \in {"UNCOMP", "INCOMP"}
               PROVE  /\ Owner(f) \in Pages
                      /\ FutAtt[Owner(f)] = [sts |-> r[f], loc |-> At(WayOf(f), Frame)]
                      /\ \/ mem'[WayOf(f)].page = Owner(f)
                         \/ Owner(f) = p /\ WayOf(f) = w
    BY <1>1, <1>5, <1>8 DEF Listed
  <2>1. WayOf(f) \in Ways /\ EntryOf(WayOf(f)) = f
    BY WayInverse
  <2>2. /\ Owner(f) \in Pages
        /\ FutAtt[Owner(f)] = [sts |-> r[f], loc |-> At(WayOf(f), Frame)]
        /\ mem[WayOf(f)].page = Owner(f) \/ (Owner(f) = p /\ WayOf(f) = w)
    BY <1>0, <1>1 DEF Listed
  <2> QED BY <1>3, <1>7, <2>1, <2>2
<1>10. Packed'
  <2> SUFFICES ASSUME NEW q \in Pages, FutAtt[q].sts = "COMP" PROVE Holds(FutAtt[q].loc, q)'
    BY <1>5 DEF Packed, Holds
  <2>1. PICK loc : loc = FutAtt[q].loc
    OBVIOUS
  <2>2. Holds(loc, q)
    BY <1>0, <2>1 DEF Packed
  <2>3. loc.way # w
    BY <1>4, <2>2, WayInverse DEF Holds
  <2> QED BY <1>5, <1>7, <2>1, <2>2, <2>3 DEF Holds
<1>11. SlotsOwned'
  <2> SUFFICES ASSUME NEW v \in Ways, NEW s \in Slots, mem'[v].md.pg_vld[s],
                      NEW q, q = mem'[v].md.page[s]
               PROVE  /\ q \in Pages
                      /\ \/ FutAtt[q] = [sts |-> "COMP", loc |-> At(v, s)]
                         \/ q = p /\ zpkt.dest = At(v, s)
    BY <1>1, <1>2, <1>5 DEF SlotsOwned
  <2>1. CASE v = w
    BY <1>3, <1>4, <1>6, <1>7, <2>1
  <2>2. CASE v # w
    BY <1>0, <1>1, <1>7, <2>2 DEF SlotsOwned
  <2> QED BY <2>1, <2>2
<1>12. WaysUsed(r)'
  <2> SUFFICES ASSUME NEW v \in Ways
               PROVE  /\ mem'[v].iway = NoWay => mem'[v].md = NoMd
                      /\ mem'[v].iway = NoWay <=> (r[EntryOf(v)] # "OUT" /\ v # w)
    BY <1>1, <1>8 DEF WaysUsed
  <2> QED BY <1>0, <1>1, <1>3, <1>7, WayInverse DEF WaysUsed
<1>13. PagePacket'
  <2>1. cmp' = "PREP_ZSPAGE_MD" /\ dec' = "IDLE"
    BY <1>1, <1>2
  <2>2. Holds(zpkt.dest, VicPage)'
    <3>1. zpkt'.dest.way = w /\ zpkt'.dest.slot = 1 /\ VicPage' = p
      BY <1>1, <1>4 DEF At
    <3> QED BY <1>3, <1>4, <1>6, <1>7, <3>1 DEF Holds
  <2>3. /\ zpkt'.dest = At(w, 1) /\ zpkt'.iWay_ptr = w /\ zpkt'.zsPgMd = Filled(NoMd, 1, p)
        /\ VicPage' = p
    BY <1>1, <1>4
  <2> QED BY <1>1, <1>8, <2>1, <2>2, <2>3 DEF PagePacket
<1> QED BY <1>5, <1>9, <1>10, <1>11, <1>12, <1>13 DEF Placed

(* Dropping the only slot recorded for a page clears that slot and no other.*)
LEMMA ClearOne ==
  ASSUME NEW md \in ZsPg_Md, NEW p, NEW t \in Slots, HoldsPage(md, p) = {t}
  PROVE  /\ ClearPage(md, p).page = md.page
         /\ \A s \in Slots : ClearPage(md, p).pg_vld[s] <=> (md.pg_vld[s] /\ s # t)
<1>1. \A s \in Slots : s <= s
  BY DEF Slots
<1>2. \A s \in Slots :
        (s \in HoldsPage(md, p) /\ \A u \in HoldsPage(md, p) : s <= u) <=> s = t
  BY <1>1
<1>3. PICK z : z = ClearPage(md, p)
  OBVIOUS
<1>4. z = [md EXCEPT !.pg_vld = [s \in Slots |-> md.pg_vld[s] /\ ~ (s = t)]]
  BY <1>2, <1>3 DEF ClearPage
<1>5. z.page = md.page /\ z.pg_vld = [s \in Slots |-> md.pg_vld[s] /\ ~ (s = t)]
  BY <1>4 DEF ZsPg_Md
<1>6. \A s \in Slots : z.pg_vld[s] <=> (md.pg_vld[s] /\ s # t)
  BY <1>5
<1> QED BY <1>3, <1>5, <1>6

(* The zspage the page came from drops it.                                 *)
LEMMA DroppedPlaced ==
  ASSUME NEW r, NEW k, IInv, ListInv(r, k), Placed(r), Next, PwmZsPageUpdate,
         prm = "DECOMPRESS", NEW w, w = trnsl.loc.way, NEW t, t = trnsl.loc.slot,
         NEW z, z = zpkt.zsPgMd, NEW p, p = ReqPage
  PROVE  Placed(r)' /\ ListInv(r, k)'
<1>0. /\ TypeOK /\ Jobs /\ Listed(r) /\ WaysUsed(r) /\ Packed /\ SlotsOwned /\ PagePacket
      /\ Request /\ LookupInv
  BY DEF Placed, IInv
<1>1. /\ UNCHANGED <<tables, upd, zpkt, reader, comp, fifo, dec, acc>>
      /\ pwm = "ZS_PAGE_UPDATE" /\ pwm' = "WAIT_BRESP"
      /\ dec = "DECOMP_WAIT" /\ cmp = "IDLE" /\ ~ Awaited /\ ~ Handed /\ ~ Prepared /\ ~ Prepared'
      /\ ~ Written /\ ~ Written' /\ OldHeld /\ ~ OldHeld' /\ ~ Moving
  BY <1>0, MetadataControl
<1>2. UNCHANGED <<prm, req, trnsl, fw, cmp, vic, uc, dec, acc, fifo, zpkt>>
  BY <1>1 DEF reader, comp
<1>3. /\ w \in Ways /\ t \in Slots /\ mem[w].iway = w /\ mem[w].md.pg_vld[t]
      /\ mem[w].md.page[t] = p /\ zpkt.iWay_ptr = w
      /\ FutAtt[p].sts = "UNCOMP" /\ z = ClearPage(mem[w].md, p)
  BY SMTT(30), <1>0, <1>1 DEF Request, Holds, PagePacket
<1>4. mem[w].md \in ZsPg_Md
  <2>1. mem \in [Ways -> MemWay]
    BY <1>0 DEF TypeOK, MemType
  <2> QED BY <1>3, <2>1 DEF MemWay
<1>5. HoldsPage(mem[w].md, p) = {t}
  <2>1. ASSUME NEW s \in Slots, mem[w].md.pg_vld[s], mem[w].md.page[s] = p PROVE s = t
    <3>1. \/ FutAtt[p] = [sts |-> "COMP", loc |-> At(w, s)]
          \/ trnsl.loc = At(w, s)
      BY <1>0, <1>1, <1>3, <2>1 DEF SlotsOwned
    <3>2. FutAtt[p] # [sts |-> "COMP", loc |-> At(w, s)]
      BY <1>3
    <3> QED BY <3>1, <3>2 DEF At
  <2> QED BY <1>3, <2>1 DEF HoldsPage
<1>6. /\ z.page = mem[w].md.page
      /\ \A s \in Slots : z.pg_vld[s] <=> (mem[w].md.pg_vld[s] /\ s # t)
  BY SMTT(30), <1>3, <1>4, <1>5, ClearOne
<1>7. /\ Frames(r)' /\ Construction' /\ FreeOnce(r)' /\ Accesses' /\ Request'
      /\ HandedOver(r)' /\ FifoHolds' /\ Jobs'
      /\ (prm' = "DECOMPRESS" => ~ free_entry_avail') /\ ListInv(r, k)'
      /\ FutAtt' = FutAtt /\ (\A f \in Entries : Owner(f)' = Owner(f))
  BY <1>3, MetadataKeeps
<1>8. /\ mem'[w].iway = w /\ mem'[w].md = z
      /\ \A s \in Slots : z.pg_vld[s] => mem'[w].slot[s] = mem[w].slot[s]
      /\ \A v \in Ways \ {w} : mem'[v] = mem[v]
  BY <1>3, MetadataWritten
<1>9. Listed(r)'
  <2> SUFFICES ASSUME NEW f \in Entries, r[f] \in {"UNCOMP", "INCOMP"}
               PROVE  /\ Owner(f) \in Pages
                      /\ FutAtt[Owner(f)] = [sts |-> r[f], loc |-> At(WayOf(f), Frame)]
                      /\ mem'[WayOf(f)].page = Owner(f)
    BY <1>7 DEF Listed
  <2>1. WayOf(f) \in Ways /\ EntryOf(WayOf(f)) = f /\ NoWay \notin Ways
    BY WayInverse
  <2>2. WayOf(f) # w
    BY <1>0, <1>1, <1>3, <2>1 DEF WaysUsed
  <2> QED BY <1>0, <1>1, <1>8, <2>1, <2>2 DEF Listed
<1>10. Packed'
  <2> SUFFICES ASSUME NEW q \in Pages, FutAtt[q].sts = "COMP" PROVE Holds(FutAtt[q].loc, q)'
    BY <1>7 DEF Packed, Holds
  <2>1. PICK loc : loc = FutAtt[q].loc
    OBVIOUS
  <2>2. Holds(loc, q) /\ q # p
    BY <1>0, <1>3, <2>1 DEF Packed
  <2>3. ~ (loc.way = w /\ loc.slot = t)
    BY <1>3, <2>2 DEF Holds
  <2>4. /\ loc.way \in Ways /\ loc.slot \in Slots
        /\ mem'[loc.way].iway = loc.way /\ mem'[loc.way].md.pg_vld[loc.slot]
        /\ mem'[loc.way].md.page[loc.slot] = q /\ mem'[loc.way].slot[loc.slot] = q
    <3>1. CASE loc.way = w
      <4>1. PICK s : s = loc.slot
        OBVIOUS
      <4>2. /\ s \in Slots /\ s # t /\ mem[w].md.pg_vld[s]
            /\ mem[w].md.page[s] = q /\ mem[w].slot[s] = q
        BY <2>2, <2>3, <3>1, <4>1 DEF Holds
      <4>3. z.pg_vld[s] /\ z.page[s] = q
        BY <1>6, <4>2
      <4>4. mem'[w].slot[s] = q /\ mem'[w].md = z /\ mem'[w].iway = w
        BY <1>8, <4>2, <4>3
      <4> QED BY <1>3, <3>1, <4>1, <4>2, <4>3, <4>4
    <3>2. CASE loc.way # w
      BY <1>8, <2>2, <3>2 DEF Holds
    <3> QED BY <3>1, <3>2
  <2> QED BY <1>7, <2>1, <2>4 DEF Holds
<1>11. SlotsOwned'
  <2> SUFFICES ASSUME NEW v \in Ways, NEW s \in Slots, mem'[v].md.pg_vld[s],
                      NEW q, q = mem'[v].md.page[s]
               PROVE  q \in Pages /\ FutAtt[q] = [sts |-> "COMP", loc |-> At(v, s)]
    BY <1>1, <1>2, <1>7 DEF SlotsOwned
  <2>1. ~ (v = w /\ s = t) /\ mem[v].md.pg_vld[s] /\ q = mem[v].md.page[s]
    BY <1>6, <1>8
  <2>2. trnsl.loc # At(v, s)
    BY <2>1 DEF At
  <2> QED BY <1>0, <1>1, <2>1, <2>2 DEF SlotsOwned
<1>12. WaysUsed(r)'
  <2> SUFFICES ASSUME NEW v \in Ways
               PROVE  /\ mem'[v].iway = NoWay => mem'[v].md = NoMd
                      /\ mem'[v].iway = NoWay <=> r[EntryOf(v)] # "OUT"
    BY <1>1 DEF WaysUsed
  <2> QED BY SMTT(30), <1>0, <1>1, <1>3, <1>8, WayInverse DEF WaysUsed
<1>13. PagePacket'
  <2>1. dec' = "DECOMP_WAIT" /\ cmp' = "IDLE"
    BY <1>1, <1>2
  <2> QED BY <1>1, <2>1 DEF PagePacket
<1> QED BY <1>7, <1>9, <1>10, <1>11, <1>12, <1>13 DEF Placed

(* The metadata line is written, by a compression or a decompression.      *)
LEMMA MetadataPlaced ==
  ASSUME NEW r, NEW k, IInv, ListInv(r, k), Placed(r), Next, PwmZsPageUpdate
  PROVE  Placed(r)' /\ ListInv(r, k)'
<1>1. \/ dec = "DECOMP_WAIT" /\ prm = "DECOMPRESS"
      \/ cmp = "PREP_ZSPAGE_MD" \/ cmp = "MIGRATE_TO_ZSPAGE"
  BY MetadataControl DEF Placed
<1> QED BY <1>1, MigratedPlaced, PreppedPlaced, DroppedPlaced

(* Once the free list is built, no page has a place and every way is free. *)
LEMMA PlacesBegin ==
  ASSUME NEW r, r = [e \in Entries |-> "FREE"],
         IInv, ~ init_list_done, InitLists, InitList, init_list_done', FutAtt' = att
  PROVE  Placed(r)'
<1>1. /\ prm = "IDLE" /\ cmp = "IDLE" /\ dec = "IDLE" /\ ~ free_entry_avail
      /\ pwm = "INIT_LIST" /\ pwm' = "IDLE"
  BY DEF IInv, OneManager, LookupInv, InitList, init_list_done
<1>2. /\ UNCHANGED <<prm, req, trnsl, fw, free_entry_avail, cmp, vic, uc, dec, acc, mem, zpkt>>
  BY DEF InitList, reader, comp
<1>3. /\ mem' = [w \in Ways |-> RawFrame(NoPage)] /\ acc' = [c \in Chans |-> NoAcc]
      /\ uc' = NoWay /\ ~ req'.fresh /\ \A p \in Pages : FutAtt'[p].sts = "DALLOC"
  BY <1>1, <1>2 DEF InitLists
<1>4. \A w \in Ways : mem'[w].iway = NoWay /\ mem'[w].md = NoMd
  BY <1>3 DEF RawFrame
<1>5. /\ ~ Handed' /\ ~ Given' /\ ~ OldHeld' /\ ~ Written' /\ ~ Prepared'
  BY <1>1, <1>2 DEF Handed, Given, OldHeld, Unpacking, Written, Prepared
<1>6. Listed(r)' /\ Frames(r)' /\ Packed'
  BY <1>3 DEF Listed, Frames, Packed
<1>7. SlotsOwned'
  BY <1>4 DEF SlotsOwned, NoMd
<1>8. WaysUsed(r)'
  BY <1>4, <1>5, WayInverse DEF WaysUsed
<1>9. Construction' /\ FreeOnce(r)' /\ Accesses'
  BY <1>1, <1>2, <1>3 DEF Construction, FreeOnce, Accesses
<1>10. Request' /\ HandedOver(r)' /\ FifoHolds'
  BY <1>1, <1>2, <1>3, <1>5 DEF Request, HandedOver, FifoHolds
<1>11. PagePacket' /\ Jobs' /\ (prm' = "DECOMPRESS" => ~ free_entry_avail')
  BY <1>1, <1>2, <1>5 DEF PagePacket, Jobs, TolStates
<1> QED BY <1>6, <1>7, <1>8, <1>9, <1>10, <1>11 DEF Placed

(* Every step keeps every page in its place.                               *)
LEMMA PlacedStep ==
  ASSUME NEW r, NEW k, IInv, init_list_done, ListInv(r, k), Placed(r), Next, PromptMemory
  PROVE  \E r1 : Placed(r1)' /\ \E k1 : ListInv(r1, k1)'
<1>1. CASE ~ Loud
  BY <1>1, QuietStep DEF Quiet
<1>2. CASE SendTblUpdate
  BY <1>2, AllocatePlaced
<1>3. CASE SendIncomp
  BY <1>3, IncompPlaced
<1>4. CASE SendPopUcmp \/ SendFreewayTol
  BY <1>4, StoredStep
<1>5. CASE SendFreewayAtt
  BY <1>5, GivenPlaced
<1>6. CASE TblUpdateDone \/ (CompressDone /\ trnsl.sts # "COMP")
  BY <1>6, FirstAccess
<1>7. CASE CpuWrite
  BY <1>7, WritePlaced
<1>8. CASE PwmPageTransfer
  BY <1>8, TransferPlaced
<1>9. CASE PwmZsPageUpdate
  BY <1>9, MetadataPlaced
<1> QED BY <1>1, <1>2, <1>3, <1>4, <1>5, <1>6, <1>7, <1>8, <1>9 DEF Loud

(* Nothing happens.                                                        *)
LEMMA PlacedStutter ==
  ASSUME NEW r, NEW k, ListInv(r, k), Placed(r), UNCHANGED vars
  PROVE  Placed(r)' /\ ListInv(r, k)'
<1>1. UNCHANGED <<att, lst, ht, mem, pwm, etry_cnt, upd, zpkt, prm, req, trnsl, alloc, fw,
                  free_entry_avail, cmp, vic, uc, fifo, dec, acc>>
  BY DEF vars, tables, writer, reader, comp
<1>2. FutL' = FutL /\ FutH' = FutH /\ FutAtt' = FutAtt
  BY <1>1 DEF FutL, FutH, FutAtt
<1>3. ListInv(r, k)'
  BY <1>1, <1>2 DEF ListInv, VictimKnown, VictimHeld, AllocKnown, ZspagesOut, Preparing, HeadOf
<1>4. Listed(r)' /\ Frames(r)'
  BY <1>1, <1>2 DEF Placed, Listed, Frames, Owner, Handed, Awaited, Given, Unpacking, Moving,
                    ReqPage, VicPage
<1>5. Packed' /\ SlotsOwned' /\ WaysUsed(r)' /\ Construction'
  <2>1. Packed'
    BY <1>1, <1>2 DEF Placed, Packed, Holds
  <2>2. (OldHeld' <=> OldHeld) /\ (Written' <=> Written) /\ (Prepared' <=> Prepared)
    BY <1>1 DEF OldHeld, Given, Unpacking, Written, Prepared
  <2>3. SlotsOwned'
    BY <1>1, <1>2, <2>2 DEF Placed, SlotsOwned, ReqPage, VicPage
  <2>4. WaysUsed(r)' /\ Construction'
    BY <1>1, <2>2 DEF Placed, WaysUsed, Construction
  <2> QED BY <2>1, <2>3, <2>4
<1>6. FreeOnce(r)' /\ Accesses'
  BY <1>1, <1>2 DEF Placed, FreeOnce, Accesses, VictimHeld, ReqPage, VicPage
<1>7. Request' /\ HandedOver(r)' /\ FifoHolds'
  BY SMTT(30), <1>1, <1>2 DEF Placed, Request, HandedOver, FifoHolds, Holds, OldHeld, Given,
                    Unpacking, Handed, Owner, ReqPage, VicPage
<1>8. PagePacket' /\ Jobs' /\ (prm' = "DECOMPRESS" => ~ free_entry_avail')
  BY SMTT(30), <1>1, <1>2 DEF Placed, PagePacket, Jobs, Written, Holds, ReqPage, VicPage
<1> QED BY <1>3, <1>4, <1>5, <1>6, <1>7, <1>8 DEF Placed

(* The inductive invariant of the data.                                    *)
PlacesKept == IF init_list_done THEN \E r, k : ListInv(r, k) /\ Placed(r) ELSE InitLists

(* The places are kept by every step, if memory is prompt.                 *)
LEMMA PlacesInductive ==
  ASSUME PromptMemory
  PROVE  Spec => [](IInv /\ PlacesKept)
<1>1. Init => IInv /\ PlacesKept
  BY Inductive, ListsBegin DEF PlacesKept
<1>2. IInv /\ PlacesKept /\ [Next]_vars => (IInv /\ PlacesKept)'
  <2> SUFFICES ASSUME IInv, PlacesKept, [Next]_vars PROVE (IInv /\ PlacesKept)'
    OBVIOUS
  <2>0. IInv'
    BY Inductive
  <2>1. CASE UNCHANGED vars
    <3>1. UNCHANGED <<tables, mem, writer, zpkt, reader, comp, fifo, dec, acc>>
      BY <2>1 DEF vars
    <3>2. init_list_done' = init_list_done /\ (InitLists => InitLists')
      BY <3>1 DEF InitLists, init_list_done, tables, writer, reader, comp
    <3>3. ASSUME NEW r, NEW k, ListInv(r, k), Placed(r) PROVE ListInv(r, k)' /\ Placed(r)'
      BY <2>1, <3>3, PlacedStutter
    <3> QED BY <2>0, <3>2, <3>3 DEF PlacesKept
  <2>2. CASE Next /\ init_list_done
    <3>1. PICK r, k : ListInv(r, k) /\ Placed(r)
      BY <2>2 DEF PlacesKept
    <3>2. \E r1 : Placed(r1)' /\ \E k1 : ListInv(r1, k1)'
      BY <2>2, <3>1, PlacedStep
    <3> QED BY <2>0, <2>2, <3>2, InitStays DEF PlacesKept
  <2>3. CASE Next /\ ~ init_list_done
    <3>1. CASE init_list_done'
      <4>1. PICK r, k : r = [e \in Entries |-> "FREE"] /\ k = [e \in Entries |-> e]
        OBVIOUS
      <4>2. ListInv([e \in Entries |-> "FREE"], [e \in Entries |-> e])' /\ InitList /\ FutAtt' = att
        BY <2>3, <3>1, ListsBegin DEF PlacesKept
      <4>3. ListInv(r, k)'
        BY <4>1, <4>2
      <4>4. Placed(r)'
        BY <2>3, <3>1, <4>1, <4>2, PlacesBegin DEF PlacesKept
      <4> QED BY <2>0, <3>1, <4>3, <4>4 DEF PlacesKept
    <3>2. CASE ~ init_list_done'
      BY <2>0, <2>3, <3>2, ListsBegin DEF PlacesKept
    <3> QED BY <3>1, <3>2
  <2> QED BY <2>1, <2>2, <2>3
<1> QED BY <1>1, <1>2, PTL DEF Spec

(* Between two lookups nobody is at work on a page.                        *)
LEMMA Settled ==
  ASSUME NEW r, NEW k, IInv, init_list_done, ListInv(r, k), Placed(r), prm = "IDLE"
  PROVE  /\ pwm = "IDLE" /\ cmp = "IDLE" /\ dec = "IDLE"
         /\ FutL = lst /\ FutAtt = att /\ Chains(lst, ht, r, k)
         /\ ~ Handed /\ ~ Awaited /\ ~ Moving /\ ~ OldHeld /\ ~ Written /\ ~ Prepared
         /\ r \in [Entries -> Roles] /\ TypeOK
         /\ \A x \in Queues : Members(x) = {e \in Entries : r[e] = x}
         /\ \A e \in Entries : Owner(e) = lst[e].attEntryId
<1>1. pwm = "IDLE" /\ cmp = "IDLE" /\ dec = "IDLE" /\ TypeOK
  BY DEF IInv, OneManager, WriterBusy, PrmWaits, CmpWaits, DecWaits, init_list_done
<1>2. FutL = lst /\ FutH = ht /\ FutAtt = att
  BY <1>1 DEF FutL, FutH, FutAtt
<1>3. Chains(lst, ht, r, k)
  BY <1>2 DEF ListInv
<1>4. ~ Handed /\ ~ Awaited /\ ~ Moving /\ ~ OldHeld /\ ~ Written /\ ~ Prepared
  BY <1>1 DEF Handed, Awaited, Moving, OldHeld, Written, Prepared, Given, Unpacking
<1>5. \A x \in Queues : Members(x) = {e \in Entries : r[e] = x}
  BY <1>3, ListsSeen
<1> QED BY <1>1, <1>2, <1>3, <1>4, <1>5 DEF Owner, Chains

(* Every way is in exactly one role.                                       *)
LEMMA WaysCounted == IInv /\ PlacesKept => WaysConserved
<1> SUFFICES ASSUME IInv, PlacesKept, prm = "IDLE", init_list_done, NEW e \in Entries
             PROVE  Cardinality({x \in {"FREE", "UNCOMP", "INCOMP"} : e \in Members(x)})
                      = IF mem[WayOf(e)].iway = NoWay THEN 1 ELSE 0
  BY DEF WaysConserved
<1>1. PICK r, k : ListInv(r, k) /\ Placed(r)
  BY DEF PlacesKept
<1>2. /\ r \in [Entries -> Roles] /\ ~ Prepared
      /\ \A x \in Queues : Members(x) = {f \in Entries : r[f] = x}
  BY <1>1, Settled
<1>3. {x \in {"FREE", "UNCOMP", "INCOMP"} : e \in Members(x)}
        = IF r[e] = "OUT" THEN {} ELSE {r[e]}
  BY <1>2 DEF Queues, Roles
<1>4. mem[WayOf(e)].iway = NoWay <=> r[e] # "OUT"
  BY <1>1, <1>2, WayInverse DEF Placed, WaysUsed
<1>5. Cardinality({r[e]}) = 1 /\ Cardinality({}) = 0
  BY FS_EmptySet, FS_Singleton
<1> QED BY <1>3, <1>4, <1>5

(* The slot the ATT names is the only one recorded for its page.           *)
LEMMA TablesMatch == IInv /\ PlacesKept => TablesAgree
<1> SUFFICES ASSUME IInv, PlacesKept, prm = "IDLE", init_list_done
             PROVE
    /\ \A p \in Pages :
         LET w == att[p].loc.way  s == att[p].loc.slot
         IN  CASE att[p].sts \in {"UNCOMP", "INCOMP"} ->
                    /\ s = Frame
                    /\ EntryOf(w) \in Members(att[p].sts)
                    /\ lst[EntryOf(w)].attEntryId = p
               [] att[p].sts = "COMP" ->
                    /\ s \in Slots
                    /\ mem[w].iway = w
                    /\ HoldsPage(mem[w].md, p) = {s}
               [] OTHER -> TRUE
    /\ \A x \in {"UNCOMP", "INCOMP"} : \A e \in Members(x) :
         att[lst[e].attEntryId] = [sts |-> x, loc |-> At(WayOf(e), Frame)]
    /\ \A w \in Ways, s \in Slots :
         mem[w].md.pg_vld[s] /\ mem[w].iway = w =>
           att[mem[w].md.page[s]] = [sts |-> "COMP", loc |-> At(w, s)]
  BY DEF TablesAgree
<1>1. PICK r, k : ListInv(r, k) /\ Placed(r)
  BY DEF PlacesKept
<1>2. /\ FutAtt = att /\ r \in [Entries -> Roles]
      /\ ~ Handed /\ ~ OldHeld /\ ~ Written
      /\ \A x \in Queues : Members(x) = {f \in Entries : r[f] = x}
      /\ \A e \in Entries : Owner(e) = lst[e].attEntryId
  BY <1>1, Settled
<1>3. Listed(r) /\ Frames(r) /\ Packed /\ SlotsOwned
  BY <1>1 DEF Placed
<1>4. ASSUME NEW w \in Ways, NEW s \in Slots, mem[w].md.pg_vld[s]
      PROVE  att[mem[w].md.page[s]] = [sts |-> "COMP", loc |-> At(w, s)]
  BY <1>2, <1>3, <1>4 DEF SlotsOwned
<1>5. ASSUME NEW p \in Pages, att[p].sts \in {"UNCOMP", "INCOMP"}
      PROVE  /\ att[p].loc.slot = Frame
             /\ EntryOf(att[p].loc.way) \in Members(att[p].sts)
             /\ lst[EntryOf(att[p].loc.way)].attEntryId = p
  <2>1. PICK w : w = att[p].loc.way
    OBVIOUS
  <2>2. /\ att[p].loc.slot = Frame /\ w \in Ways
        /\ r[EntryOf(w)] = att[p].sts /\ Owner(EntryOf(w)) = p
    BY <1>2, <1>3, <1>5, <2>1 DEF Frames
  <2>3. EntryOf(w) \in Entries
    BY <2>2, WayInverse
  <2> QED BY <1>2, <1>5, <2>1, <2>2, <2>3 DEF Queues
<1>6. ASSUME NEW p \in Pages, att[p].sts = "COMP"
      PROVE  /\ att[p].loc.slot \in Slots /\ mem[att[p].loc.way].iway = att[p].loc.way
             /\ HoldsPage(mem[att[p].loc.way].md, p) = {att[p].loc.slot}
  <2>1. PICK w, s : w = att[p].loc.way /\ s = att[p].loc.slot
    OBVIOUS
  <2>2. /\ w \in Ways /\ s \in Slots /\ mem[w].iway = w
        /\ mem[w].md.pg_vld[s] /\ mem[w].md.page[s] = p
    BY <1>2, <1>3, <1>6, <2>1 DEF Packed, Holds
  <2>3. ASSUME NEW t \in Slots, mem[w].md.pg_vld[t], mem[w].md.page[t] = p PROVE t = s
    <3>1. att[p] = [sts |-> "COMP", loc |-> At(w, t)]
      BY <1>4, <2>2, <2>3
    <3> QED BY <2>1, <3>1 DEF At
  <2>4. HoldsPage(mem[w].md, p) = {s}
    BY <2>2, <2>3 DEF HoldsPage
  <2> QED BY <2>1, <2>2, <2>4
<1>7. ASSUME NEW x \in {"UNCOMP", "INCOMP"}, NEW e \in Members(x)
      PROVE  att[lst[e].attEntryId] = [sts |-> x, loc |-> At(WayOf(e), Frame)]
  <2>1. e \in Entries /\ r[e] = x
    BY <1>2, <1>7 DEF Queues
  <2> QED BY <1>2, <1>3, <1>7, <2>1 DEF Listed
<1>8. ASSUME NEW p \in Pages
      PROVE  LET w == att[p].loc.way  s == att[p].loc.slot
             IN  CASE att[p].sts \in {"UNCOMP", "INCOMP"} ->
                        /\ s = Frame
                        /\ EntryOf(w) \in Members(att[p].sts)
                        /\ lst[EntryOf(w)].attEntryId = p
                   [] att[p].sts = "COMP" ->
                        /\ s \in Slots
                        /\ mem[w].iway = w
                        /\ HoldsPage(mem[w].md, p) = {s}
                   [] OTHER -> TRUE
  <2>1. CASE att[p].sts \in {"UNCOMP", "INCOMP"}
    BY <1>5, <2>1
  <2>2. CASE att[p].sts = "COMP"
    BY <1>6, <2>2
  <2>3. CASE att[p].sts \notin {"UNCOMP", "INCOMP", "COMP"}
    BY <2>3
  <2> QED BY <2>1, <2>2, <2>3
<1> QED BY <1>4, <1>7, <1>8

(* A page in a frame is there, unless it is on its way.                    *)
LEMMA FrameHolds ==
  ASSUME NEW r, Listed(r), Frames(r), NEW p \in Pages, FutAtt[p].sts \in {"UNCOMP", "INCOMP"},
         NEW w, w = FutAtt[p].loc.way
  PROVE  /\ w \in Ways
         /\ \/ mem[w].page = p
            \/ Handed /\ p = ReqPage
            \/ Awaited /\ p = ReqPage
            \/ Moving /\ p = VicPage /\ w = vic.way
<1>1. w \in Ways /\ r[EntryOf(w)] \in {"UNCOMP", "INCOMP"} /\ Owner(EntryOf(w)) = p
  BY DEF Frames
<1>2. EntryOf(w) \in Entries /\ WayOf(EntryOf(w)) = w
  BY <1>1, WayInverse
<1> QED BY <1>1, <1>2 DEF Listed

(* Between two lookups a page is where the ATT says.                       *)
LEMMA PagesFound == IInv /\ PlacesKept => PagesKept
<1> SUFFICES ASSUME IInv, PlacesKept, prm = "IDLE", init_list_done, NEW p \in Pages,
                    att[p].sts # "DALLOC"
             PROVE  Contents(p) = p
  BY DEF PagesKept
<1>1. PICK r, k : ListInv(r, k) /\ Placed(r)
  BY DEF PlacesKept
<1>2. FutAtt = att /\ ~ Handed /\ ~ Awaited /\ ~ Moving /\ TypeOK
  BY <1>1, Settled
<1>3. Listed(r) /\ Frames(r) /\ Packed
  BY <1>1 DEF Placed
<1>4. att[p].sts \in {"UNCOMP", "INCOMP", "COMP"}
  BY <1>2 DEF TypeOK, TablesType, AttEntry, STS
<1>5. CASE att[p].sts \in {"UNCOMP", "INCOMP"}
  <2>1. mem[att[p].loc.way].page = p
    BY <1>2, <1>3, <1>5, FrameHolds
  <2>2. att[p].loc.slot = Frame
    BY <1>2, <1>3, <1>5 DEF Frames
  <2> QED BY <2>1, <2>2 DEF Contents
<1>6. CASE att[p].sts = "COMP"
  <2>1. att[p].loc.slot \in Slots /\ mem[att[p].loc.way].slot[att[p].loc.slot] = p
    BY <1>2, <1>3, <1>6 DEF Packed, Holds
  <2>2. att[p].loc.slot # Frame
    BY <2>1 DEF Slots, Frame
  <2> QED BY <2>1, <2>2 DEF Contents
<1> QED BY <1>4, <1>5, <1>6

(* A granted access finds its page.                                        *)
LEMMA AccessFound == IInv /\ PlacesKept => AccessHitsPage
<1> SUFFICES ASSUME IInv, PlacesKept, NEW c \in Chans, acc[c] # NoAcc
             PROVE  mem[acc[c].way].page = acc[c].page
  BY DEF AccessHitsPage
<1>0. init_list_done
  BY DEF PlacesKept, InitLists
<1>1. PICK r, k : ListInv(r, k) /\ Placed(r)
  BY <1>0 DEF PlacesKept
<1>2. PICK p, w : p = acc[c].page /\ w = acc[c].way
  OBVIOUS
<1>3. /\ p \in Pages /\ FutAtt[p].sts \in {"UNCOMP", "INCOMP"} /\ FutAtt[p].loc.way = w
      /\ prm \notin {"IDLE", "LOOKUP_ATT", "CHK_ATT_ENTRY", "BUS_ERROR"} => p # ReqPage
      /\ VictimHeld /\ cmp \notin {"BURST_READ", "POP_UCMP_PUSH_INCOMP"} => p # VicPage
  BY <1>1, <1>2 DEF Placed, Accesses
<1>4. ~ (Handed /\ p = ReqPage) /\ ~ (Awaited /\ p = ReqPage)
  BY <1>3 DEF Handed, Awaited, Given, Unpacking, IInv, OneManager
<1>5. ~ (Moving /\ p = VicPage)
  BY <1>3 DEF Moving, VictimHeld
<1>6. Listed(r) /\ Frames(r)
  BY <1>1 DEF Placed
<1> QED BY <1>2, <1>3, <1>4, <1>5, <1>6, FrameHolds

(* A decompression finds its slot.                                         *)
LEMMA SlotFound == IInv /\ PlacesKept => DecompressionFindsSlot
<1> SUFFICES ASSUME IInv, PlacesKept, prm = "DECOMPRESS", dec \in {"IDLE", "NO_IWAY"}
             PROVE  /\ dec # "NO_IWAY"
                    /\ trnsl.loc.slot \in HoldsPage(mem[trnsl.loc.way].md, req.page)
  BY DEF DecompressionFindsSlot
<1>1. init_list_done
  BY DEF IInv, OneManager
<1>2. Request
  BY <1>1 DEF PlacesKept, Placed
<1>3. dec = "IDLE" /\ OldHeld
  BY <1>2 DEF Request, OldHeld, Unpacking
<1>4. Holds(trnsl.loc, ReqPage)
  BY <1>2, <1>3 DEF Request
<1> QED BY <1>3, <1>4 DEF Holds, HoldsPage, ReqPage

(* No update takes a page away.                                            *)
UpdKeeps == pwm = "ATT_UPDATE" => AttSts(upd) # "DALLOC"

(* UpdKeeps is inductive.                                                  *)
LEMMA UpdStep == IInv /\ UpdKeeps /\ [Next]_vars => UpdKeeps'
<1> SUFFICES ASSUME IInv, UpdKeeps, [Next]_vars, pwm' = "ATT_UPDATE"
             PROVE  AttSts(upd') # "DALLOC"
  BY DEF UpdKeeps, AttSts
<1>1. CASE UNCHANGED vars
  BY <1>1 DEF vars, writer, UpdKeeps
<1>2. CASE Next /\ ~ Sending
  <2>1. CASE PwmStep
    BY <1>2, <2>1 DEF PwmStep, InitAtt, InitList, PwmAttUpdate, PwmSlstUpdate, PwmDlstUpdate1,
       PwmDlstUpdate2, PwmPageTransfer, PwmZsPageUpdate
  <2>2. CASE ~ PwmStep
    BY <1>2, <2>2, WriterQuiet DEF TolStates, UpdKeeps
  <2> QED BY <2>1, <2>2
<1>3. CASE Next /\ Sending
  <2>0. init_list_done
    BY <1>3 DEF Sending, init_list_done
  <2>1. CASE SendTblUpdate
    BY <2>1 DEF SendTblUpdate, SendUpdate, IInv, LookupInv
  <2>2. CASE SendIncomp \/ SendPopUcmp \/ SendFreewayTol
    BY <2>2 DEF SendIncomp, SendPopUcmp, SendFreewayTol, SendUpdate, AttSts, NoPkt
  <2>3. CASE SendFreewayAtt
    BY <2>3 DEF SendFreewayAtt, SendUpdate, AttSts, NoPkt
  <2>4. CASE SendPushIfl
    BY <2>4 DEF SendPushIfl, SendUpdate, NoPkt
  <2> QED BY <1>3, <2>0, <2>1, <2>2, <2>3, <2>4, Senders
<1> QED BY <1>1, <1>2, <1>3

(* At every instant some place holds the page.                             *)
LEMMA NothingLost == IInv /\ PlacesKept /\ UpdKeeps => NeverLost
<1> SUFFICES ASSUME IInv, PlacesKept, UpdKeeps, init_list_done, NEW p \in Pages,
                    att[p].sts # "DALLOC", ~ (req.page = p /\ req.fresh)
             PROVE  \E w \in Ways : mem[w].page = p \/ \E s \in Slots : mem[w].slot[s] = p
  BY DEF NeverLost
<1>1. PICK r, k : ListInv(r, k) /\ Placed(r)
  BY DEF PlacesKept
<1>2. Listed(r) /\ Frames(r) /\ Packed /\ Request /\ PagePacket /\ TypeOK /\ OneManager
  BY <1>1 DEF Placed, IInv
<1>3. FutAtt[p].sts \in {"UNCOMP", "INCOMP", "COMP"}
  <2>1. att[p].sts \in {"UNCOMP", "INCOMP", "COMP"} /\ att \in [Pages -> AttEntry]
        /\ upd \in TolUpdPkt
    BY <1>2 DEF TypeOK, TablesType, WriterType, AttEntry, STS
  <2>2. pwm = "ATT_UPDATE" => AttSts(upd) \in {"UNCOMP", "INCOMP", "COMP"}
    BY <2>1 DEF UpdKeeps, AttSts, TolUpdPkt, STS
  <2> QED BY <2>1, <2>2 DEF FutAtt
<1>4. ASSUME NEW loc, Holds(loc, p)
      PROVE  \E w \in Ways : \E s \in Slots : mem[w].slot[s] = p
  BY <1>4 DEF Holds
<1>5. CASE FutAtt[p].sts = "COMP"
  BY <1>2, <1>4, <1>5 DEF Packed
<1>6. CASE FutAtt[p].sts \in {"UNCOMP", "INCOMP"}
  <2>1. PICK w : w = FutAtt[p].loc.way
    OBVIOUS
  <2>2. /\ w \in Ways
        /\ \/ mem[w].page = p
           \/ Handed /\ p = ReqPage
           \/ Awaited /\ p = ReqPage
           \/ Moving /\ p = VicPage /\ w = vic.way
    BY <1>2, <1>6, <2>1, FrameHolds
  <2>3. ~ (Handed /\ p = ReqPage)
    <3>1. Handed => prm = "COMPRESS" /\ ~ Given
      BY <1>2 DEF Handed, Given, OneManager
    <3> QED BY <1>2, <1>6, <3>1 DEF Request
  <2>4. CASE Awaited /\ p = ReqPage
    <3>1. OldHeld
      BY <1>2, <2>4 DEF Awaited, Request, OldHeld, ReqPage
    <3>2. CASE dec # "BUS_ERROR"
      BY <1>2, <1>4, <2>4, <3>1, <3>2 DEF Request
    <3>3. CASE dec = "BUS_ERROR"
      <4>1. FutAtt[p] = [sts |-> "UNCOMP", loc |-> At(fw, Frame)]
        BY <1>2, <2>4, <3>3 DEF OneManager, Request
      <4>2. fw = w
        BY <2>1, <4>1 DEF At
      <4> QED BY <1>2, <1>4, <2>2, <2>4, <3>3, <4>2 DEF Request
    <3> QED BY <3>2, <3>3
  <2>5. CASE Moving /\ p = VicPage /\ w = vic.way
    <3>1. CASE Written
      BY <1>2, <1>4, <2>5, <3>1 DEF PagePacket
    <3>2. CASE ~ Written
      <4>1. cmp = "PREP_ZSPAGE_MD" /\ pwm = "ZS_PAGE_UPDATE"
        BY <2>5, <3>2 DEF Moving, Written
      <4>2. mem[w].slot[1] = p /\ 1 \in Slots
        BY <1>2, <2>5, <4>1 DEF PagePacket, Slots, MAX_PAGE_ZSPAGE
      <4> QED BY <2>2, <4>2
    <3> QED BY <3>1, <3>2
  <2> QED BY <2>2, <2>3, <2>4, <2>5
<1> QED BY <1>3, <1>5, <1>6

(* It holds from the start.                                                *)
LEMMA UpdInductive == Spec => [](IInv /\ UpdKeeps)
<1>1. Init => IInv /\ UpdKeeps
  BY Inductive DEF Init, UpdKeeps
<1>2. IInv /\ UpdKeeps /\ [Next]_vars => (IInv /\ UpdKeeps)'
  BY Inductive, UpdStep
<1> QED BY <1>1, <1>2, PTL DEF Spec

(* Between two lookups every way is on exactly one list or is a zspage:    *)
(* none leaks and none is used twice, for every number of ways and pages.  *)
THEOREM WaysAlwaysConserved ==
  ASSUME PromptMemory
  PROVE  Spec => []WaysConserved
<1> QED BY WaysCounted, PlacesInductive, PTL

(* Between two lookups the ATT, the list table and the zspage metadata     *)
(* agree in both directions, after any sequence of allocations,            *)
(* compressions and decompressions.                                        *)
THEOREM TablesAlwaysAgree ==
  ASSUME PromptMemory
  PROVE  Spec => []TablesAgree
<1> QED BY TablesMatch, PlacesInductive, PTL

(* Between two lookups the ATT entry of every accessed page leads to its   *)
(* latest contents.                                                        *)
THEOREM PagesAlwaysKept ==
  ASSUME PromptMemory
  PROVE  Spec => []PagesKept
<1> QED BY PagesFound, PlacesInductive, PTL

(* A granted access never reaches a way that holds something else, though  *)
(* the next lookup, which may compress or hand over ways, is already at    *)
(* work.                                                                   *)
THEOREM AccessAlwaysHits ==
  ASSUME PromptMemory
  PROVE  Spec => []AccessHitsPage
<1> QED BY AccessFound, PlacesInductive, PTL

(* A decompression finds the identity way in its first read, and its       *)
(* page's slot valid there.                                                *)
THEOREM DecompressionAlwaysFinds ==
  ASSUME PromptMemory
  PROVE  Spec => []DecompressionFindsSlot
<1> QED BY SlotFound, PlacesInductive, PTL

(* At every instant, between any two writes of a compression or            *)
(* decompression, the latest contents of every accessed page are in a way, *)
(* a slot or the FIFO.                                                     *)
THEOREM PagesNeverLost ==
  ASSUME PromptMemory
  PROVE  Spec => []NeverLost
<1> QED BY NothingLost, PlacesInductive, UpdInductive, PTL
================================================================================
