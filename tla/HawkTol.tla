-------------------------------- MODULE HawkTol --------------------------------
(***************************************************************************)
(* The list writes of the page writer (hawk_pgwr_mngr.sv,                  *)
(* get_tbl_axi_wrpkt and the head/tail registers), as operators on the     *)
(* list table l, the registers ht and the update packet pkt.  They cover   *)
(* every source and destination list a packet may name; the pager uses     *)
(* some of them, the zspage compacter the rest.                            *)
(***************************************************************************)
EXTENDS HawkDefs

(* Mutant: a victim whose way is handed over is not told apart from an     *)
(* allocation.                                                             *)
MutAttSts(pkt) ==
  CASE pkt.ATT_UPDATE_ONLY -> pkt.ATT_STS
    [] ~ pkt.ATT_UPDATE_ONLY /\ pkt.dst_list = "UNCOMP" -> "UNCOMP"
    [] ~ pkt.ATT_UPDATE_ONLY /\ pkt.dst_list = "INCOMP" -> "INCOMP"
    [] OTHER -> "COMP"

(* The status an ATT_UPDATE writes.                                        *)
AttSts(pkt) ==
  CASE pkt.ATT_UPDATE_ONLY -> pkt.ATT_STS
    [] ~ pkt.ATT_UPDATE_ONLY /\ pkt.src_list = "FREE" /\ pkt.dst_list = "UNCOMP"
         -> "UNCOMP"
    [] ~ pkt.ATT_UPDATE_ONLY /\ pkt.src_list = "UNCOMP" /\ pkt.dst_list = "INCOMP"
         -> "INCOMP"
    [] OTHER -> "COMP"

(* Is a second entry left on the source list when this one leaves?  If so  *)
(* TOL_SLST_UPDATE relinks it, otherwise the registers are nulled.         *)
SrcHasMore(ht, pkt) ==
  /\ pkt.src_list \in Lists \ {"INCOMP"}
  /\ ht.head[pkt.src_list] # ht.tail[pkt.src_list]
(* Mutant: the registers keep pointing at the entry that left.             *)
MutSrcEmptied(ht, pkt) == ht

SrcEmptied(ht, pkt) ==
  IF pkt.src_list \in Lists \ {"INCOMP"}
  THEN [head |-> [ht.head EXCEPT ![pkt.src_list] = NULL],
        tail |-> [ht.tail EXCEPT ![pkt.src_list] = NULL]]
  ELSE ht

(* POP_TAIL addresses the cache line (four entries) of prev but selects    *)
(* the entry inside it by tolEntryId.                                      *)
PopTailTarget(pkt) == ((pkt.prev - 1) \div 4) * 4 + ((pkt.tolEntryId - 1) % 4) + 1

(* TOL_SLST_UPDATE: POP_HEAD gives the next entry my prev, POP_TAIL (only  *)
(* for the irregular free list) writes my next.                            *)
SrcWrite(l, pkt) ==
  IF pkt.src_list = "IFL_SIZE1"
  THEN LET e == PopTailTarget(pkt)
       IN  IF pkt.prev # NULL /\ e \in Entries THEN [l EXCEPT ![e].next = pkt.next] ELSE l
  ELSE [l EXCEPT ![pkt.next].prev = pkt.prev]

SrcRegs(ht, pkt) ==
  IF pkt.src_list = "IFL_SIZE1"
  THEN [ht EXCEPT !.tail["IFL_SIZE1"] = pkt.prev]
  ELSE [ht EXCEPT !.head[pkt.src_list] = pkt.next]

PushesTail(pkt) == pkt.dst_list \in {"FREE", "UNCOMP"}
PushesHead(pkt) == pkt.dst_list \in {"INCOMP", "IFL_SIZE1"}

(* TOL_DLST_UPDATE1: my own entry; NULLIFY and IFL_DETACH unlink it.       *)
DstWrite1(l, ht, pkt) ==
  [l EXCEPT ![pkt.tolEntryId] =
     [attEntryId |-> pkt.owner,
      prev |-> IF PushesTail(pkt) THEN ht.tail[pkt.dst_list] ELSE NULL,
      next |-> IF PushesHead(pkt) THEN ht.head[pkt.dst_list] ELSE NULL]]

DstEmpty(ht, pkt) ==
  \/ PushesTail(pkt) /\ ht.tail[pkt.dst_list] = NULL
  \/ PushesHead(pkt) /\ ht.head[pkt.dst_list] = NULL

DstRegs1(ht, pkt) ==
  IF DstEmpty(ht, pkt)
  THEN [head |-> [ht.head EXCEPT ![pkt.dst_list] = pkt.tolEntryId],
        tail |-> [ht.tail EXCEPT ![pkt.dst_list] = pkt.tolEntryId]]
  ELSE ht

(* NULLIFY, IFL_DETACH and a first entry need no second write.             *)
NeedsDst2(ht, pkt) == pkt.dst_list \in Lists /\ ~ DstEmpty(ht, pkt)

(* TOL_DLST_UPDATE2: link the old tail or head to me.  PUSH_TAIL takes the *)
(* tail of the UNCOMP list whatever the destination is.                    *)
DstWrite2(l, ht, pkt) ==
  IF PushesTail(pkt)
  THEN IF ht.tail["UNCOMP"] = NULL THEN l
       ELSE [l EXCEPT ![ht.tail["UNCOMP"]].next = pkt.tolEntryId]
  ELSE [l EXCEPT ![ht.head[pkt.dst_list]].prev = pkt.tolEntryId]
(* Mutant: the tail register stays behind after a push.                    *)
MutDstRegs2(ht, pkt) ==
  IF PushesTail(pkt) THEN ht
  ELSE [ht EXCEPT !.head[pkt.dst_list] = pkt.tolEntryId]

DstRegs2(ht, pkt) ==
  IF PushesTail(pkt)
  THEN [ht EXCEPT !.tail[pkt.dst_list] = pkt.tolEntryId]
  ELSE [ht EXCEPT !.head[pkt.dst_list] = pkt.tolEntryId]
=============================================================================
