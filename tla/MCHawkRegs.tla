------------------------------- MODULE MCHawkRegs -------------------------------
(***************************************************************************)
(* Four pages in two ATT lines, four ways.  The three linked pages let     *)
(* UNMAP meet the head, the middle and the tail of a list, the single page *)
(* a list of one; page 0 was unmapped before.                              *)
(***************************************************************************)
EXTENDS HawkRegs, TLC

Free(w) == [NoListEntry EXCEPT !.way = w]
On(w, p, before, after) ==
  [way |-> w, attEntryId |-> p + 1, prev |-> before, next |-> after]
Mapped(s, w) == [sts |-> s, way |-> w]
Unmapped == [sts |-> "DALLOC", way |-> 1]

Chain ==
  [att |-> (0 :> Unmapped @@ 1 :> Mapped("UNCOMP", 2) @@ 2 :> Mapped("UNCOMP", 1)
            @@ 3 :> Mapped("UNCOMP", 4)),
   lst |-> <<On(1, 2, 2, 4), On(2, 1, NULL, 1), Free(3), On(4, 3, 1, NULL)>>]
Pair ==
  [att |-> (0 :> Mapped("INCOMP", 3) @@ 1 :> Mapped("UNCOMP", 1)
            @@ 2 :> Mapped("UNCOMP", 2) @@ 3 :> [sts |-> "DALLOC", way |-> 0]),
   lst |-> <<On(1, 1, NULL, 2), On(2, 2, 1, NULL), On(3, 0, NULL, NULL), Free(4)>>]
TwoLayouts == {Chain, Pair}
=============================================================================
