------------------------------ MODULE MCHawkPager ------------------------------
(* Small instances of the paging engine for TLC. *)
EXTENDS HawkPagerInv, TLC

CONSTANTS p1, p2, p3, p4, p5, p6

Pages4 == {p1, p2, p3, p4}
Pages6 == {p1, p2, p3, p4, p5, p6}

PageSymmetry == Permutations(Pages)
=============================================================================
