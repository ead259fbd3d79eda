------------------------------- MODULE MCHawkCtrl -------------------------------
(* Small instances of the control path for TLC. *)
EXTENDS HawkCtrlInv, TLC

CONSTANTS p1, p2

TwoPages == {p1, p2}
PageSymmetry == Permutations(Pages)
=============================================================================
