---------------------------------- MODULE MCIob ----------------------------------
(* A small diag.ev for TLC: two events at one program counter, one of them *)
(* twice, for cores that share a request line with the boot thread or not. *)
EXTENDS Iob

Ev(pc, thrid, vec, wait) ==
  [what |-> "intp", pc |-> pc, thrid |-> thrid, vec |-> vec, wait |-> wait]

ThreeEvents ==
  <<Ev("a", 1, 11, 2), Ev("a", 31, 12, 0), [Ev("b", 0, 13, 1) EXCEPT !.what = "halt"],
    Ev("b", 4, 14, 1)>>

Masks == {{0}, {}, {5, 40}, {31}}
Waits == {0, 1, 2, 7}
=============================================================================
