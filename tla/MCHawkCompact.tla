---------------------------- MODULE MCHawkCompact ----------------------------
(***************************************************************************)
(* The engine with its compacter for TLC.  The software first touches the  *)
(* pages one after the other, until the ways are zspages, all full, and    *)
(* four uncompressed pages; from then on it comes back to some of the      *)
(* compressed pages, in any order.                                         *)
(***************************************************************************)
EXTENDS HawkCompact, Sequences

CONSTANTS p1, p2, p3, p4, p5, p6, p7, p8, p9, p10, p11, p12, p13,
          Returning,   \* the pages the software comes back to
          MaxLookups   \* bound on the lookups of a behaviour

VARIABLE served        \* lookups so far

Order == <<p1, p2, p3, p4, p5, p6, p7, p8, p9, p10, p11, p12, p13>>
Pages10 == {p1, p2, p3, p4, p5, p6, p7, p8, p9, p10}
Pages13 == Pages10 \cup {p11, p12, p13}

SoftwareLookup ==
  /\ served < MaxLookups
  /\ \E c \in Chans, p \in Pages :
       /\ IF served < Cardinality(Pages) THEN p = Order[served + 1]
          ELSE p \in Returning /\ att[p].sts = "COMP"
       /\ CLookup(c, p)
  /\ served' = served + 1

(* Where the switch stands matters to an idle engine only.                 *)
SwitchMoved == prm = "IDLE" /\ served >= Cardinality(Pages) /\ MoveSwitch

SoftwareEnds == prm = "IDLE" /\ init_list_done /\ UNCHANGED <<cvars, served>>

MCInit == CInit /\ served = 0
MCNext == \/ SoftwareLookup
          \/ SoftwareEnds
          \/ /\ \/ EngineStep \/ CptStep \/ AroundStep \/ CptReadError
                \/ SwitchMoved \/ StayStuck
             /\ UNCHANGED served

MCSpec == /\ MCInit /\ [][MCNext]_<<cvars, served>>
          /\ WF_<<cvars, served>>((EngineStep \/ CptStep) /\ UNCHANGED served)
=============================================================================
