------------------------------- MODULE ImageFlow -------------------------------
(***************************************************************************)
(* From a diag to the memory of the simulated system: goldfinger splits a  *)
(* diag or turns linked executables into an image, and the PLI memory      *)
(* model loads the image and serves the simulation.                        *)
(***************************************************************************)
EXTENDS Goldfinger, GfSplit, PliMem

CONSTANTS
  SplitLines, MAX_LINES,     \* the lines of a diag, and how many it has
  WriteVals                  \* what the simulation writes

ASSUME SplitLinesAssumption == SplitLines \subseteq DiagLine
ASSUME ProbesAssumption == \A i \in Inputs : i.probes \subseteq Nat

VARIABLES
  used,      \* accesses made so far
  shadow     \* what a reader of each address of the run should see

simvars == <<used, shadow>>
vars == <<gfvars, splitvars, memvars, simvars>>

Init ==
  /\ GfInit
  /\ SplitInit
  /\ MemInit
  /\ used = 0
  /\ shadow = [a \in input.probes |-> 0]

(* main: the command line, the splitter if it was asked for, the image. *)
main ==
  /\ stage = "cmdline" /\ pos > Len(input.args)
  /\ sstage = "done" \/ ~opts.splitsec
  /\ Goto(IF opts.in THEN "parse" ELSE "exit")
  /\ UNCHANGED <<input, opts, sec, open, objects, physmap, image, symbols, err>>
  /\ UNCHANGED <<splitvars, memvars, simvars>>

Split ==
  /\ stage = "cmdline" /\ pos > Len(input.args) /\ opts.splitsec
  /\ \/ \E l \in SplitLines : Len(lines) < MAX_LINES /\ SplitLine(l)
     \/ EndOfDiag
  /\ UNCHANGED <<gfvars, memvars, simvars>>

GenerateImage == GfNext /\ UNCHANGED <<splitvars, memvars, simvars>>

read_mem ==
  /\ stage = "done" /\ opts.genimage
  /\ LoadNext(image)
  /\ shadow' = IF next' = 0 THEN [a \in DOMAIN shadow |-> Memory(a)] ELSE shadow
  /\ UNCHANGED <<gfvars, splitvars, used>>

SimRead ==
  /\ used < input.accesses /\ used' = used + 1
  /\ \E a \in input.probes : read_64b_call(a)
  /\ UNCHANGED <<gfvars, splitvars, shadow>>

SimWrite ==
  /\ used < input.accesses /\ used' = used + 1
  /\ \E a \in input.probes, v \in WriteVals :
       /\ write_64b_call(a, v)
       /\ shadow' = [b \in DOMAIN shadow |->
                       IF b % MEM_SPACE = a % MEM_SPACE THEN v ELSE shadow[b]]
  /\ UNCHANGED <<gfvars, splitvars>>

Next == main \/ Split \/ GenerateImage \/ read_mem \/ SimRead \/ SimWrite

Spec == Init /\ [][Next]_vars
=============================================================================
