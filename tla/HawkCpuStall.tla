------------------------------ MODULE HawkCpuStall ------------------------------
(***************************************************************************)
(* One stalled CPU address channel (hawk_cpu_stall_rd.sv,                  *)
(* hawk_cpu_stall_wr.sv): it accepts one AXI address from the CPU, holds   *)
(* it until the control unit grants the access, then sends it on with the  *)
(* page number replaced.  A step is one clock cycle; the CPU's valid and   *)
(* the memory's ready are free inputs of every cycle.                      *)
(***************************************************************************)
CONSTANTS Pages, NoPage

VARIABLES
  stall,  \* the registers of the channel
  ovrd    \* hawk_cpu_ovrd_pkt of the control unit, an input here

(* An address: the page the CPU asked for, or the way HAWK answered with,  *)
(* named by the page it was looked up for.                                 *)
Addr == [kind : {"hppa", "ppa"}, page : Pages \cup {NoPage}]
NoAddr == [kind |-> "hppa", page |-> NoPage]

Ovrd == [allow_access : BOOLEAN, ppa : Pages \cup {NoPage}]

(* want is not in the code: the page the CPU last asked for.               *)
Stall == [p_state : {"IDLE", "WAIT"}, allow_cpu_access : BOOLEAN, addr : Addr,
          m_valid : BOOLEAN, s_ready : BOOLEAN, want : Pages \cup {NoPage}]

Reset == [p_state |-> "IDLE", allow_cpu_access |-> FALSE, addr |-> NoAddr,
          m_valid |-> FALSE, s_ready |-> FALSE, want |-> NoPage]

(* Mutant: the request stays up in the cycle its grant arrives.            *)
MutValid == stall.p_state = "WAIT" /\ ~ stall.allow_cpu_access

(* cpu_reqpkt.valid                                                        *)
valid == /\ stall.p_state = "WAIT"
         /\ ~ ovrd.allow_access
         /\ ~ stall.allow_cpu_access

(* The output register empties when the memory takes the address.          *)
Drained(m_ready) == stall.m_valid /\ ~ m_ready

(* s_*ready and s_*valid: the CPU's address is taken and HAWK's permission *)
(* of the last one forgotten.                                              *)
Accept(p, m_ready) ==
  /\ stall.p_state = "IDLE"
  /\ stall.s_ready
  /\ stall' = [stall EXCEPT !.p_state = "WAIT", !.s_ready = FALSE,
                            !.addr = [kind |-> "hppa", page |-> p],
                            !.want = p,
                            !.m_valid = Drained(m_ready),
                            !.allow_cpu_access = ovrd.allow_access]
(* Mutant: the next address is taken before the memory took the last.      *)
MutIdle(m_ready) ==
  /\ stall.p_state = "IDLE"
  /\ stall' = [stall EXCEPT !.s_ready = TRUE,
                            !.m_valid = Drained(m_ready),
                            !.allow_cpu_access = @ \/ ovrd.allow_access]

Idle(m_ready) ==
  /\ stall.p_state = "IDLE"
  /\ stall' = [stall EXCEPT !.s_ready = ~ stall.m_valid,
                            !.m_valid = Drained(m_ready),
                            !.allow_cpu_access = @ \/ ovrd.allow_access]

Wait(m_ready) ==
  /\ stall.p_state = "WAIT"
  /\ ~ stall.allow_cpu_access
  /\ stall' = [stall EXCEPT !.s_ready = FALSE,
                            !.m_valid = Drained(m_ready),
                            !.allow_cpu_access = ovrd.allow_access]

Proceed ==
  /\ stall.p_state = "WAIT"
  /\ stall.allow_cpu_access
  /\ stall' = [stall EXCEPT !.p_state = "IDLE", !.s_ready = FALSE,
                            !.addr = [kind |-> "ppa", page |-> ovrd.ppa],
                            !.m_valid = TRUE]

Cycle(m_ready) == \/ \E p \in Pages : Accept(p, m_ready)
                  \/ Idle(m_ready)
                  \/ Wait(m_ready)
                  \/ Proceed
=============================================================================
