----------------------------------- MODULE Iob -----------------------------------
(***************************************************************************)
(* The I/O bridge model of the simulation (tools/pli/iop: iob.cc, cpx.cc,  *)
(* pcx.h): it wakes the boot thread and turns the events of the diag into  *)
(* interrupts, which go to the cores as CPX packets, each asked for one    *)
(* cycle before it is sent.                                                *)
(*                                                                         *)
(* A cycle calls do_iob, drive_cpx and drive_req, in this order; program   *)
(* counters are reported in between cycles.  Packets are the interrupt     *)
(* they carry; the heaps that recycle them are left out.                   *)
(***************************************************************************)
EXTENDS Integers, Sequences

CONSTANTS
  BootMasks,     \* +bootthread: sets of bit numbers
  EventFile,     \* the lines of diag.ev
  RandomWaits    \* what random() & 7 may be

(* Event and boot files are well formed: numbers, a vector at least zero.  *)
ASSUME WaitsAssumption == RandomWaits \subseteq 0 .. 7 /\ RandomWaits # {}
ASSUME BootAssumption == BootMasks \subseteq SUBSET (0 .. 127)
ASSUME EventAssumption ==
  /\ EventFile \in Seq({EventFile[i] : i \in DOMAIN EventFile})
  /\ \A i \in DOMAIN EventFile :
       EventFile[i].thrid \in Int /\ EventFile[i].vec \in Nat /\ EventFile[i].wait \in Int

CPUS == 0 .. 7
NoPkt == [cpu |-> 0, vec |-> -1]

VARIABLES
  phase,              \* which call of the cycle is next
  inst_event,         \* events by program counter
  pcx_list, cpx_list, \* packets on their way
  Qsel,               \* requests a core has not granted yet
  grant, req,         \* the cores granted to, and asked
  pkt_vld, next_cpx, next_req,
  out,                \* the packet driven in this cycle
  asked,              \* the cores asked in this cycle and the one before
  raised, delivered   \* the interrupts raised, and those that were sent

evars == <<inst_event, raised>>
queues == <<pcx_list, cpx_list>>
wires == <<out, delivered, asked>>
flags == <<Qsel, grant, req, pkt_vld, next_cpx, next_req>>
vars == <<phase, evars, queues, wires, flags>>

cpu_id(thrid) == (thrid \div 4) % 8

(* What a loop over the list s pushes on another: the elements at places   *)
(* in T, in their order.                                                   *)
Pushed(s, T) ==
  LET p[i \in 0 .. Len(s)] ==
        IF i = 0 THEN << >>
        ELSE IF i \in T THEN Append(p[i - 1], s[i]) ELSE p[i - 1]
  IN  p[Len(s)]

(* The events of a program counter, in the order of the file; one without  *)
(* a count happens once.                                                   *)
get_event(pc) ==
  LET mine == Pushed(EventFile, {i \in DOMAIN EventFile :
                EventFile[i].what = "intp" /\ EventFile[i].pc = pc})
  IN  [i \in DOMAIN mine |->
         [irq  |-> [cpu |-> cpu_id(mine[i].thrid), vec |-> mine[i].vec],
          wait |-> IF mine[i].wait > 0 THEN mine[i].wait ELSE 1]]

(* The first bit of the mask is the thread that boots. *)
boot(mask) ==
  LET i == IF mask = {} THEN 128 ELSE CHOOSE b \in mask : \A c \in mask : b <= c
  IN  [irq |-> [cpu |-> cpu_id(i), vec |-> 1], wait |-> 1]

PCs == {EventFile[i].pc : i \in DOMAIN EventFile}

Init ==
  /\ phase = "do_iob"
  /\ inst_event = [pc \in PCs |-> get_event(pc)]
  /\ \E mask \in BootMasks :
       pcx_list = <<boot(mask)>> /\ raised = <<boot(mask).irq>>
  /\ cpx_list = << >>
  /\ Qsel = [c \in CPUS |-> 0] /\ grant = {} /\ req = {}
  /\ pkt_vld = FALSE /\ next_cpx = FALSE /\ next_req = FALSE
  /\ out = NoPkt /\ asked = <<{}, {}>> /\ delivered = << >>

-----------------------------------------------------------------------------
(* An event is counted down. *)
Counted(e) == [e EXCEPT !.wait = IF @ > 0 THEN @ - 1 ELSE @]

(* A program counter is reported: each of its events that is not used up   *)
(* raises its interrupt.                                                   *)
gen_event(pc) ==
  LET live == Pushed(inst_event[pc], {i \in DOMAIN inst_event[pc] :
                                        inst_event[pc][i].wait > 0})
  IN  /\ pcx_list' = pcx_list \o [i \in DOMAIN live |-> [irq |-> live[i].irq, wait |-> 3]]
      /\ raised' = raised \o [i \in DOMAIN live |-> live[i].irq]
      /\ inst_event' = [inst_event EXCEPT ![pc] = [i \in DOMAIN @ |-> Counted(@[i])]]

trig_pc_event(pc) ==
  /\ phase = "do_iob"
  /\ gen_event(pc)
  /\ UNCHANGED <<phase, cpx_list, wires, flags>>

-----------------------------------------------------------------------------
(* The CPX packet for an interrupt. *)
xlation(irq, r) ==
  [irq |-> irq, req_sent |-> 1, req_wait |-> r, cpx_wait |-> r + 1]

Dec(n) == IF n = 0 THEN 0 ELSE n - 1
dec_wait(c) == [c EXCEPT !.req_wait = Dec(@), !.cpx_wait = Dec(@)]
get_req_wait(c) == c.req_wait = 0 /\ c.req_sent = 1
get_cpx_wait(c) == c.cpx_wait = 0 /\ c.req_sent = 2

(* Mutant: a packet whose wait ran out is not held back. *)
MutGetReq(c) == [c EXCEPT !.req_sent = 2]

get_req(c) == [c EXCEPT !.req_sent = 2, !.cpx_wait = IF @ = 0 THEN 1 ELSE @]

(* Mutant: a translated packet goes in front of those that wait. *)
MutHandlePcx(r) ==
  IF pcx_list = << >> THEN [pcx |-> pcx_list, cpx |-> cpx_list]
  ELSE LET p == [Head(pcx_list) EXCEPT !.wait = @ - 1]
       IN  IF p.wait = 0
           THEN [pcx |-> Tail(pcx_list), cpx |-> <<xlation(p.irq, r)>> \o cpx_list]
           ELSE [pcx |-> <<p>> \o Tail(pcx_list), cpx |-> cpx_list]

(* The lists after handle_pcx: the front packet waits, then becomes a CPX  *)
(* packet with a random delay.                                             *)
handle_pcx(r) ==
  IF pcx_list = << >> THEN [pcx |-> pcx_list, cpx |-> cpx_list]
  ELSE LET p == [Head(pcx_list) EXCEPT !.wait = @ - 1]
       IN  IF p.wait = 0
           THEN [pcx |-> Tail(pcx_list), cpx |-> Append(cpx_list, xlation(p.irq, r))]
           ELSE [pcx |-> <<p>> \o Tail(pcx_list), cpx |-> cpx_list]

(* Mutant: what was granted stays outstanding. *)
MutGranted(q) == q

Granted(q) == [c \in CPUS |-> IF c \in grant THEN Dec(q[c]) ELSE q[c]]

(* handle_cpx on the list cpx and the counters q: the front packet asks    *)
(* its core unless two requests are outstanding, and is valid a cycle      *)
(* after it asked.                                                         *)
handle_cpx(cpx, q) ==
  IF cpx = << >>
  THEN cpx_list' = cpx /\ Qsel' = q /\ UNCHANGED <<req, next_req, pkt_vld>>
  ELSE LET c == dec_wait(Head(cpx))
           cpu == c.irq.cpu
           asks == get_req_wait(c) /\ q[cpu] # 2
           d == IF asks THEN get_req(c) ELSE c
       IN  /\ cpx_list' = <<d>> \o Tail(cpx)
           /\ IF asks
              THEN req' = {cpu} /\ next_req' = TRUE /\ Qsel' = [q EXCEPT ![cpu] = @ + 1]
              ELSE Qsel' = q /\ UNCHANGED <<req, next_req>>
           /\ pkt_vld' = (pkt_vld \/ get_cpx_wait(d))

(* grant is a signed char: shifted eight times it is all ones if core 7    *)
(* was in it.                                                              *)
do_iob ==
  /\ phase = "do_iob" /\ phase' = "drive_cpx"
  /\ grant' = IF 7 \in grant THEN CPUS ELSE {}
  /\ \E r \in RandomWaits :
       /\ pcx_list' = handle_pcx(r).pcx
       /\ handle_cpx(handle_pcx(r).cpx, Granted(Qsel))
  /\ UNCHANGED <<evars, wires, next_cpx>>

drive_cpx ==
  /\ phase = "drive_cpx" /\ phase' = "drive_req"
  /\ IF pkt_vld
     THEN /\ out' = Head(cpx_list).irq
          /\ cpx_list' = Tail(cpx_list)
          /\ delivered' = Append(delivered, Head(cpx_list).irq)
          /\ pkt_vld' = FALSE /\ next_cpx' = TRUE
     ELSE /\ out' = NoPkt /\ next_cpx' = FALSE
          /\ UNCHANGED <<cpx_list, delivered, pkt_vld>>
  /\ UNCHANGED <<evars, pcx_list, asked, Qsel, grant, req, next_req>>

drive_req ==
  /\ phase = "drive_req" /\ phase' = "do_iob"
  /\ IF next_req
     THEN grant' = req /\ next_req' = (req # {}) /\ req' = {}
     ELSE UNCHANGED <<grant, next_req, req>>
  /\ asked' = <<IF next_req THEN req ELSE {}, asked[1]>>
  /\ UNCHANGED <<evars, queues, out, delivered, Qsel, pkt_vld, next_cpx>>

Cycle == do_iob \/ drive_cpx \/ drive_req

Next == Cycle \/ \E pc \in PCs : trig_pc_event(pc)

Spec == Init /\ [][Next]_vars

(* The simulation calls the bridge every cycle, whatever the cores do.     *)
FairSpec == Spec /\ WF_vars(Cycle)

-----------------------------------------------------------------------------
(* Interrupts are neither lost, repeated nor reordered on their way: those *)
(* sent, those that wait as CPX packets and those that wait as PCX packets *)
(* are, one behind the other, those that were raised (handle_pcx,          *)
(* handle_cpx, drive_cpx).                                                 *)
InterruptsInOrder ==
  raised = delivered \o [i \in DOMAIN cpx_list |-> cpx_list[i].irq]
                     \o [i \in DOMAIN pcx_list |-> pcx_list[i].irq]

(* The crossbar's protocol: a packet is driven in the cycle after its core *)
(* was asked, and a core that was asked gets a packet in the next cycle,   *)
(* whatever the random delays were (get_req, get_cpx_wait, drive_req); and *)
(* between cycles a core has a request outstanding exactly when the grant  *)
(* for it is about to be seen, none forgotten and none counted twice, so   *)
(* that a core never has more than the two its queue takes; one packet at  *)
(* most has asked, the front one.                                          *)
RequestThenPacket ==
  phase = "do_iob" => asked[2] = IF out = NoPkt THEN {} ELSE {out.cpu}
QselAccounts ==
  phase = "do_iob" =>
    \A c \in CPUS : Qsel[c] = IF next_req /\ c \in grant THEN 1 ELSE 0
OneAsks ==
  /\ \A c \in CPUS : Qsel[c] \in 0 .. 2
  /\ \A i \in DOMAIN cpx_list : i > 1 => cpx_list[i].req_sent = 1
CrossbarProtocol == RequestThenPacket /\ QselAccounts /\ OneAsks

(* Every interrupt that was raised, the boot interrupt first, is sent in   *)
(* the end.                                                                *)
InterruptsDelivered ==
  \A n \in 1 .. 6 : Len(raised) >= n ~> Len(delivered) >= n
=============================================================================
