-------------------------------- MODULE IobProofs --------------------------------
(***************************************************************************)
(* Proofs about the I/O bridge, for every event file, boot mask and choice *)
(* of random delays: interrupts stay in order and the crossbar's protocol  *)
(* is kept.                                                                *)
(***************************************************************************)
EXTENDS Iob, SequenceTheorems, WellFoundedInduction, TLAPS

Irq == [cpu : CPUS, vec : Nat]
Event == [irq : Irq, wait : Nat]
PcxPkt == [irq : Irq, wait : Nat \ {0}]
CpxPkt == [irq : Irq, req_sent : {1, 2}, req_wait : Nat, cpx_wait : Nat]
irqs(s) == [i \in DOMAIN s |-> s[i].irq]

Types ==
  /\ phase \in {"do_iob", "drive_cpx", "drive_req"}
  /\ inst_event \in [PCs -> Seq(Event)]
  /\ pcx_list \in Seq(PcxPkt) /\ cpx_list \in Seq(CpxPkt)
  /\ Qsel \in [CPUS -> 0 .. 2] /\ grant \in SUBSET CPUS /\ req \in SUBSET CPUS
  /\ pkt_vld \in BOOLEAN /\ next_req \in BOOLEAN
  /\ out \in Irq \cup {NoPkt}
  /\ raised \in Seq(Irq) /\ delivered \in Seq(Irq)

(* A packet is valid at the latest in the cycle after it asks, since it    *)
(* waits one cycle more for that than for asking, and only the front one   *)
(* has asked.                                                              *)
DelaysIn(c) == \A i \in DOMAIN c : /\ c[i].cpx_wait <= c[i].req_wait + 1
                                   /\ i > 1 => c[i].req_sent = 1
Delays == DelaysIn(cpx_list)

Requests(C) == [c \in CPUS |-> IF c \in C THEN 1 ELSE 0]
FrontAsked == cpx_list # << >> /\ cpx_list[1].req_sent = 2
FrontWaits == cpx_list # << >> => cpx_list[1].req_sent = 1

(* No request is under way; ...                                            *)
AtRest == /\ ~ next_req /\ ~ pkt_vld /\ req = {} /\ grant = {} /\ Qsel = Requests({})
          /\ FrontWaits /\ asked[1] = {}
(* ... the front packet has asked in this cycle, ...                       *)
Asking == /\ next_req /\ ~ pkt_vld /\ FrontAsked
          /\ req = {cpx_list[1].irq.cpu} /\ Qsel = Requests(req)
          /\ cpx_list[1].cpx_wait = 1 /\ asked[1] = {}
(* ... between cycles it is seen to have asked, ...                        *)
Granted1 == /\ next_req /\ ~ pkt_vld /\ FrontAsked
            /\ req = {} /\ grant = {cpx_list[1].irq.cpu} /\ Qsel = Requests(grant)
            /\ cpx_list[1].cpx_wait = 1 /\ asked[1] = grant
(* ... it is valid, the grant is counted, ...                              *)
Valid == /\ next_req /\ pkt_vld /\ FrontAsked
         /\ req = {} /\ Qsel = Requests({}) /\ asked[1] = {cpx_list[1].irq.cpu}
(* ... and it was sent.                                                    *)
Sent == /\ next_req /\ ~ pkt_vld /\ FrontWaits
        /\ req = {} /\ Qsel = Requests({}) /\ out \in Irq /\ asked[1] = {out.cpu}

AskedFor(o) == IF o = NoPkt THEN {} ELSE {o.cpu}
Stages ==
  /\ phase = "do_iob" => asked[2] = AskedFor(out) /\ (AtRest \/ (Granted1 /\ out = NoPkt))
  /\ phase = "drive_cpx" => AtRest \/ Asking \/ Valid
  /\ phase = "drive_req" => ((AtRest \/ Asking) /\ out = NoPkt) \/ Sent

IInv == Types /\ Delays /\ Stages

-----------------------------------------------------------------------------
(* Sequences.                                                              *)

(* A set of numbers has a least element.                                   *)
LEMMA LeastNat ==
  ASSUME NEW T, T \subseteq Nat, T # {}
  PROVE  \E x \in T : \A y \in T : x <= y
<1>1. \E x \in T : \A y \in T : ~ (<<y, x>> \in OpToRel(<, Nat))
  BY NatLessThanWellFounded, WFMin, ZenonT(20)
<1>2. \A x, y \in Nat : (<<y, x>> \in OpToRel(<, Nat)) <=> y < x
  BY DEF OpToRel
<1>3. PICK x \in T : \A y \in T : ~ (y < x)
  BY <1>1, <1>2
<1>4. \A y \in T : x <= y
  BY <1>3
<1> QED BY <1>4

(* A loop pushes elements of the list it runs over.                        *)
IsPushed(p, s, T, n) ==
  p = [i \in 0 .. n |-> IF i = 0 THEN << >>
                        ELSE IF i \in T THEN Append(p[i - 1], s[i]) ELSE p[i - 1]]
LEMMA PushedExists ==
  ASSUME NEW s, NEW T, Len(s) \in Nat
  PROVE  \A n \in 0 .. Len(s) : \E p : IsPushed(p, s, T, n)
<1> DEFINE B == {n \in 0 .. Len(s) : ~ \E p : IsPushed(p, s, T, n)}
<1> SUFFICES ASSUME B # {} PROVE FALSE OBVIOUS
<1>1. PICK n \in B : \A i \in B : n <= i
  <2>1. B \subseteq Nat
    OBVIOUS
  <2> HIDE DEF B
  <2> QED BY <2>1, LeastNat
<1>2. n \in 0 .. Len(s)
  OBVIOUS
<1>3. n # 0
  <2>1. IsPushed([i \in 0 .. 0 |-> << >>], s, T, 0)
    BY DEF IsPushed
  <2> QED BY <2>1
<1>4. n - 1 \in 0 .. Len(s) /\ n - 1 \notin B
  BY <1>1, <1>2, <1>3
<1>5. PICK f : IsPushed(f, s, T, n - 1)
  BY <1>4
<1> DEFINE g == [i \in 0 .. n |->
                   IF i = n THEN IF n \in T THEN Append(f[n - 1], s[n]) ELSE f[n - 1]
                   ELSE f[i]]
<1>6. ASSUME NEW i \in 0 .. n
      PROVE  g[i] = IF i = 0 THEN << >>
                    ELSE IF i \in T THEN Append(g[i - 1], s[i]) ELSE g[i - 1]
  <2>1. CASE i = n
    <3>1. /\ g[n] = IF n \in T THEN Append(f[n - 1], s[n]) ELSE f[n - 1]
          /\ g[n - 1] = f[n - 1]
      BY <1>2, <1>4
    <3> QED BY <1>3, <2>1, <3>1
  <2>2. CASE i # n
    <3>1. i \in 0 .. n - 1 /\ g[i] = f[i]
      BY <1>2, <2>2
    <3>2. f[i] = IF i = 0 THEN << >>
                 ELSE IF i \in T THEN Append(f[i - 1], s[i]) ELSE f[i - 1]
      BY <1>5, <3>1 DEF IsPushed
    <3>3. i # 0 => i - 1 \in 0 .. n /\ i - 1 # n /\ g[i - 1] = f[i - 1]
      BY <1>2, <3>1
    <3> QED BY <3>1, <3>2, <3>3
  <2> QED BY <2>1, <2>2
<1>7. IsPushed(g, s, T, n)
  <2>1. g = [i \in 0 .. n |-> g[i]]
    OBVIOUS
  <2> QED
    <3> HIDE DEF g
    <3> QED BY <1>6, <2>1 DEF IsPushed
<1> QED BY <1>7

(* What is pushed keeps its type.                                         *)
LEMMA PushedType ==
  ASSUME NEW S, NEW s \in Seq(S), NEW T
  PROVE  Pushed(s, T) \in Seq(S)
<1> DEFINE p == CHOOSE p : IsPushed(p, s, T, Len(s))
<1>0. Len(s) \in Nat /\ \A i \in 1 .. Len(s) : s[i] \in S
  BY LenProperties, ElementOfSeq
<1>1. IsPushed(p, s, T, Len(s))
  <2>1. Len(s) \in 0 .. Len(s)
    BY <1>0
  <2>2. \E q : IsPushed(q, s, T, Len(s))
    BY <1>0, <2>1, PushedExists
  <2> QED BY <2>2
<1>2. Pushed(s, T) = p[Len(s)]
  BY DEF Pushed, IsPushed
<1> HIDE DEF p
<1> DEFINE B == {n \in 0 .. Len(s) : p[n] \notin Seq(S)}
<1>3. SUFFICES ASSUME B # {} PROVE FALSE
  BY <1>0, <1>2
<1>4. PICK n \in B : \A i \in B : n <= i
  <2>1. B \subseteq Nat
    BY <1>0
  <2> HIDE DEF B
  <2> QED BY <1>3, <2>1, LeastNat
<1>5. n \in 0 .. Len(s) /\ p[n] \notin Seq(S)
  OBVIOUS
<1>6. p[n] = IF n = 0 THEN << >>
             ELSE IF n \in T THEN Append(p[n - 1], s[n]) ELSE p[n - 1]
  BY <1>1, <1>5 DEF IsPushed
<1>7. n # 0
  BY <1>5, <1>6, EmptySeq
<1>8. n - 1 \in 0 .. Len(s) /\ n - 1 \notin B /\ s[n] \in S
  BY <1>0, <1>4, <1>5, <1>7
<1>9. p[n - 1] \in Seq(S)
  BY <1>8
<1> QED BY <1>5, <1>6, <1>7, <1>8, <1>9, AppendProperties

(* The front of a list is replaced.                                        *)
LEMMA FrontReplaced ==
  ASSUME NEW S, NEW s \in Seq(S), s # << >>, NEW d \in S
  PROVE  LET t == <<d>> \o Tail(s)
         IN  /\ t \in Seq(S) /\ t # << >> /\ Len(t) = Len(s) /\ t[1] = d
             /\ \A i \in 1 .. Len(s) : i > 1 => t[i] = s[i]
<1> DEFINE t == <<d>> \o Tail(s)
<1>1. /\ <<d>> \in Seq(S) /\ Len(<<d>>) = 1 /\ <<d>>[1] = d
      /\ Tail(s) \in Seq(S) /\ Len(Tail(s)) = Len(s) - 1
      /\ \A i \in 1 .. Len(s) - 1 : Tail(s)[i] = s[i + 1]
      /\ Len(s) \in Nat \ {0}
  BY HeadTailProperties, EmptySeq
<1>2. /\ t \in Seq(S) /\ Len(t) = 1 + (Len(s) - 1)
      /\ \A i \in 1 .. 1 + (Len(s) - 1) : t[i] = IF i <= 1 THEN <<d>>[i] ELSE Tail(s)[i - 1]
  BY <1>1, ConcatProperties
<1>3. t # << >> /\ Len(t) = Len(s)
  BY <1>1, <1>2, EmptySeq
<1>4. t[1] = d
  BY <1>1, <1>2
<1>5. ASSUME NEW i \in 1 .. Len(s), i > 1 PROVE t[i] = s[i]
  <2>1. t[i] = Tail(s)[i - 1]
    BY <1>1, <1>2, <1>5
  <2>2. i - 1 \in 1 .. Len(s) - 1 /\ (i - 1) + 1 = i
    BY <1>1, <1>5
  <2> QED BY <1>1, <2>1, <2>2
<1> QED BY <1>2, <1>3, <1>4, <1>5

(* The interrupts of a list of packets.                                    *)
LEMMA IrqsType ==
  ASSUME NEW S, NEW s \in Seq(S), \A x \in S : x.irq \in Irq
  PROVE  /\ irqs(s) \in Seq(Irq) /\ Len(irqs(s)) = Len(s)
         /\ \A i \in 1 .. Len(s) : irqs(s)[i] = s[i].irq
<1>1. DOMAIN s = 1 .. Len(s) /\ Len(s) \in Nat /\ \A i \in 1 .. Len(s) : s[i] \in S
  BY LenProperties, ElementOfSeq
<1> DEFINE f == [i \in 1 .. Len(s) |-> s[i].irq]
<1>2. irqs(s) = f
  BY <1>1 DEF irqs
<1>3. f \in [1 .. Len(s) -> Irq] /\ DOMAIN f = 1 .. Len(s)
  BY <1>1
<1>4. \A i \in 1 .. Len(s) : f[i] = s[i].irq
  OBVIOUS
<1> HIDE DEF f
<1>5. f \in Seq(Irq)
  BY <1>1, <1>3, SeqDef
<1>6. Len(f) = Len(s)
  BY <1>1, <1>3, <1>5, LenProperties
<1> QED BY <1>2, <1>4, <1>5, <1>6

(* The interrupts of two lists, one behind the other.                     *)
LEMMA IrqsConcat ==
  ASSUME NEW S, NEW s \in Seq(S), NEW t \in Seq(S), \A x \in S : x.irq \in Irq
  PROVE  irqs(s \o t) = irqs(s) \o irqs(t)
<1> DEFINE a == irqs(s \o t)
           b == irqs(s) \o irqs(t)
<1>1. /\ s \o t \in Seq(S) /\ Len(s \o t) = Len(s) + Len(t)
      /\ \A i \in 1 .. Len(s) + Len(t) :
           (s \o t)[i] = IF i <= Len(s) THEN s[i] ELSE t[i - Len(s)]
      /\ Len(s) \in Nat /\ Len(t) \in Nat
  BY ConcatProperties, LenProperties
<1>2. /\ irqs(s) \in Seq(Irq) /\ Len(irqs(s)) = Len(s)
      /\ irqs(t) \in Seq(Irq) /\ Len(irqs(t)) = Len(t)
      /\ \A i \in 1 .. Len(s) : irqs(s)[i] = s[i].irq
      /\ \A i \in 1 .. Len(t) : irqs(t)[i] = t[i].irq
      /\ a \in Seq(Irq) /\ Len(a) = Len(s) + Len(t)
      /\ \A i \in 1 .. Len(s) + Len(t) : a[i] = (s \o t)[i].irq
  BY <1>1, IrqsType
<1>3. /\ b \in Seq(Irq) /\ Len(b) = Len(s) + Len(t)
      /\ \A i \in 1 .. Len(s) + Len(t) :
           b[i] = IF i <= Len(s) THEN irqs(s)[i] ELSE irqs(t)[i - Len(s)]
  <2>1. irqs(s) \in Seq(Irq) /\ irqs(t) \in Seq(Irq)
    BY <1>2
  <2>2. /\ b \in Seq(Irq) /\ Len(b) = Len(irqs(s)) + Len(irqs(t))
        /\ \A i \in 1 .. Len(irqs(s)) + Len(irqs(t)) :
             b[i] = IF i <= Len(irqs(s)) THEN irqs(s)[i] ELSE irqs(t)[i - Len(irqs(s))]
    BY <2>1, ConcatProperties
  <2>3. Len(irqs(s)) = Len(s) /\ Len(irqs(t)) = Len(t)
    BY <1>2
  <2> HIDE DEF b
  <2> QED BY <2>2, <2>3
<1> HIDE DEF a, b
<1>4. ASSUME NEW i \in 1 .. Len(a) PROVE a[i] = b[i]
  <2>0. i \in 1 .. Len(s) + Len(t)
    BY <1>2
  <2>1. CASE i <= Len(s)
    <3>1. i \in 1 .. Len(s)
      BY <1>1, <2>0, <2>1
    <3> QED BY <1>1, <1>2, <1>3, <2>0, <2>1, <3>1
  <2>2. CASE ~ (i <= Len(s))
    <3>1. i - Len(s) \in 1 .. Len(t)
      BY <1>1, <2>0, <2>2
    <3> QED BY <1>1, <1>2, <1>3, <2>0, <2>2, <3>1
  <2> QED BY <2>1, <2>2
<1>5. a = b
  BY <1>2, <1>3, <1>4, SeqEqual
<1> QED BY <1>5 DEF a, b

(* The interrupt of one packet.                                           *)
LEMMA IrqsOne ==
  ASSUME NEW S, NEW e \in S, \A x \in S : x.irq \in Irq
  PROVE  <<e>> \in Seq(S) /\ irqs(<<e>>) = <<e.irq>>
<1>1. <<e>> \in Seq(S) /\ DOMAIN <<e>> = 1 .. 1 /\ <<e>>[1] = e
  OBVIOUS
<1>2. irqs(<<e>>) = [i \in 1 .. 1 |-> e.irq]
  BY <1>1 DEF irqs
<1> QED BY <1>1, <1>2

(* A list taken apart at its front.                                        *)
LEMMA FrontApart ==
  ASSUME NEW S, NEW s \in Seq(S), s # << >>
  PROVE  s[1] \in S /\ Head(s) = s[1] /\ Tail(s) \in Seq(S) /\ s = <<s[1]>> \o Tail(s)
<1>1. /\ Len(s) \in Nat \ {0} /\ s[1] \in S /\ Head(s) = s[1] /\ Tail(s) \in Seq(S)
  BY EmptySeq, ElementOfSeq, HeadTailProperties
<1> DEFINE t == <<s[1]>> \o Tail(s)
<1>2. /\ t \in Seq(S) /\ Len(t) = Len(s) /\ t[1] = s[1]
      /\ \A i \in 1 .. Len(s) : i > 1 => t[i] = s[i]
  BY <1>1, FrontReplaced
<1> HIDE DEF t
<1>3. \A i \in 1 .. Len(s) : t[i] = s[i]
  BY <1>1, <1>2
<1>4. t = s
  BY <1>2, <1>3, SeqEqual
<1> QED BY <1>1, <1>4 DEF t

(* The interrupts of a list whose front is replaced by its older self.    *)
LEMMA IrqsFront ==
  ASSUME NEW S, NEW s \in Seq(S), s # << >>, NEW d \in S, d.irq = s[1].irq,
         \A x \in S : x.irq \in Irq
  PROVE  /\ irqs(s) = <<s[1].irq>> \o irqs(Tail(s))
         /\ irqs(<<d>> \o Tail(s)) = irqs(s)
<1>1. /\ s[1] \in S /\ Tail(s) \in Seq(S) /\ s = <<s[1]>> \o Tail(s)
      /\ <<s[1]>> \in Seq(S) /\ <<d>> \in Seq(S)
  BY FrontApart, IrqsOne
<1>2. irqs(<<s[1]>> \o Tail(s)) = irqs(<<s[1]>>) \o irqs(Tail(s))
  BY <1>1, IrqsConcat
<1>3. irqs(<<d>> \o Tail(s)) = irqs(<<d>>) \o irqs(Tail(s))
  BY <1>1, IrqsConcat
<1>4. irqs(<<s[1]>>) = <<s[1].irq>> /\ irqs(<<d>>) = <<s[1].irq>>
  BY <1>1, IrqsOne
<1> QED BY <1>1, <1>2, <1>3, <1>4

(* Lists of interrupts may be put together in any grouping.               *)
LEMMA Apart == \A a, b, c \in Seq(Irq) : (a \o b) \o c = a \o (b \o c)
BY ConcatAssociative

(* Packets and events carry interrupts.                                   *)
LEMMA PktIrqs ==
  /\ \A x \in PcxPkt : x.irq \in Irq
  /\ \A x \in CpxPkt : x.irq \in Irq
  /\ \A x \in Event : x.irq \in Irq
BY DEF PcxPkt, CpxPkt, Event

(* handle_pcx keeps the types, the delays, the front of the CPX list and   *)
(* the order of the interrupts.                                            *)
LEMMA AfterPcx ==
  ASSUME pcx_list \in Seq(PcxPkt), cpx_list \in Seq(CpxPkt), Delays, NEW r \in RandomWaits
  PROVE  LET h == handle_pcx(r)
         IN  /\ h.pcx \in Seq(PcxPkt) /\ h.cpx \in Seq(CpxPkt) /\ DelaysIn(h.cpx)
             /\ cpx_list # << >> => h.cpx # << >> /\ h.cpx[1] = cpx_list[1]
             /\ cpx_list = << >> /\ h.cpx # << >> => h.cpx[1].req_sent = 1
             /\ irqs(h.cpx) \o irqs(h.pcx) = irqs(cpx_list) \o irqs(pcx_list)
<1>0. r \in 0 .. 7
  BY WaitsAssumption
<1>1. CASE pcx_list = << >>
  <2>1. handle_pcx(r).pcx = pcx_list /\ handle_pcx(r).cpx = cpx_list
    BY <1>1 DEF handle_pcx
  <2> QED BY <2>1 DEF Delays
<1>2. CASE pcx_list # << >>
  <2> DEFINE p == [Head(pcx_list) EXCEPT !.wait = @ - 1]
             x == xlation(p.irq, r)
  <2>1. /\ pcx_list[1] \in PcxPkt /\ Head(pcx_list) = pcx_list[1]
        /\ Tail(pcx_list) \in Seq(PcxPkt)
    BY <1>2, FrontApart
  <2>2. p.irq = pcx_list[1].irq /\ p.irq \in Irq /\ p.wait \in Nat
        /\ (p.wait # 0 => p \in PcxPkt)
    BY <2>1 DEF PcxPkt
  <2>3. CASE p.wait = 0
    <3>1. handle_pcx(r).pcx = Tail(pcx_list) /\ handle_pcx(r).cpx = Append(cpx_list, x)
      BY <1>2, <2>3 DEF handle_pcx
    <3>2. /\ x \in CpxPkt /\ x.irq = p.irq /\ x.req_sent = 1
          /\ x.cpx_wait <= x.req_wait + 1
      BY <1>0, <2>2 DEF xlation, CpxPkt
    <3> HIDE DEF x
    <3>3. /\ Append(cpx_list, x) \in Seq(CpxPkt) /\ Append(cpx_list, x) # << >>
          /\ Len(Append(cpx_list, x)) = Len(cpx_list) + 1 /\ Len(cpx_list) \in Nat
          /\ \A i \in 1 .. Len(cpx_list) + 1 :
               Append(cpx_list, x)[i] = IF i = Len(cpx_list) + 1 THEN x ELSE cpx_list[i]
      BY <3>2, AppendProperties, LenProperties
    <3>4. DOMAIN Append(cpx_list, x) = 1 .. Len(cpx_list) + 1
          /\ DOMAIN cpx_list = 1 .. Len(cpx_list)
      BY <3>3, LenProperties
    <3>5. DelaysIn(Append(cpx_list, x))
      <4> DEFINE t == Append(cpx_list, x)
      <4> SUFFICES ASSUME NEW i \in 1 .. Len(cpx_list) + 1
                   PROVE  /\ t[i].cpx_wait <= t[i].req_wait + 1
                          /\ i > 1 => t[i].req_sent = 1
        BY <3>4 DEF DelaysIn
      <4>1. CASE i = Len(cpx_list) + 1
        BY <3>2, <3>3, <4>1
      <4>2. CASE i # Len(cpx_list) + 1
        <5>1. i \in 1 .. Len(cpx_list) /\ t[i] = cpx_list[i]
          BY <3>3, <4>2
        <5> QED BY <3>4, <5>1 DEF Delays, DelaysIn
      <4> QED BY <4>1, <4>2
    <3>6. cpx_list # << >> => Append(cpx_list, x)[1] = cpx_list[1]
      <4> SUFFICES ASSUME cpx_list # << >> PROVE Append(cpx_list, x)[1] = cpx_list[1]
        OBVIOUS
      <4>1. Len(cpx_list) >= 1
        BY <3>3, EmptySeq
      <4> QED BY <3>3, <4>1
    <3>7. cpx_list = << >> => Append(cpx_list, x)[1] = x
      BY <3>3, EmptySeq
    <3>8. irqs(Append(cpx_list, x)) \o irqs(Tail(pcx_list)) = irqs(cpx_list) \o irqs(pcx_list)
      <4>1. Append(cpx_list, x) = cpx_list \o <<x>> /\ <<x>> \in Seq(CpxPkt)
            /\ irqs(<<x>>) = <<x.irq>>
        BY <3>2, AppendIsConcat, IrqsOne, PktIrqs
      <4>2. irqs(cpx_list \o <<x>>) = irqs(cpx_list) \o <<x.irq>>
        BY <4>1, IrqsConcat, PktIrqs
      <4>3. irqs(pcx_list) = <<x.irq>> \o irqs(Tail(pcx_list))
        BY <1>2, <2>1, <2>2, <3>2, IrqsFront, PktIrqs
      <4>4. /\ irqs(cpx_list) \in Seq(Irq) /\ irqs(Tail(pcx_list)) \in Seq(Irq)
            /\ <<x.irq>> \in Seq(Irq)
        <5>1. irqs(cpx_list) \in Seq(Irq)
          BY IrqsType, PktIrqs
        <5>2. irqs(Tail(pcx_list)) \in Seq(Irq)
          BY <2>1, IrqsType, PktIrqs
        <5>3. x.irq \in Irq
          BY <2>2, <3>2
        <5> QED BY <5>1, <5>2, <5>3
      <4>5. (irqs(cpx_list) \o <<x.irq>>) \o irqs(Tail(pcx_list))
              = irqs(cpx_list) \o (<<x.irq>> \o irqs(Tail(pcx_list)))
        BY <4>4, ConcatAssociative
      <4> QED BY <4>1, <4>2, <4>3, <4>5
    <3> QED BY <2>1, <3>1, <3>2, <3>3, <3>5, <3>6, <3>7, <3>8
  <2>4. CASE p.wait # 0
    <3>1. handle_pcx(r).pcx = <<p>> \o Tail(pcx_list) /\ handle_pcx(r).cpx = cpx_list
      BY <1>2, <2>4 DEF handle_pcx
    <3> HIDE DEF p
    <3>2. <<p>> \o Tail(pcx_list) \in Seq(PcxPkt)
      BY <1>2, <2>2, <2>4, FrontReplaced
    <3>3. irqs(<<p>> \o Tail(pcx_list)) = irqs(pcx_list)
      BY <1>2, <2>2, <2>4, IrqsFront, PktIrqs
    <3> QED BY <3>1, <3>2, <3>3 DEF Delays
  <2> QED BY <2>3, <2>4
<1> QED BY <1>1, <1>2

-----------------------------------------------------------------------------
(* The initial state.                                                      *)

(* A thread number has a core.                                            *)
LEMMA CpuIds == \A n \in Int : cpu_id(n) \in CPUS
<1> TAKE n \in Int
<1>1. n \div 4 \in Int
  OBVIOUS
<1> QED BY <1>1 DEF cpu_id, CPUS

(* The boot packet is a packet.                                           *)
LEMMA BootIrq == ASSUME NEW mask \in BootMasks PROVE boot(mask) \in PcxPkt
<1> DEFINE i == IF mask = {} THEN 128 ELSE CHOOSE b \in mask : \A c \in mask : b <= c
<1>1. mask \subseteq Nat
  BY BootAssumption
<1>2. mask # {} => i \in mask
  <2> SUFFICES ASSUME mask # {} PROVE i \in mask
    OBVIOUS
  <2>1. \E b \in mask : \A c \in mask : b <= c
    BY <1>1, LeastNat
  <2> QED BY <2>1
<1>3. i \in Nat
  BY <1>1, <1>2
<1> HIDE DEF i
<1>4. cpu_id(i) \in CPUS
  BY <1>3, CpuIds
<1>5. boot(mask) = [irq |-> [cpu |-> cpu_id(i), vec |-> 1], wait |-> 1]
  BY DEF boot, i
<1> QED BY <1>4, <1>5 DEF PcxPkt, Irq

(* The events of a program counter are events.                            *)
LEMMA EventTypes == ASSUME NEW pc PROVE get_event(pc) \in Seq(Event)
<1> DEFINE Lines == {EventFile[i] : i \in DOMAIN EventFile}
           mine == Pushed(EventFile, {i \in DOMAIN EventFile :
                     EventFile[i].what = "intp" /\ EventFile[i].pc = pc})
           ev(l) == [irq  |-> [cpu |-> cpu_id(l.thrid), vec |-> l.vec],
                     wait |-> IF l.wait > 0 THEN l.wait ELSE 1]
<1>1. \A l \in Lines : l.thrid \in Int /\ l.vec \in Nat /\ l.wait \in Int
  BY EventAssumption
<1>2. EventFile \in Seq(Lines)
  BY EventAssumption
<1> HIDE DEF Lines
<1>3. mine \in Seq(Lines)
  BY <1>2, PushedType
<1>4. ASSUME NEW l \in Lines PROVE ev(l) \in Event
  <2>1. cpu_id(l.thrid) \in CPUS /\ l.vec \in Nat /\ l.wait \in Int
    BY <1>1, CpuIds
  <2> QED BY <2>1 DEF Event, Irq
<1>5. get_event(pc) = [i \in DOMAIN mine |-> ev(mine[i])]
  BY DEF get_event
<1> HIDE DEF mine, ev
<1>6. DOMAIN mine = 1 .. Len(mine) /\ Len(mine) \in Nat
      /\ \A i \in 1 .. Len(mine) : mine[i] \in Lines
  BY <1>3, LenProperties, ElementOfSeq
<1>7. [i \in 1 .. Len(mine) |-> ev(mine[i])] \in [1 .. Len(mine) -> Event]
  BY <1>4, <1>6
<1> QED BY <1>5, <1>6, <1>7, SeqDef

(* The invariant holds in the initial states.                             *)
LEMMA InitInv == Init => IInv /\ InterruptsInOrder
<1> SUFFICES ASSUME Init PROVE IInv /\ InterruptsInOrder
  OBVIOUS
<1>1. PICK mask \in BootMasks : pcx_list = <<boot(mask)>> /\ raised = <<boot(mask).irq>>
  BY DEF Init
<1>2. boot(mask) \in PcxPkt /\ boot(mask).irq \in Irq
  BY BootIrq, PktIrqs
<1>3. inst_event \in [PCs -> Seq(Event)]
  BY EventTypes DEF Init
<1>4. /\ pcx_list \in Seq(PcxPkt) /\ raised \in Seq(Irq)
      /\ cpx_list = << >> /\ delivered = << >>
      /\ cpx_list \in Seq(CpxPkt) /\ delivered \in Seq(Irq)
  BY <1>1, <1>2 DEF Init
<1>5. Types
  <2>1. phase = "do_iob" /\ out = NoPkt /\ grant = {} /\ req = {}
    BY DEF Init
  <2>2. pkt_vld \in BOOLEAN /\ next_req \in BOOLEAN
    BY DEF Init
  <2>3. Qsel \in [CPUS -> 0 .. 2]
    BY DEF Init
  <2> QED BY <1>3, <1>4, <2>1, <2>2, <2>3 DEF Types
<1>6. Delays
  BY <1>4 DEF Delays, DelaysIn
<1>7. Stages
  <2>1. AtRest
    BY <1>4 DEF Init, AtRest, Requests, FrontWaits
  <2> QED BY <2>1 DEF Init, Stages, AskedFor
<1>8. InterruptsInOrder
  <2>1. irqs(pcx_list) = raised
    BY <1>1, <1>2, IrqsOne, PktIrqs
  <2>2. irqs(cpx_list) = << >>
    <3>1. DOMAIN cpx_list = 1 .. 0
      BY <1>4
    <3>2. irqs(cpx_list) \in Seq(Irq) /\ Len(irqs(cpx_list)) = 0
      BY <1>4, IrqsType, PktIrqs, EmptySeq
    <3> QED BY <3>2, EmptySeq
  <2>3. (delivered \o irqs(cpx_list)) \o irqs(pcx_list) = raised
    BY <1>4, <2>1, <2>2, ConcatEmptySeq
  <2> QED BY <2>3 DEF InterruptsInOrder, irqs
<1> QED BY <1>5, <1>6, <1>7, <1>8 DEF IInv

-----------------------------------------------------------------------------
(* The steps.  Each keeps the types, the delays, the stages and the order. *)

Order == raised = (delivered \o irqs(cpx_list)) \o irqs(pcx_list)

(* The counters after handle_cpx took away what was granted.               *)
LEMMA GrantedType == ASSUME Types PROVE Granted(Qsel) \in [CPUS -> 0 .. 2]
BY DEF Types, Granted, Dec

(* Every request that is outstanding is taken away by its grant.          *)
LEMMA GrantedRest ==
  /\ AtRest => Granted(Qsel) = Requests({})
  /\ Granted1 => Granted(Qsel) = Requests({})
<1>1. ASSUME NEW C, grant = C, Qsel = Requests(C) PROVE Granted(Qsel) = Requests({})
  <2>1. \A c \in CPUS : (IF c \in grant THEN Dec(Qsel[c]) ELSE Qsel[c]) = 0
    BY <1>1 DEF Requests, Dec
  <2> QED BY <2>1 DEF Granted, Requests
<1> QED BY <1>1 DEF AtRest, Granted1

(* The front packet of handle_cpx, one cycle older.                        *)
LEMMA Older ==
  ASSUME NEW e \in CpxPkt, e.cpx_wait <= e.req_wait + 1
  PROVE  LET c == dec_wait(e)
         IN  /\ c \in CpxPkt /\ c.irq = e.irq /\ c.req_sent = e.req_sent
             /\ c.cpx_wait = Dec(e.cpx_wait) /\ c.cpx_wait <= c.req_wait + 1
<1> DEFINE c == dec_wait(e)
<1>1. Dec(e.req_wait) \in Nat /\ Dec(e.cpx_wait) \in Nat
      /\ Dec(e.cpx_wait) <= Dec(e.req_wait) + 1
  BY DEF CpxPkt, Dec
<1>2. c = [e EXCEPT !.req_wait = Dec(@), !.cpx_wait = Dec(@)]
  BY DEF dec_wait
<1>3. /\ c \in CpxPkt /\ c.irq = e.irq /\ c.req_sent = e.req_sent
      /\ c.req_wait = Dec(e.req_wait) /\ c.cpx_wait = Dec(e.cpx_wait)
  BY <1>1, <1>2 DEF CpxPkt
<1> QED BY <1>1, <1>3

(* The front packet after it asked: it is valid in the next cycle.        *)
LEMMA Asked ==
  ASSUME NEW c \in CpxPkt, c.cpx_wait <= c.req_wait + 1, get_req_wait(c)
  PROVE  LET d == get_req(c)
         IN  /\ d \in CpxPkt /\ d.irq = c.irq /\ d.req_sent = 2 /\ d.cpx_wait = 1
             /\ d.cpx_wait <= d.req_wait + 1 /\ ~ get_cpx_wait(d)
<1> DEFINE w == IF c.cpx_wait = 0 THEN 1 ELSE c.cpx_wait
<1>1. w = 1 /\ c.req_wait \in Nat
  BY DEF CpxPkt, get_req_wait
<1>2. get_req(c) = [c EXCEPT !.req_sent = 2, !.cpx_wait = w]
  BY DEF get_req
<1> HIDE DEF w
<1>3. get_req(c) = [irq |-> c.irq, req_sent |-> 2, req_wait |-> c.req_wait, cpx_wait |-> 1]
  BY <1>1, <1>2 DEF CpxPkt
<1> QED BY <1>1, <1>3 DEF CpxPkt, get_cpx_wait

(* handle_cpx on a list c whose front waits, with no request outstanding.  *)
LEMMA CpxAtRest ==
  ASSUME NEW c \in Seq(CpxPkt), DelaysIn(c), c # << >> => c[1].req_sent = 1,
         Types, AtRest, handle_cpx(c, Requests({}))
  PROVE  /\ cpx_list' \in Seq(CpxPkt) /\ DelaysIn(cpx_list') /\ irqs(cpx_list') = irqs(c)
         /\ Qsel' \in [CPUS -> 0 .. 2] /\ req' \in SUBSET CPUS
         /\ \/ /\ ~ next_req' /\ ~ pkt_vld' /\ req' = {} /\ Qsel' = Requests({})
               /\ FrontWaits'
            \/ /\ next_req' /\ ~ pkt_vld' /\ FrontAsked' /\ req' = {cpx_list'[1].irq.cpu}
               /\ Qsel' = Requests(req') /\ cpx_list'[1].cpx_wait = 1
         /\ pkt_vld' \in BOOLEAN /\ next_req' \in BOOLEAN
<1>0. Requests({}) \in [CPUS -> 0 .. 2] /\ \A u \in CPUS : Requests({})[u] = 0
  BY DEF Requests
<1>1. CASE c = << >>
  <2>1. cpx_list' = c /\ Qsel' = Requests({}) /\ UNCHANGED <<req, next_req, pkt_vld>>
    BY <1>1 DEF handle_cpx
  <2>2. pkt_vld' \in BOOLEAN /\ next_req' \in BOOLEAN
    BY <2>1 DEF Types
  <2>3. /\ ~ next_req' /\ ~ pkt_vld' /\ req' = {} /\ Qsel' = Requests({})
    BY <2>1 DEF AtRest
  <2>4. FrontWaits'
    BY <1>1, <2>1 DEF FrontWaits
  <2> QED BY <1>0, <1>1, <2>1, <2>2, <2>3, <2>4
<1>2. CASE c # << >>
  <2> DEFINE e == dec_wait(Head(c))
             cpu == e.irq.cpu
             asks == get_req_wait(e) /\ Requests({})[cpu] # 2
             d == IF asks THEN get_req(e) ELSE e
  <2>1. /\ cpx_list' = <<d>> \o Tail(c)
        /\ IF asks
           THEN /\ req' = {cpu} /\ next_req' = TRUE
                /\ Qsel' = [Requests({}) EXCEPT ![cpu] = @ + 1]
           ELSE Qsel' = Requests({}) /\ UNCHANGED <<req, next_req>>
        /\ pkt_vld' = (pkt_vld \/ get_cpx_wait(d))
    BY <1>2 DEF handle_cpx
  <2>2. c[1] \in CpxPkt /\ Head(c) = c[1] /\ c[1].req_sent = 1
        /\ c[1].cpx_wait <= c[1].req_wait + 1
    <3>1. c[1] \in CpxPkt /\ Head(c) = c[1] /\ 1 \in DOMAIN c
      BY <1>2, FrontApart, LenProperties, EmptySeq
    <3> QED BY <1>2, <3>1 DEF DelaysIn
  <2>3. /\ e \in CpxPkt /\ e.irq = c[1].irq /\ e.req_sent = 1
        /\ e.cpx_wait <= e.req_wait + 1
    BY <2>2, Older
  <2> HIDE DEF e
  <2>4. cpu \in CPUS
    BY <2>3 DEF CpxPkt, Irq
  <2>5. /\ d \in CpxPkt /\ d.irq = c[1].irq /\ d.cpx_wait <= d.req_wait + 1
        /\ ~ get_cpx_wait(d)
        /\ asks => d.req_sent = 2 /\ d.cpx_wait = 1
        /\ ~ asks => d.req_sent = 1
    <3>1. CASE asks
      <4>1. d = get_req(e) /\ get_req_wait(e)
        BY <3>1
      <4> QED BY <2>3, <3>1, <4>1, Asked
    <3>2. CASE ~ asks
      <4>1. d = e
        BY <3>2
      <4> QED BY <2>3, <3>2, <4>1 DEF get_cpx_wait
    <3> QED BY <3>1, <3>2
  <2>6. ~ pkt_vld' /\ pkt_vld' \in BOOLEAN
    BY <2>1, <2>5 DEF AtRest, Types
  <2>7. ~ asks => ~ next_req' /\ req' = {} /\ Qsel' = Requests({}) /\ next_req' \in BOOLEAN
    BY <2>1 DEF AtRest, Types
  <2>8. asks => /\ next_req' /\ req' = {d.irq.cpu} /\ d.irq.cpu \in CPUS
                /\ Qsel' = Requests({d.irq.cpu})
                /\ next_req' \in BOOLEAN
    <3> SUFFICES ASSUME asks PROVE
                /\ next_req' /\ req' = {d.irq.cpu} /\ d.irq.cpu \in CPUS
                /\ Qsel' = Requests({d.irq.cpu})
                /\ next_req' \in BOOLEAN
      OBVIOUS
    <3>1. d.irq.cpu = cpu
      BY <2>3, <2>5
    <3>2. req' = {cpu} /\ next_req' = TRUE /\ Qsel' = [Requests({}) EXCEPT ![cpu] = @ + 1]
      BY <2>1
    <3> HIDE DEF d, cpu, asks
    <3>3. [Requests({}) EXCEPT ![cpu] = @ + 1] = Requests({cpu})
      BY <2>4 DEF Requests
    <3> QED BY <2>4, <3>1, <3>2, <3>3
  <2>9. cpx_list' = <<d>> \o Tail(c)
    BY <2>1
  <2> HIDE DEF d, asks, cpu
  <2>10. /\ cpx_list' \in Seq(CpxPkt) /\ cpx_list' # << >> /\ Len(cpx_list') = Len(c)
         /\ cpx_list'[1] = d /\ \A i \in 1 .. Len(c) : i > 1 => cpx_list'[i] = c[i]
    BY <1>2, <2>5, <2>9, FrontReplaced
  <2>11. DelaysIn(cpx_list')
    <3>1. DOMAIN cpx_list' = 1 .. Len(c) /\ DOMAIN c = 1 .. Len(c)
      BY <2>10, LenProperties
    <3> HIDE DEF e
    <3> SUFFICES ASSUME NEW i \in 1 .. Len(c)
                 PROVE  /\ cpx_list'[i].cpx_wait <= cpx_list'[i].req_wait + 1
                        /\ i > 1 => cpx_list'[i].req_sent = 1
      BY <3>1 DEF DelaysIn
    <3>2. CASE i = 1
      BY <2>5, <2>10, <3>2
    <3>3. CASE i # 1
      <4>1. i > 1 /\ cpx_list'[i] = c[i]
        BY <2>10, <3>3
      <4> QED BY <3>1, <4>1 DEF DelaysIn
    <3> QED BY <3>2, <3>3
  <2>12. irqs(cpx_list') = irqs(c)
    BY <1>2, <2>5, <2>9, IrqsFront, PktIrqs
  <2>13. CASE asks
    <3>1. Requests({d.irq.cpu}) \in [CPUS -> 0 .. 2]
      BY DEF Requests
    <3>2. FrontAsked'
      BY <2>5, <2>10, <2>13 DEF FrontAsked
    <3>3. req' = {cpx_list'[1].irq.cpu} /\ cpx_list'[1].cpx_wait = 1
          /\ Qsel' = Requests(req') /\ next_req' /\ req' \in SUBSET CPUS
      BY <2>5, <2>8, <2>10, <2>13
    <3>4. Qsel' \in [CPUS -> 0 .. 2]
      BY <2>8, <2>13, <3>1
    <3> QED BY <2>6, <2>8, <2>10, <2>11, <2>12, <2>13, <3>2, <3>3, <3>4
  <2>14. CASE ~ asks
    <3>1. FrontWaits'
      BY <2>5, <2>10, <2>14 DEF FrontWaits
    <3> QED BY <1>0, <2>6, <2>7, <2>10, <2>11, <2>12, <2>14, <3>1
  <2> QED BY <2>13, <2>14
<1> QED BY <1>1, <1>2

(* handle_cpx on a list whose front has asked: it is valid now.            *)
LEMMA CpxGranted ==
  ASSUME NEW c \in Seq(CpxPkt), DelaysIn(c), c # << >>, c[1].req_sent = 2,
         c[1].cpx_wait = 1, handle_cpx(c, Requests({}))
  PROVE  /\ cpx_list' \in Seq(CpxPkt) /\ DelaysIn(cpx_list') /\ irqs(cpx_list') = irqs(c)
         /\ FrontAsked' /\ cpx_list'[1].irq = c[1].irq
         /\ Qsel' = Requests({}) /\ UNCHANGED <<req, next_req>> /\ pkt_vld' = TRUE
<1> DEFINE e == dec_wait(Head(c))
<1>1. c[1] \in CpxPkt /\ Head(c) = c[1] /\ c[1].cpx_wait <= c[1].req_wait + 1
  <2>1. c[1] \in CpxPkt /\ Head(c) = c[1] /\ 1 \in DOMAIN c
    BY FrontApart, LenProperties, EmptySeq
  <2> QED BY <2>1 DEF DelaysIn
<1>2. /\ e \in CpxPkt /\ e.irq = c[1].irq /\ e.req_sent = 2
      /\ e.cpx_wait <= e.req_wait + 1 /\ e.cpx_wait = 0
  <2>1. Dec(1) = 0
    BY DEF Dec
  <2> QED BY <1>1, <2>1, Older
<1>3. ~ get_req_wait(e) /\ get_cpx_wait(e)
  BY <1>2 DEF get_req_wait, get_cpx_wait
<1>4. /\ cpx_list' = <<e>> \o Tail(c) /\ Qsel' = Requests({})
      /\ UNCHANGED <<req, next_req>> /\ pkt_vld' = TRUE
  BY <1>3 DEF handle_cpx
<1> HIDE DEF e
<1>5. /\ cpx_list' \in Seq(CpxPkt) /\ cpx_list' # << >> /\ Len(cpx_list') = Len(c)
      /\ cpx_list'[1] = e /\ \A i \in 1 .. Len(c) : i > 1 => cpx_list'[i] = c[i]
  BY <1>2, <1>4, FrontReplaced
<1>6. DelaysIn(cpx_list')
  <2>1. DOMAIN cpx_list' = 1 .. Len(c) /\ DOMAIN c = 1 .. Len(c)
    BY <1>5, LenProperties
  <2> SUFFICES ASSUME NEW i \in 1 .. Len(c)
               PROVE  /\ cpx_list'[i].cpx_wait <= cpx_list'[i].req_wait + 1
                      /\ i > 1 => cpx_list'[i].req_sent = 1
    BY <2>1 DEF DelaysIn
  <2>2. CASE i = 1
    BY <1>2, <1>5, <2>2
  <2>3. CASE i # 1
    <3>1. i > 1 /\ cpx_list'[i] = c[i]
      BY <1>5, <2>3
    <3> QED BY <2>1, <3>1 DEF DelaysIn
  <2> QED BY <2>2, <2>3
<1>7. irqs(cpx_list') = irqs(c)
  BY <1>2, <1>4, IrqsFront, PktIrqs
<1> QED BY <1>2, <1>4, <1>5, <1>6, <1>7 DEF FrontAsked

(* The interrupts of both lists.                                          *)
LEMMA SeqIrqs == ASSUME Types PROVE irqs(pcx_list) \in Seq(Irq) /\ irqs(cpx_list) \in Seq(Irq)
<1>1. irqs(pcx_list) \in Seq(Irq)
  BY IrqsType, PktIrqs DEF Types
<1>2. irqs(cpx_list) \in Seq(Irq)
  BY IrqsType, PktIrqs DEF Types
<1> QED BY <1>1, <1>2

(* do_iob keeps the invariant and the order.                              *)
LEMMA DoIobStep == IInv /\ Order /\ do_iob => IInv' /\ Order'
<1> SUFFICES ASSUME IInv, Order, do_iob PROVE IInv' /\ Order'
  OBVIOUS
<1>0. Types /\ Delays /\ phase = "do_iob" /\ (AtRest \/ Granted1)
  BY DEF IInv, Stages, do_iob
<1>1. PICK r \in RandomWaits :
        pcx_list' = handle_pcx(r).pcx /\ handle_cpx(handle_pcx(r).cpx, Granted(Qsel))
  BY DEF do_iob
<1>2. /\ phase' = "drive_cpx" /\ grant' = (IF 7 \in grant THEN CPUS ELSE {})
      /\ UNCHANGED <<inst_event, raised, out, delivered, asked>>
  BY DEF do_iob, evars, wires
<1> DEFINE c == handle_pcx(r).cpx
           q == handle_pcx(r).pcx
<1>3. /\ q \in Seq(PcxPkt) /\ c \in Seq(CpxPkt) /\ DelaysIn(c)
      /\ cpx_list # << >> => c # << >> /\ c[1] = cpx_list[1]
      /\ cpx_list = << >> /\ c # << >> => c[1].req_sent = 1
      /\ irqs(c) \o irqs(q) = irqs(cpx_list) \o irqs(pcx_list)
  BY <1>0, AfterPcx DEF Types
<1>4. handle_cpx(c, Requests({})) /\ pcx_list' = q
  BY <1>0, <1>1, GrantedRest
<1> HIDE DEF c, q
<1>5. /\ cpx_list' \in Seq(CpxPkt) /\ DelaysIn(cpx_list') /\ irqs(cpx_list') = irqs(c)
      /\ Qsel' \in [CPUS -> 0 .. 2] /\ req' \in SUBSET CPUS
      /\ pkt_vld' \in BOOLEAN /\ next_req' \in BOOLEAN
      /\ AtRest' \/ Asking' \/ Valid'
  <2>1. CASE AtRest
    <3>1. c # << >> => c[1].req_sent = 1
      BY <1>3, <2>1 DEF AtRest, FrontWaits
    <3>2. grant' = {} /\ asked'[1] = {}
      BY <1>2, <2>1 DEF AtRest
    <3>3. /\ cpx_list' \in Seq(CpxPkt) /\ DelaysIn(cpx_list') /\ irqs(cpx_list') = irqs(c)
          /\ Qsel' \in [CPUS -> 0 .. 2] /\ req' \in SUBSET CPUS
          /\ \/ /\ ~ next_req' /\ ~ pkt_vld' /\ req' = {} /\ Qsel' = Requests({})
                /\ FrontWaits'
             \/ /\ next_req' /\ ~ pkt_vld' /\ FrontAsked' /\ req' = {cpx_list'[1].irq.cpu}
                /\ Qsel' = Requests(req') /\ cpx_list'[1].cpx_wait = 1
          /\ pkt_vld' \in BOOLEAN /\ next_req' \in BOOLEAN
      BY <1>0, <1>3, <1>4, <2>1, <3>1, CpxAtRest
    <3>4. AtRest' \/ Asking'
      BY <3>2, <3>3 DEF AtRest, Asking
    <3> QED BY <3>3, <3>4
  <2>2. CASE Granted1
    <3>1. c # << >> /\ c[1] = cpx_list[1] /\ c[1].req_sent = 2 /\ c[1].cpx_wait = 1
      BY <1>3, <2>2 DEF Granted1, FrontAsked
    <3>2. /\ cpx_list' \in Seq(CpxPkt) /\ DelaysIn(cpx_list') /\ irqs(cpx_list') = irqs(c)
          /\ FrontAsked' /\ cpx_list'[1].irq = c[1].irq
          /\ Qsel' = Requests({}) /\ UNCHANGED <<req, next_req>> /\ pkt_vld' = TRUE
      BY <1>3, <1>4, <3>1, CpxGranted
    <3>3. Requests({}) \in [CPUS -> 0 .. 2]
      BY DEF Requests
    <3>4. asked'[1] = {cpx_list'[1].irq.cpu}
      BY <1>2, <2>2, <3>1, <3>2 DEF Granted1
    <3>5. Valid'
      BY <2>2, <3>2, <3>4 DEF Valid, Granted1
    <3>6. req' \in SUBSET CPUS /\ next_req' \in BOOLEAN
      BY <1>0, <3>2 DEF Types
    <3> QED BY <3>2, <3>3, <3>5, <3>6
  <2> QED BY <1>0, <2>1, <2>2
<1>6. Types'
  <2>1. grant' \in SUBSET CPUS
    BY <1>2
  <2> QED BY <1>0, <1>2, <1>3, <1>4, <1>5, <2>1 DEF Types
<1>7. Delays'
  BY <1>5 DEF Delays
<1>8. Stages'
  BY <1>2, <1>5 DEF Stages
<1>9. Order'
  <2>1. /\ irqs(cpx_list) \in Seq(Irq) /\ irqs(pcx_list) \in Seq(Irq)
        /\ irqs(cpx_list') \in Seq(Irq) /\ irqs(pcx_list') \in Seq(Irq)
        /\ delivered \in Seq(Irq)
    <3>1. irqs(cpx_list') \in Seq(Irq) /\ irqs(pcx_list') \in Seq(Irq)
      BY <1>6, IrqsType, PktIrqs DEF Types
    <3> QED BY <1>0, <3>1, SeqIrqs DEF Types
  <2>2. (delivered \o irqs(cpx_list)) \o irqs(pcx_list)
          = delivered \o (irqs(cpx_list) \o irqs(pcx_list))
    BY <2>1, Apart
  <2>3. (delivered \o irqs(cpx_list')) \o irqs(pcx_list')
          = delivered \o (irqs(cpx_list') \o irqs(pcx_list'))
    BY <2>1, Apart
  <2>4. irqs(cpx_list') \o irqs(pcx_list') = irqs(cpx_list) \o irqs(pcx_list)
    BY <1>3, <1>4, <1>5
  <2>5. raised' = (delivered' \o irqs(cpx_list')) \o irqs(pcx_list')
    BY <1>2, <2>2, <2>3, <2>4 DEF Order
  <2> QED BY <2>5 DEF Order, irqs
<1> QED BY <1>6, <1>7, <1>8, <1>9 DEF IInv

(* drive_cpx keeps them: the front packet, if valid, is sent.             *)
LEMMA DriveCpxStep == IInv /\ Order /\ drive_cpx => IInv' /\ Order'
<1> SUFFICES ASSUME IInv, Order, drive_cpx PROVE IInv' /\ Order'
  OBVIOUS
<1>0. Types /\ Delays /\ phase = "drive_cpx" /\ (AtRest \/ Asking \/ Valid)
  BY DEF IInv, Stages, drive_cpx
<1>1. /\ phase' = "drive_req"
      /\ UNCHANGED <<inst_event, raised, pcx_list, asked, Qsel, grant, req, next_req>>
  BY DEF drive_cpx, evars
<1>2. CASE ~ pkt_vld
  <2>1. out' = NoPkt /\ UNCHANGED <<cpx_list, delivered, pkt_vld>>
    BY <1>2 DEF drive_cpx
  <2>2. Types' /\ Delays'
    BY <1>0, <1>1, <2>1 DEF Types, Delays, DelaysIn
  <2>3. AtRest' \/ Asking'
    <3>1. AtRest \/ Asking
      BY <1>0, <1>2 DEF Valid
    <3>2. AtRest => AtRest'
      BY <1>1, <2>1 DEF AtRest, FrontWaits, Requests
    <3>3. Asking => Asking'
      BY <1>1, <2>1 DEF Asking, FrontAsked, Requests
    <3> QED BY <3>1, <3>2, <3>3
  <2>4. Stages'
    BY <1>1, <2>1, <2>3 DEF Stages
  <2>5. Order'
    BY <1>1, <2>1 DEF Order, irqs
  <2> QED BY <2>2, <2>4, <2>5 DEF IInv
<1>3. CASE pkt_vld
  <2>0. Valid
    BY <1>0, <1>3 DEF AtRest, Asking
  <2>1. /\ out' = Head(cpx_list).irq /\ cpx_list' = Tail(cpx_list)
        /\ delivered' = Append(delivered, Head(cpx_list).irq) /\ pkt_vld' = FALSE
    BY <1>3 DEF drive_cpx
  <2>2. cpx_list # << >> /\ cpx_list \in Seq(CpxPkt)
    BY <1>0, <2>0 DEF Valid, FrontAsked, Types
  <2>3. /\ cpx_list[1] \in CpxPkt /\ Head(cpx_list) = cpx_list[1]
        /\ Tail(cpx_list) \in Seq(CpxPkt)
    BY <2>2, FrontApart
  <2>4. cpx_list[1].irq \in Irq
    BY <2>3, PktIrqs
  <2>5. delivered' \in Seq(Irq)
    BY <1>0, <2>1, <2>3, <2>4, AppendProperties DEF Types
  <2>6. Types'
    BY <1>0, <1>1, <2>1, <2>3, <2>4, <2>5 DEF Types
  <2>7. /\ Len(cpx_list) \in Nat \ {0} /\ Len(Tail(cpx_list)) = Len(cpx_list) - 1
        /\ \A i \in 1 .. Len(cpx_list) - 1 : Tail(cpx_list)[i] = cpx_list[i + 1]
        /\ DOMAIN Tail(cpx_list) = 1 .. Len(cpx_list) - 1
        /\ DOMAIN cpx_list = 1 .. Len(cpx_list)
    <3>1. Len(cpx_list) \in Nat \ {0} /\ DOMAIN cpx_list = 1 .. Len(cpx_list)
      BY <2>2, EmptySeq, LenProperties
    <3>2. /\ Len(Tail(cpx_list)) = Len(cpx_list) - 1
          /\ \A i \in 1 .. Len(cpx_list) - 1 : Tail(cpx_list)[i] = cpx_list[i + 1]
      BY <2>2, HeadTailProperties
    <3>3. DOMAIN Tail(cpx_list) = 1 .. Len(Tail(cpx_list))
      BY <2>3, LenProperties
    <3> QED BY <3>1, <3>2, <3>3
  <2>8. \A i \in DOMAIN cpx_list' :
          /\ cpx_list'[i].cpx_wait <= cpx_list'[i].req_wait + 1
          /\ cpx_list'[i].req_sent = 1
    <3> SUFFICES ASSUME NEW i \in 1 .. Len(cpx_list) - 1
                 PROVE  /\ Tail(cpx_list)[i].cpx_wait <= Tail(cpx_list)[i].req_wait + 1
                        /\ Tail(cpx_list)[i].req_sent = 1
      BY <2>1, <2>7
    <3>1. i + 1 \in 1 .. Len(cpx_list) /\ i + 1 > 1 /\ Tail(cpx_list)[i] = cpx_list[i + 1]
      BY <2>7
    <3> QED BY <1>0, <2>7, <3>1 DEF Delays, DelaysIn
  <2>9. Delays'
    BY <2>8 DEF Delays, DelaysIn
  <2>10. FrontWaits'
    <3>1. cpx_list' # << >> => 1 \in DOMAIN cpx_list'
      BY <2>1, <2>3, <2>7, EmptySeq
    <3> QED BY <2>8, <3>1 DEF FrontWaits
  <2>11. Sent'
    <3>1. asked' = asked /\ asked[1] = {out'.cpu} /\ out' \in Irq
      BY <1>1, <2>0, <2>1, <2>3, <2>4 DEF Valid
    <3> QED BY <1>1, <2>0, <2>1, <2>10, <3>1 DEF Sent, Valid, Requests
  <2>12. Stages'
    BY <1>1, <2>11 DEF Stages
  <2>13. Order'
    <3>1. irqs(cpx_list) = <<cpx_list[1].irq>> \o irqs(Tail(cpx_list))
      BY <2>2, <2>3, IrqsFront, PktIrqs
    <3>2. irqs(Tail(cpx_list)) \in Seq(Irq) /\ <<cpx_list[1].irq>> \in Seq(Irq)
          /\ delivered \in Seq(Irq)
      <4>1. irqs(Tail(cpx_list)) \in Seq(Irq)
        BY <2>3, IrqsType, PktIrqs
      <4> QED BY <1>0, <2>4, <4>1 DEF Types
    <3>3. delivered' = delivered \o <<cpx_list[1].irq>>
      BY <1>0, <2>1, <2>3, <2>4, AppendIsConcat DEF Types
    <3>4. (delivered \o <<cpx_list[1].irq>>) \o irqs(Tail(cpx_list))
            = delivered \o (<<cpx_list[1].irq>> \o irqs(Tail(cpx_list)))
      BY <3>2, ConcatAssociative
    <3>5. raised' = (delivered' \o irqs(cpx_list')) \o irqs(pcx_list')
      BY <1>1, <2>1, <3>1, <3>3, <3>4 DEF Order
    <3> QED BY <3>5 DEF Order, irqs
  <2> QED BY <2>6, <2>9, <2>12, <2>13 DEF IInv
<1> QED BY <1>2, <1>3

(* drive_req keeps them: the request becomes the grant.                   *)
LEMMA DriveReqStep == IInv /\ Order /\ drive_req => IInv' /\ Order'
<1> SUFFICES ASSUME IInv, Order, drive_req PROVE IInv' /\ Order'
  OBVIOUS
<1>0. Types /\ Delays /\ (((AtRest \/ Asking) /\ out = NoPkt) \/ Sent)
  BY DEF IInv, Stages, drive_req
<1>1. /\ phase' = "do_iob"
      /\ UNCHANGED <<inst_event, raised, pcx_list, cpx_list, out, delivered, Qsel, pkt_vld>>
      /\ asked' = <<IF next_req THEN req ELSE {}, asked[1]>>
      /\ IF next_req
         THEN grant' = req /\ next_req' = (req # {}) /\ req' = {}
         ELSE UNCHANGED <<grant, next_req, req>>
  BY DEF drive_req, evars, queues
<1>2. Types'
  <2>1. grant' \in SUBSET CPUS /\ req' \in SUBSET CPUS /\ next_req' \in BOOLEAN
    BY <1>0, <1>1 DEF Types
  <2> QED BY <1>0, <1>1, <2>1 DEF Types
<1>3. Delays'
  BY <1>0, <1>1 DEF Delays, DelaysIn
<1>4. Order'
  BY <1>1 DEF Order, irqs
<1>5. asked'[2] = AskedFor(out') /\ (AtRest' \/ (Granted1' /\ out' = NoPkt))
  <2>1. CASE AtRest /\ out = NoPkt
    <3>1. asked' = <<{}, {}>>
      BY <1>1, <2>1 DEF AtRest
    <3>2. AtRest'
      BY <1>1, <2>1, <3>1 DEF AtRest, FrontWaits, Requests
    <3> QED BY <1>1, <2>1, <3>1, <3>2 DEF AskedFor
  <2>2. CASE Asking /\ out = NoPkt
    <3>1. asked' = <<req, {}>> /\ grant' = req /\ next_req' /\ req' = {}
      BY <1>0, <1>1, <2>2 DEF Asking
    <3>2. Granted1'
      BY <1>1, <2>2, <3>1 DEF Asking, Granted1, FrontAsked, Requests
    <3> QED BY <1>1, <2>2, <3>1, <3>2 DEF AskedFor
  <2>3. CASE Sent
    <3>1. asked' = <<{}, {out.cpu}>> /\ grant' = {} /\ ~ next_req' /\ req' = {}
      BY <1>0, <1>1, <2>3 DEF Sent
    <3>2. AtRest'
      BY <1>1, <2>3, <3>1 DEF AtRest, Sent, FrontWaits, Requests
    <3>3. out # NoPkt
      BY <2>3 DEF Sent, Irq, NoPkt
    <3> QED BY <1>1, <3>1, <3>2, <3>3 DEF AskedFor
  <2> QED BY <1>0, <2>1, <2>2, <2>3
<1>6. Stages'
  BY <1>1, <1>5 DEF Stages
<1> QED BY <1>2, <1>3, <1>4, <1>6 DEF IInv

(* The interrupts of the events that are not used up.                      *)
LEMMA LivePackets ==
  ASSUME NEW live \in Seq(Event)
  PROVE  LET P == [i \in DOMAIN live |-> [irq |-> live[i].irq, wait |-> 3]]
             R == [i \in DOMAIN live |-> live[i].irq]
         IN  P \in Seq(PcxPkt) /\ R \in Seq(Irq) /\ irqs(P) = R
<1> DEFINE P == [i \in DOMAIN live |-> [irq |-> live[i].irq, wait |-> 3]]
           R == [i \in DOMAIN live |-> live[i].irq]
<1>1. DOMAIN live = 1 .. Len(live) /\ Len(live) \in Nat
      /\ \A i \in 1 .. Len(live) : live[i] \in Event
  BY LenProperties, ElementOfSeq
<1>2. \A i \in 1 .. Len(live) : live[i].irq \in Irq
  BY <1>1, PktIrqs
<1>3. P \in [1 .. Len(live) -> PcxPkt]
  BY <1>1, <1>2 DEF PcxPkt
<1>4. R = irqs(live)
  BY DEF irqs
<1>5. irqs(P) = R
  BY <1>1 DEF irqs
<1>6. R \in Seq(Irq)
  BY <1>4, IrqsType, PktIrqs
<1> HIDE DEF P, R
<1>7. P \in Seq(PcxPkt)
  BY <1>1, <1>3, SeqDef
<1> QED BY <1>5, <1>6, <1>7 DEF P, R

(* A program counter that is reported keeps them.                         *)
LEMMA TrigStep ==
  ASSUME IInv, Order, NEW pc \in PCs, trig_pc_event(pc)
  PROVE  IInv' /\ Order'
<1>0. Types /\ Delays /\ Stages /\ phase = "do_iob"
  BY DEF IInv, trig_pc_event
<1> DEFINE live == Pushed(inst_event[pc], {i \in DOMAIN inst_event[pc] :
                                             inst_event[pc][i].wait > 0})
           P == [i \in DOMAIN live |-> [irq |-> live[i].irq, wait |-> 3]]
           R == [i \in DOMAIN live |-> live[i].irq]
           used == [i \in DOMAIN inst_event[pc] |-> Counted(inst_event[pc][i])]
<1>1. /\ UNCHANGED <<phase, cpx_list, out, delivered, asked>>
      /\ UNCHANGED <<Qsel, grant, req, pkt_vld, next_cpx, next_req>>
  BY DEF trig_pc_event, wires, flags
<1>2. pcx_list' = pcx_list \o P /\ raised' = raised \o R
      /\ inst_event' = [inst_event EXCEPT ![pc] = used]
  <2>1. gen_event(pc)
    BY DEF trig_pc_event
  <2>2. pcx_list' = pcx_list \o P /\ raised' = raised \o R
    BY <2>1 DEF gen_event
  <2>3. inst_event' = [inst_event EXCEPT ![pc] = used]
    BY <2>1 DEF gen_event
  <2> QED BY <2>2, <2>3
<1>3. inst_event \in [PCs -> Seq(Event)] /\ inst_event[pc] \in Seq(Event)
  BY <1>0 DEF Types
<1>4. P \in Seq(PcxPkt) /\ R \in Seq(Irq) /\ irqs(P) = R
  <2>1. live \in Seq(Event)
    BY <1>3, PushedType
  <2> HIDE DEF live
  <2> QED BY <2>1, LivePackets
<1>5. used \in Seq(Event)
  <2>1. /\ DOMAIN inst_event[pc] = 1 .. Len(inst_event[pc]) /\ Len(inst_event[pc]) \in Nat
        /\ \A i \in 1 .. Len(inst_event[pc]) : inst_event[pc][i] \in Event
    BY <1>3, LenProperties, ElementOfSeq
  <2>2. ASSUME NEW e \in Event
        PROVE  Counted(e) \in Event
    <3>1. (IF e.wait > 0 THEN e.wait - 1 ELSE e.wait) \in Nat
      BY DEF Event
    <3> QED BY <3>1 DEF Event, Counted
  <2>3. used \in [1 .. Len(inst_event[pc]) -> Event]
    BY <2>1, <2>2
  <2> HIDE DEF used
  <2> QED BY <2>1, <2>3, SeqDef
<1> HIDE DEF live, P, R, used
<1>6. Types'
  <2>1. pcx_list' \in Seq(PcxPkt)
    BY <1>0, <1>2, <1>4, ConcatProperties DEF Types
  <2>2. raised' \in Seq(Irq)
    BY <1>0, <1>2, <1>4, ConcatProperties DEF Types
  <2>3. inst_event' \in [PCs -> Seq(Event)]
    BY <1>2, <1>3, <1>5
  <2> QED BY <1>0, <1>1, <2>1, <2>2, <2>3 DEF Types
<1>7. Delays'
  BY <1>0, <1>1 DEF Delays, DelaysIn
<1>8. Stages'
  <2>1. AtRest \/ (Granted1 /\ out = NoPkt)
    BY <1>0 DEF Stages
  <2>2. AtRest => AtRest'
    BY <1>1 DEF AtRest, FrontWaits, Requests
  <2>3. Granted1 => Granted1'
    BY <1>1 DEF Granted1, FrontAsked, Requests
  <2>4. asked'[2] = AskedFor(out')
    BY <1>0, <1>1 DEF Stages, AskedFor
  <2> QED BY <1>0, <1>1, <2>1, <2>2, <2>3, <2>4 DEF Stages
<1>9. Order'
  <2>1. irqs(pcx_list \o P) = irqs(pcx_list) \o R
    BY <1>0, <1>4, IrqsConcat, PktIrqs DEF Types
  <2>2. /\ delivered \in Seq(Irq) /\ irqs(cpx_list) \in Seq(Irq)
        /\ irqs(pcx_list) \in Seq(Irq)
    BY <1>0, SeqIrqs DEF Types
  <2>3. delivered \o irqs(cpx_list) \in Seq(Irq)
    BY <2>2, ConcatProperties
  <2>4. ((delivered \o irqs(cpx_list)) \o irqs(pcx_list)) \o R
          = (delivered \o irqs(cpx_list)) \o (irqs(pcx_list) \o R)
    BY <1>4, <2>2, <2>3, Apart
  <2>5. raised' = (delivered' \o irqs(cpx_list')) \o irqs(pcx_list')
    BY <1>1, <1>2, <2>1, <2>4 DEF Order
  <2> QED BY <2>5 DEF Order, irqs
<1> QED BY <1>6, <1>7, <1>8, <1>9 DEF IInv

(* So does a step that changes nothing.                                   *)
LEMMA StutterStep == IInv /\ Order /\ UNCHANGED vars => IInv' /\ Order'
<1> SUFFICES ASSUME IInv, Order, UNCHANGED vars PROVE IInv' /\ Order'
  OBVIOUS
<1>1. /\ UNCHANGED <<phase, inst_event, raised, pcx_list, cpx_list>>
      /\ UNCHANGED <<out, delivered, asked>>
      /\ UNCHANGED <<Qsel, grant, req, pkt_vld, next_cpx, next_req>>
  BY DEF vars, evars, queues, wires, flags
<1>2. Types' /\ Delays'
  BY <1>1 DEF IInv, Types, Delays, DelaysIn
<1>3. Stages'
  BY <1>1 DEF IInv, Stages, AtRest, Asking, Granted1, Valid, Sent, FrontAsked,
              FrontWaits, AskedFor, Requests
<1>4. Order'
  BY <1>1 DEF Order, irqs
<1> QED BY <1>2, <1>3, <1>4 DEF IInv

(* Every step keeps them.                                                 *)
LEMMA StepInv == IInv /\ Order /\ [Next]_vars => IInv' /\ Order'
<1> SUFFICES ASSUME IInv, Order, [Next]_vars PROVE IInv' /\ Order'
  OBVIOUS
<1>1. CASE do_iob
  BY <1>1, DoIobStep
<1>2. CASE drive_cpx
  BY <1>2, DriveCpxStep
<1>3. CASE drive_req
  BY <1>3, DriveReqStep
<1>4. ASSUME NEW pc \in PCs, trig_pc_event(pc) PROVE IInv' /\ Order'
  BY <1>4, TrigStep
<1>5. CASE UNCHANGED vars
  BY <1>5, StutterStep
<1> QED BY <1>1, <1>2, <1>3, <1>4, <1>5 DEF Next, Cycle

(* The order is the property of the model.                                *)
LEMMA OrderIs == Order <=> InterruptsInOrder
BY DEF Order, InterruptsInOrder, irqs

(* The invariant and the order hold always.                               *)
LEMMA Always == Spec => [](IInv /\ Order)
<1>1. Init => IInv /\ Order
  BY InitInv, OrderIs
<1> QED BY <1>1, StepInv, PTL DEF Spec

-----------------------------------------------------------------------------
(* Interrupts are neither lost, repeated nor reordered between their event *)
(* and the core, for every event file, boot mask and choice of delays      *)
(* (iob.cc handle_pcx, handle_cpx, drive_cpx).                             *)
THEOREM InterruptsStayInOrder == Spec => []InterruptsInOrder
BY Always, OrderIs, PTL

(* The invariant has the crossbar's protocol.                              *)
LEMMA ProtocolFollows == IInv => CrossbarProtocol
<1> SUFFICES ASSUME IInv PROVE CrossbarProtocol
  OBVIOUS
<1>1. Types /\ Delays /\ Stages
  BY DEF IInv
<1>2. RequestThenPacket
  BY <1>1 DEF RequestThenPacket, Stages, AskedFor
<1>3. QselAccounts
  <2> SUFFICES ASSUME phase = "do_iob", NEW c \in CPUS
               PROVE  Qsel[c] = IF next_req /\ c \in grant THEN 1 ELSE 0
    BY DEF QselAccounts
  <2>1. CASE AtRest
    BY <2>1 DEF AtRest, Requests
  <2>2. CASE Granted1
    BY <2>2 DEF Granted1, Requests
  <2> QED BY <1>1, <2>1, <2>2 DEF Stages
<1>4. OneAsks
  BY <1>1 DEF OneAsks, Types, Delays, DelaysIn
<1> QED BY <1>2, <1>3, <1>4 DEF CrossbarProtocol

(* The crossbar's protocol is kept: a core is sent a packet exactly in the *)
(* cycle after it was asked, its outstanding requests are accounted for    *)
(* and never more than two, and only the front packet has asked (iob.cc    *)
(* handle_cpx, drive_cpx, drive_req, cpx.cc get_req, get_cpx_wait).        *)
THEOREM CrossbarProtocolKept == Spec => []CrossbarProtocol
BY Always, ProtocolFollows, PTL
=============================================================================
