------------------------------ MODULE MCImageFlow ------------------------------
(***************************************************************************)
(* Small diags, executables and tables for TLC.  A page has 8 units, a TSB *)
(* 4 entries (index: bits 4..3 of the address), the tag is the address     *)
(* above the index and translations have bit 10 set.                       *)
(***************************************************************************)
EXTENDS ImageFlowInv

Unknown == -3
SomeValue == {7}
SmallSpace == 1024

-----------------------------------------------------------------------------
(* Lines of a diag. *)

L(kind) == [kind |-> kind, base |-> "", dot |-> FALSE, cont |-> FALSE, close |-> FALSE]
Named(kind, base, dot) == [L(kind) EXCEPT !.base = base, !.dot = dot]

DiagLines ==
  {L("blank"), L("text"), L("attr"), [L("text") EXCEPT !.close = TRUE],
   L("section"), L("application"),
   Named("section", "text", TRUE), Named("section", "text", FALSE),
   [Named("section", "data", FALSE) EXCEPT !.cont = TRUE],
   Named("section", "bss", FALSE),
   [L("midas") EXCEPT !.cont = TRUE],
   Named("application", "app", FALSE)}

-----------------------------------------------------------------------------
(* Executables. *)

Count(from, n) == [i \in 1 .. n |-> from + i]
Zeros(n) == [i \in 1 .. n |-> 0]

Sec(name, at, words) == [name |-> name, type |-> "PROGBITS", addr |-> at, data |-> words]
Bss(name, at, n) == [Sec(name, at, Zeros(n)) EXCEPT !.type = "NOBITS"]
Note(name) == [Sec(name, 0, Zeros(2)) EXCEPT !.type = "NOTE"]
Sym(name, shndx, value) == [name |-> name, shndx |-> shndx, value |-> value]

Text == Sec("text", 64, Count(100, 32))       \* four pages
Far == Sec("far", 1024 + 128, Count(200, 16)) \* above the physical address space
Spread == [Sec("spread", 160, Zeros(240)) EXCEPT
             !.data = [i \in 1 .. 240 |-> IF (i - 1) % 16 < 8 THEN i ELSE 0]]

Exe == [sections |-> <<Note("note"), Text, Far, Bss("bss", 96, 16), Spread>>,
        symbols  |-> <<Sym("start", 2, 64), Sym("mid", 2, 80), Sym("end", 2, 96),
                       Sym("far", 3, 1160), Sym(NoName, 2, 70), Sym("abs", 0, 80),
                       Sym("zero", 4, 100)>>]

Bits(hi, lo) == [hi |-> hi, lo |-> lo]
InTsb(name) ==
  [init_block_tsb EXCEPT
     !.name = name, !.page_size = 8, !.tag_base = 64, !.data_base = 1024,
     !.va_index_bits = Bits(3, 3), !.tag_addr_bits = Bits(5, 0),
     !.tte_tag_addr_bits = Bits(10, 5), !.data_addr_bits = Bits(9, 3)]
InCsm(name, clump) == [init_block_tsbcsm EXCEPT !.name = name, !.clump_num = clump]

Block(name, section, pa) ==
  [init_block EXCEPT !.name = name, !.link_section = section, !.pa = pa]
Mapped(b, ra, tsbnames) ==
  [b EXCEPT !.ra = ra, !.tsbs = [i \in DOMAIN tsbnames |-> InTsb(tsbnames[i])]]

Whole == Mapped(Block("whole", "text", 256), 128, <<"t0">>)
ByLabel == [Mapped(Block("half", "text", 320), 512, <<"t0">>) EXCEPT
              !.start_label = "mid", !.end_label = "end"]
ByAddr == [Mapped(Block("quarter", "text", 336), 640, <<"t0">>) EXCEPT
             !.va = 72, !.end_va = 88]
Identity == [Mapped(Block("far", "far", NO_ADDR), NO_ADDR, <<"t0">>) EXCEPT
               !.ra_eq_va = TRUE, !.pa_eq_va = TRUE]
Cleared == [Mapped(Block("bss", "bss", 368), 704, <<"t0">>) EXCEPT !.compress = TRUE]
Unplaced == [Mapped(Block("out", "text", NO_ADDR), 768, <<"t0">>) EXCEPT !.in_image = FALSE]
Sparse == [Block("spread", "spread", 512) EXCEPT !.compress = TRUE]

(* The statements of a command file that make an object: those members are *)
(* set that differ from what they start as; inner objects are given.       *)
TableMembers == <<"num_entries", "start_addr", "size_bits", "split", "link_area">>
BlockMembers == <<"link_section", "compress", "in_image", "no_end_range_check", "va",
                  "ra", "pa", "start_label", "end_label", "end_va", "ra_eq_va", "pa_eq_va">>
BlockTsbMembers == <<"tag_base", "data_base", "page_size", "va_index_bits",
                     "tag_addr_bits", "tte_tag_addr_bits", "data_addr_bits">>

Statements(kind, obj, init, members, inner) ==
  LET given == SelectSeq(members, LAMBDA m : obj[m] # init[m])
  IN  <<<<"open", kind, obj.name>>>>
      \o [i \in DOMAIN given |-> <<"set", kind, given[i], obj[given[i]]>>]
      \o inner \o <<<<"close", kind>>>>

BlockStatements(b) ==
  LET inTsb(bt) == Statements("block_tsb", bt, init_block_tsb, BlockTsbMembers, << >>)
      inCsm(bc) == Statements("block_tsbcsm", bc, init_block_tsbcsm, <<"clump_num">>, << >>)
  IN  Statements("block", b, init_block, BlockMembers,
        FlattenSeq([i \in DOMAIN b.tsbs |-> inTsb(b.tsbs[i])])
        \o FlattenSeq([i \in DOMAIN b.tsbcsms |-> inCsm(b.tsbcsms[i])]))

AppOf(name, elf, blocks) ==
  Statements("app", [name |-> name, elf |-> elf], [elf |-> NoElf], <<"elf">>,
             FlattenSeq([i \in DOMAIN blocks |-> BlockStatements(blocks[i])]))

App(name, blocks) == AppOf(name, Exe, blocks)

-----------------------------------------------------------------------------
(* Tables. *)

Table(name, at, link) ==
  [init_tsb EXCEPT !.name = name, !.num_entries = 4, !.start_addr = at,
                   !.size_bits = 1, !.link_area = link]
Area(name, at) == [init_tsb_link EXCEPT !.name = name, !.start_addr = at]
Def(kind, obj) ==
  IF kind \in {"tsb", "tsbcsm"}
  THEN Statements(kind, obj, init_tsb, TableMembers, << >>)
  ELSE Statements(kind, obj, init_tsb_link, <<"start_addr">>, << >>)

T0(link) == Def("tsb", Table("t0", 768, link))
L0 == Def("tsb_link", Area("l0", 800))
C0 == Def("tsbcsm", Table("c0", 896, "cl"))
CL == Def("tsbcsm_link", Area("cl", 928))

-----------------------------------------------------------------------------
(* Runs. *)

Arg(o) == [opt |-> o, given |-> o \in WithArgument]
Args(os) == [i \in DOMAIN os |-> Arg(os[i])]

Usual == <<"-in", "-genimage", "-imagefile", "-gentsbs", "-gensymtab">>
Clash == Append(Usual, "-allow_tsb_conflicts")

Run(file, args, probes, accesses) ==
  [file |-> file, args |-> args, probes |-> probes, accesses |-> accesses]

Make(file, os) == Run(file, Args(os), {}, 0)

Blocks == {Whole, ByLabel, ByAddr, Identity, Cleared, Unplaced, Sparse}

(* The blocks of two executables that share a TSB. *)
Mixes ==
  LET first == {<<b>> : b \in Blocks} \cup
               {s \in Blocks \X Blocks : s[1] # s[2]} \cup
               {<<Whole, ByAddr, Unplaced>>, <<ByAddr, Whole, ByLabel>>}
      second == {<< >>} \cup {<<b>> : b \in Blocks}
  IN  {m \in first \X second : ToSet(m[1]) \cap ToSet(m[2]) = {}}

MixFile(m, link) == T0(link) \o L0 \o App("a1", m[1]) \o App("a2", m[2])

MixRuns ==
  {Make(MixFile(m, "l0"), os) : m \in Mixes, os \in {Clash, Append(Clash, "-nocompress")}}
  \cup {Make(MixFile(<<<<Whole, ByAddr>>, <<b>>>>, link), os) :
          b \in Blocks \ {Whole, ByAddr}, link \in {NoName, "l0"},
          os \in {Usual, Append(Usual, "-noenvzero"), Append(Clash, "-noenvzero")}}

CsmFile ==
  T0("l0") \o L0 \o C0 \o CL \o
  App("a1", <<[Whole EXCEPT !.tsbcsms = <<InCsm("c0", 5)>>]>>)

(* Command files the tool must refuse, each for a reason of its own.       *)
BadFiles ==
  LET one(b) == T0("l0") \o L0 \o App("a1", <<b>>)
      tsb(t) == Def("tsb", t)
      t == Table("t0", 768, NoName)
  IN  {one(b) : b \in
         {[Whole EXCEPT !.va = 64, !.start_label = "start"],
          [Whole EXCEPT !.end_va = 96, !.end_label = "end"],
          [Whole EXCEPT !.pa = NO_ADDR], [Whole EXCEPT !.pa_eq_va = TRUE],
          [Whole EXCEPT !.ra = NO_ADDR], [Whole EXCEPT !.ra_eq_va = TRUE],
          [Whole EXCEPT !.ra = 130], [Whole EXCEPT !.va = 60], [Whole EXCEPT !.va = 104],
          [Whole EXCEPT !.end_va = 104], [Whole EXCEPT !.end_va = 56],
          [Whole EXCEPT !.end_va = 104, !.no_end_range_check = 1],
          [Whole EXCEPT !.end_va = 104, !.no_end_range_check = 0],
          [Whole EXCEPT !.va = 88, !.end_va = 80],
          [Whole EXCEPT !.start_label = "nowhere"], [Whole EXCEPT !.end_label = "far"],
          [Whole EXCEPT !.link_section = "nowhere"], [Whole EXCEPT !.link_section = NoName],
          [Whole EXCEPT !.tsbs[1].page_size = 12], [Whole EXCEPT !.tsbs[1].tag_base = NO_ADDR],
          [Whole EXCEPT !.tsbs[1].va_index_bits = NoBits],
          [Whole EXCEPT !.tsbs[1].va_index_bits = Bits(4, 3)],
          [Whole EXCEPT !.tsbs[1].name = "nowhere"],
          [Whole EXCEPT !.pa = 768], [Whole EXCEPT !.pa = 760], [Whole EXCEPT !.pa = 772],
          [Whole EXCEPT !.tsbcsms = <<InCsm("nowhere", 1)>>]}}
      \cup {tsb(t) \o tsb(t), tsb([t EXCEPT !.size_bits = 16]), tsb([t EXCEPT !.split = 2]),
            tsb([t EXCEPT !.num_entries = 0]), tsb([t EXCEPT !.start_addr = NO_ADDR]),
            tsb([t EXCEPT !.link_area = "nowhere"]), L0 \o L0,
            Def("tsb_link", Area("l0", NO_ADDR)), C0 \o C0, CL \o CL, C0,
            T0(NoName) \o CL \o C0 \o
              App("a1", <<[Whole EXCEPT !.tsbs = << >>, !.tsbcsms = <<InCsm("c0", 1)>>]>>),
            T0(NoName) \o App("a1", <<Whole>>) \o App("a1", <<Cleared>>),
            T0(NoName) \o AppOf("a1", NoElf, <<Whole>>),
            T0("l0") \o L0 \o App("a1", <<Whole, [ByLabel EXCEPT !.pa = 264]>>),
            T0("l0") \o L0 \o App("a1", <<Identity, Whole, [ByLabel EXCEPT !.pa = 264]>>),
            T0("l0") \o Def("tsb_link", Area("l0", 772)) \o App("a1", <<Whole>>),
            T0(NoName) \o Def("tsbcsm", Table("c0", 768, NoName)),
            Def("tsbcsm", Table("c0", 896, "cl")) \o Def("tsbcsm_link", Area("cl", 900))}

(* Command lines that end the run, and some that do not generate all.      *)
OtherRuns ==
  LET one == MixFile(<<<<Whole>>, << >>>>, "l0")
  IN  {Make(CsmFile, Clash), Make(CsmFile, <<"-in", "-genimage">>),
       Make(one, <<"-in", "-gentsbs", "-gensymtab">>),
       Make(one, <<"-in", "-genimage", "-gentsbs">>),
       Make(one, <<"-help">>), Make(one, <<"-silent", "-frobnicate">>),
       Run(one, <<[opt |-> "-in", given |-> FALSE]>>, {}, 0),
       Run(one, <<[opt |-> "-imagefile", given |-> FALSE]>>, {}, 0),
       Make(<< >>, <<"-splitsec">>)}

(* An empty memory written in any order, and one of 15 loaded lines, which *)
(* grows a third level, written in between.                                *)
SimRuns ==
  {Run(<< >>, Args(Usual), {16 * i : i \in 0 .. 6}, 6),
   Run(<< >>, Args(Usual), {8, 9, 16, 1024 + 8}, 5),
   Run(App("a1", <<Sparse>>), Args(Usual), {512 + 16 * i + 8 : i \in 0 .. 14} \cup {513}, 3)}

AllRuns ==
  MixRuns \cup OtherRuns \cup SimRuns \cup {Make(f, Clash) : f \in BadFiles}
=============================================================================
