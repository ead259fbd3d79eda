------------------------------ MODULE Goldfinger ------------------------------
(***************************************************************************)
(* A run of goldfinger on a command file (goldfinger.c, app.c): the file   *)
(* is parsed item by item, the objects are linked up, every executable is  *)
(* read and its blocks written to the image, the blocks' pages go to the   *)
(* TSBs and TSBCSMs, and those and their link areas follow in the image.   *)
(* The first error ends the run.                                           *)
(***************************************************************************)
EXTENDS GfBlock

CONSTANT Inputs   \* what the tool may be run on: [args, file, ...]

VARIABLES
  input,       \* command line, command file and executables of this run
  opts,        \* the options of the run
  stage,       \* what the tool is doing
  pos,         \* how far it is in that stage
  sec,         \* the section of the executable that is next
  open,        \* for each kind of object the one statements go to, 0: none
  apps, tables, \* the vectors of objects, those of tables by kind
  physmap,     \* regions of physical memory in use
  image,       \* the text written so far
  symbols,     \* the symbol table written so far
  err          \* the error that ended the run

objects == <<apps, tables>>
gfvars == <<input, opts, stage, pos, sec, open, objects, physmap, image, symbols, err>>

tsbs == tables["tsb"]
tsbcsms == tables["tsbcsm"]
tsb_links == tables["tsb_link"]
tsbcsm_links == tables["tsbcsm_link"]

Kinds == {"app", "block", "block_tsb", "block_tsbcsm",
          "tsb", "tsbcsm", "tsb_link", "tsbcsm_link"}
TableKinds == {"tsb", "tsbcsm", "tsb_link", "tsbcsm_link"}

DefaultOpts ==
  [splitsec |-> FALSE, in |-> FALSE, genimage |-> FALSE, gentsbs |-> FALSE,
   gensymtab |-> FALSE, compress |-> TRUE, envZero |-> TRUE, conflicts |-> FALSE]

GfInit ==
  /\ input \in Inputs
  /\ opts = DefaultOpts
  /\ stage = "cmdline" /\ pos = 1 /\ sec = 0
  /\ open = [k \in Kinds |-> 0]
  /\ apps = << >> /\ tables = [k \in TableKinds |-> << >>]
  /\ physmap = << >> /\ image = << >> /\ symbols = << >>
  /\ err = Ok

(* gf_error: the message and exit. *)
Fail(e) ==
  /\ e # Ok
  /\ err' = e /\ stage' = "error"
  /\ UNCHANGED <<input, opts, pos, sec, open, objects, physmap, image, symbols>>

Goto(s) == stage' = s /\ pos' = 1

-----------------------------------------------------------------------------
(* The command line, option by option; -help, -version and a word that is  *)
(* no option end the run.                                                  *)

Silent == {"-destdir", "-srcdir", "-imagefile", "-symtabfile", "-midasfile", "-prefix",
           "-noprint_errors", "-allow_duplicate_tags", "-debug", "-verbose", "-silent",
           "-nooutput"}
WithArgument == {"-destdir", "-srcdir", "-in", "-imagefile", "-symtabfile", "-prefix",
                 "-splitsec", "-midasfile"}

process_cmdline ==
  /\ stage = "cmdline" /\ pos <= Len(input.args)
  /\ LET a == input.args[pos]
         Set(o) == /\ opts' = o /\ pos' = pos + 1
                   /\ UNCHANGED <<input, stage, sec, open, objects, physmap,
                                  image, symbols, err>>
     IN  CASE a.opt \in WithArgument /\ ~a.given -> Fail("M_GOLDFINGERARG")
           [] a.opt = "-in" /\ a.given -> Set([opts EXCEPT !.in = TRUE])
           [] a.opt = "-splitsec" /\ a.given -> Set([opts EXCEPT !.splitsec = TRUE])
           [] a.opt = "-genimage" -> Set([opts EXCEPT !.genimage = TRUE])
           [] a.opt = "-gentsbs" -> Set([opts EXCEPT !.gentsbs = TRUE])
           [] a.opt = "-gensymtab" -> Set([opts EXCEPT !.gensymtab = TRUE])
           [] a.opt = "-nocompress" -> Set([opts EXCEPT !.compress = FALSE])
           [] a.opt = "-noenvzero" -> Set([opts EXCEPT !.envZero = FALSE])
           [] a.opt = "-allow_tsb_conflicts" -> Set([opts EXCEPT !.conflicts = TRUE])
           [] a.opt \in Silent \ WithArgument
                \/ (a.opt \in Silent \cap WithArgument /\ a.given) -> Set(opts)
           [] a.opt \in {"-help", "-version"} ->
                /\ stage' = "exit"
                /\ UNCHANGED <<input, opts, pos, sec, open, objects, physmap, image,
                               symbols, err>>
           [] OTHER -> Fail("M_GOLDFINGERARG")

-----------------------------------------------------------------------------
(* The command file, statement by statement: an object is opened, its      *)
(* members are set, and it is checked when it is closed.                   *)

init_app == [name |-> NoName, elf |-> NoElf, blocks |-> << >>, linked_sections |-> << >>]

(* A statement is <<"open", kind, name>>, <<"set", kind, member, value>>   *)
(* or <<"close", kind>>.                                                   *)
Statement == input.file[pos]
Kind == Statement[2]

AtStatement(op, kinds) ==
  /\ stage = "parse" /\ pos <= Len(input.file)
  /\ Statement[1] = op /\ Kind \in kinds

NextStatement ==
  /\ pos' = pos + 1
  /\ UNCHANGED <<input, opts, stage, sec, physmap, image, symbols, err>>

NewElement(v, init) == add_vector_elements(v, [init EXCEPT !.name = Statement[3]])
Assign(obj) == [obj EXCEPT ![Statement[3]] = Statement[4]]
Opens(v) == open' = [open EXCEPT ![Kind] = Len(v) + 1]
Closes == open' = [open EXCEPT ![Kind] = 0]

IsNew(v, code) == IF PtrByName(v, Statement[3]) # 0 THEN code ELSE Ok
IsOpen == IF open[Kind] = 0 THEN "M_GOLDFINGERPARSE" ELSE Ok

OpenTable(init) ==
  LET v == tables[Kind]
  IN  \/ Fail(IsNew(v, "M_BADTSB"))
      \/ /\ IsNew(v, "M_BADTSB") = Ok
         /\ tables' = [tables EXCEPT ![Kind] = NewElement(v, init)]
         /\ Opens(v)
         /\ NextStatement
         /\ UNCHANGED apps

open_new_tsb == AtStatement("open", {"tsb", "tsbcsm"}) /\ OpenTable(init_tsb)
open_new_tsb_link == AtStatement("open", {"tsb_link", "tsbcsm_link"}) /\ OpenTable(init_tsb_link)

SetTable ==
  /\ tables' = [tables EXCEPT ![Kind][open[Kind]] = Assign(@)]
  /\ NextStatement
  /\ UNCHANGED <<apps, open>>

set_tsb == AtStatement("set", {"tsb", "tsbcsm"}) /\ SetTable
set_tsb_link == AtStatement("set", {"tsb_link", "tsbcsm_link"}) /\ SetTable

OpenTsb == tables[Kind][open[Kind]]

CloseTable(check) ==
  \/ Fail(check)
  \/ /\ check = Ok /\ Closes
     /\ NextStatement
     /\ UNCHANGED objects

close_tsb ==
  /\ AtStatement("close", {"tsb", "tsbcsm"})
  /\ CloseTable(FirstError(<<IsOpen, sanity_check_tsb(OpenTsb)>>))

close_tsb_link ==
  /\ AtStatement("close", {"tsb_link", "tsbcsm_link"})
  /\ CloseTable(FirstError(<<IsOpen, sanity_check_tsb_link(OpenTsb)>>))

open_new_app ==
  /\ AtStatement("open", {"app"})
  /\ \/ Fail(IsNew(apps, "M_APPSYNTAX"))
     \/ /\ IsNew(apps, "M_APPSYNTAX") = Ok
        /\ apps' = NewElement(apps, init_app)
        /\ Opens(apps)
        /\ NextStatement
        /\ UNCHANGED tables

set_app ==
  /\ AtStatement("set", {"app"})
  /\ apps' = [apps EXCEPT ![open["app"]] = Assign(@)]
  /\ NextStatement
  /\ UNCHANGED <<tables, open>>

(* The check of an application passes: init_app gave it an elf_file. *)
close_app ==
  /\ AtStatement("close", {"app"})
  /\ \/ Fail(IsOpen)
     \/ /\ IsOpen = Ok /\ Closes
        /\ NextStatement
        /\ UNCHANGED objects

-----------------------------------------------------------------------------
(* Blocks and the TSBs a block names, inside the open application. *)

OpenBlock == apps[open["app"]].blocks[open["block"]]

SetOpenBlock(b) ==
  /\ apps' = [apps EXCEPT ![open["app"]].blocks[open["block"]] = b]
  /\ NextStatement
  /\ UNCHANGED tables

open_new_block ==
  /\ AtStatement("open", {"block"})
  /\ apps' = [apps EXCEPT ![open["app"]].blocks = NewElement(@, init_block)]
  /\ Opens(apps[open["app"]].blocks)
  /\ NextStatement
  /\ UNCHANGED tables

set_block == AtStatement("set", {"block"}) /\ SetOpenBlock(Assign(OpenBlock)) /\ UNCHANGED open

init_linked_section(name) ==
  [name |-> name, shndx |-> 0, start_va |-> NO_ADDR, length |-> 0, symtab |-> << >>]

(* Closing a block finds the linked section it names or adds one; the name *)
(* of none is a null pointer.                                              *)
close_block ==
  /\ AtStatement("close", {"block"})
  /\ LET section == OpenBlock.link_section
         e == FirstError(<<IsOpen, sanity_check_block(OpenBlock),
                           IF section = NoName THEN "crash" ELSE Ok>>)
         known == PtrByName(apps[open["app"]].linked_sections, section) # 0
     IN  \/ Fail(e)
         \/ /\ e = Ok /\ Closes
            /\ apps' = [apps EXCEPT ![open["app"]].linked_sections =
                          IF known THEN @
                          ELSE add_vector_elements(@, init_linked_section(section))]
            /\ NextStatement
            /\ UNCHANGED tables

open_new_block_tsb ==
  \/ /\ AtStatement("open", {"block_tsb"}) /\ Opens(OpenBlock.tsbs)
     /\ SetOpenBlock([OpenBlock EXCEPT !.tsbs = NewElement(@, init_block_tsb)])
  \/ /\ AtStatement("open", {"block_tsbcsm"}) /\ Opens(OpenBlock.tsbcsms)
     /\ SetOpenBlock([OpenBlock EXCEPT !.tsbcsms = NewElement(@, init_block_tsbcsm)])

set_block_tsb ==
  \/ /\ AtStatement("set", {"block_tsb"}) /\ UNCHANGED open
     /\ SetOpenBlock([OpenBlock EXCEPT !.tsbs[open["block_tsb"]] = Assign(@)])
  \/ /\ AtStatement("set", {"block_tsbcsm"}) /\ UNCHANGED open
     /\ SetOpenBlock([OpenBlock EXCEPT !.tsbcsms[open["block_tsbcsm"]] = Assign(@)])

close_block_tsb ==
  /\ AtStatement("close", {"block_tsb", "block_tsbcsm"})
  /\ Closes
  /\ NextStatement
  /\ UNCHANGED objects

Parse ==
  \/ open_new_tsb \/ set_tsb \/ close_tsb
  \/ open_new_tsb_link \/ set_tsb_link \/ close_tsb_link
  \/ open_new_app \/ set_app \/ close_app
  \/ open_new_block \/ set_block \/ close_block
  \/ open_new_block_tsb \/ set_block_tsb \/ close_block_tsb

-----------------------------------------------------------------------------
(* finish_image_file_init: the names objects give each other resolve; the  *)
(* tables of the TSBs are allocated and zeroed.                            *)
finish_image_file_init ==
  /\ stage = "parse" /\ pos > Len(input.file)
  /\ LET blocks == FlattenSeq([a \in DOMAIN apps |-> apps[a].blocks])
         e == FirstError(
                [i \in DOMAIN blocks |-> finish_single_block_init(blocks[i], tsbs, tsbcsms)]
                \o [i \in DOMAIN tsbs |-> LinkAreaError(tsbs[i], tsb_links)]
                \o [i \in DOMAIN tsbcsms |-> LinkAreaError(tsbcsms[i], tsbcsm_links)])
     IN  \/ Fail(e)
         \/ /\ e = Ok
            /\ tables' = [tables EXCEPT
                 !["tsb"] = [i \in DOMAIN @ |-> finish_single_tsb_init(@[i])],
                 !["tsbcsm"] = [i \in DOMAIN @ |-> finish_single_tsb_init(@[i])]]
            /\ Goto("elf")
            /\ UNCHANGED <<input, opts, sec, open, apps, physmap, image, symbols, err>>

-----------------------------------------------------------------------------
(* process_elf_file, once over the sections to find the linked ones and    *)
(* their symbols, and again to size the blocks and write their images.     *)

Loaded(s) == s.type \in {"PROGBITS", "NOBITS"}

SeeSection(elf, ls) ==
  LET hits == {i \in DOMAIN elf.sections :
                 Loaded(elf.sections[i]) /\ elf.sections[i].name = ls.name}
      i == CHOOSE k \in hits : \A j \in hits : j <= k
  IN  IF hits = {} THEN ls
      ELSE [ls EXCEPT !.shndx = i, !.start_va = elf.sections[i].addr,
                      !.length = Len(elf.sections[i].data),
                      !.symtab = build_linked_section_symbol_table(elf.symbols, i)]

SeeSections ==
  /\ stage = "elf" /\ pos <= Len(apps) /\ sec = 0
  /\ LET a == apps[pos]
         seen == [i \in DOMAIN a.linked_sections |->
                    SeeSection(a.elf, a.linked_sections[i])]
         lost == \E i \in DOMAIN seen : seen[i].shndx = 0
         e == CASE a.elf = NoElf -> "M_FILE"
                [] a.elf # NoElf /\ lost -> "M_BLOCKSYNTAX"
                [] OTHER -> Ok
     IN  \/ Fail(e)
         \/ /\ e = Ok
            /\ apps' = [apps EXCEPT ![pos].linked_sections = seen]
            /\ sec' = 1
            /\ UNCHANGED <<input, opts, stage, pos, open, tables, physmap,
                           image, symbols, err>>

LinkedSection(a, b) == a.linked_sections[PtrByName(a.linked_sections, b.link_section)]

(* One block of the section, sized; acc is [err, blocks]. *)
blk_calculate_size_if_match(a, s, acc, i, junk) ==
  LET r == block_calculate_size(acc.blocks[i], LinkedSection(a, acc.blocks[i]), junk)
  IN  IF acc.err # Ok \/ acc.blocks[i].link_section # s.name THEN acc
      ELSE [err |-> r.err, blocks |-> [acc.blocks EXCEPT ![i] = r.block]]

(* One block of the section, written; acc is [err, physmap, image]. *)
blk_gen_image_if_match(s, acc, b) ==
  LET e == check_entry_vs_vector(acc.physmap, BlockObject(b))
  IN  IF acc.err # Ok \/ b.link_section # s.name \/ ~b.in_image THEN acc
      ELSE IF e # Ok THEN [acc EXCEPT !.err = e]
      ELSE [err |-> Ok, physmap |-> add_to_physmap(acc.physmap, BlockObject(b)),
            image |-> acc.image \o
                      block_generate_image(b, s, opts.compress, opts.envZero)]

ProcessSection ==
  /\ stage = "elf" /\ pos <= Len(apps)
  /\ sec \in 1 .. Len(apps[pos].elf.sections)
  /\ \E junk \in [DOMAIN apps[pos].blocks -> BOOLEAN] :
     LET a == apps[pos]
         s == a.elf.sections[sec]
         Size(acc, i) == blk_calculate_size_if_match(a, s, acc, i, junk[i])
         Write(acc, b) == blk_gen_image_if_match(s, acc, b)
         sized == IF Loaded(s)
                  THEN FoldLeft(Size, [err |-> Ok, blocks |-> a.blocks],
                                [i \in DOMAIN a.blocks |-> i])
                  ELSE [err |-> Ok, blocks |-> a.blocks]
         written == IF Loaded(s) /\ opts.genimage /\ sized.err = Ok
                    THEN FoldLeft(Write, [err |-> Ok, physmap |-> physmap, image |-> image],
                                  sized.blocks)
                    ELSE [err |-> sized.err, physmap |-> physmap, image |-> image]
     IN  \/ Fail(written.err)
         \/ /\ written.err = Ok
            /\ apps' = [apps EXCEPT ![pos].blocks = sized.blocks]
            /\ physmap' = written.physmap
            /\ image' = written.image
            /\ sec' = sec + 1
            /\ UNCHANGED <<input, opts, stage, pos, open, tables, symbols, err>>

NextExecutable ==
  /\ stage = "elf" /\ pos <= Len(apps) /\ sec > Len(apps[pos].elf.sections)
  /\ pos' = pos + 1 /\ sec' = 0
  /\ UNCHANGED <<input, opts, stage, open, objects, physmap, image, symbols, err>>

-----------------------------------------------------------------------------
(* The next vector of the run when the current one is through. *)

Order == <<"elf", "tsbs", "tsbcsms", "write_tsbs", "write_tsb_links",
           "write_tsbcsms", "write_tsbcsm_links", "symtab", "done">>

Wanted(s) ==
  CASE s = "symtab" -> opts.gensymtab
    [] s \in {"elf", "done"} -> TRUE
    [] OTHER -> opts.gentsbs

Following(s) ==
  LET later == {i \in DOMAIN Order :
                  Wanted(Order[i]) /\ \E j \in 1 .. i - 1 : Order[j] = s}
  IN  Order[CHOOSE i \in later : \A j \in later : i <= j]

Through(s) ==
  CASE s \in {"elf", "tsbs", "tsbcsms", "symtab"} -> pos > Len(apps)
    [] s = "write_tsbs" -> pos > Len(tsbs)
    [] s = "write_tsb_links" -> pos > Len(tsb_links)
    [] s = "write_tsbcsms" -> pos > Len(tsbcsms)
    [] s = "write_tsbcsm_links" -> pos > Len(tsbcsm_links)
    [] OTHER -> FALSE

NextVector ==
  /\ Through(stage)
  /\ Goto(Following(stage))
  /\ UNCHANGED <<input, opts, sec, open, objects, physmap, image, symbols, err>>

-----------------------------------------------------------------------------
(* The pages of an executable go to the TSBs its blocks name. *)

AddBlockTo(acc, b) ==
  LET One(st, i) ==
        LET k == PtrByName(st.tsbs, b.tsbs[i].name)
            r == add_block_tsb_to_tsb(
                   [err |-> Ok, tsb |-> st.tsbs[k], links |-> st.links],
                   b, b.tsbs[i], st.tsbs[k], 0, opts.conflicts, "data")
        IN  IF st.err # Ok THEN st
            ELSE [err |-> r.err, tsbs |-> [st.tsbs EXCEPT ![k] = r.tsb], links |-> r.links]
  IN  FoldLeft(One, acc, [i \in DOMAIN b.tsbs |-> i])

add_apps_to_tsbs ==
  /\ stage = "tsbs" /\ pos <= Len(apps)
  /\ LET r == FoldLeft(AddBlockTo, [err |-> Ok, tsbs |-> tsbs, links |-> tsb_links],
                       apps[pos].blocks)
     IN  \/ Fail(r.err)
         \/ /\ r.err = Ok
            /\ tables' = [tables EXCEPT !["tsb"] = r.tsbs, !["tsb_link"] = r.links]
            /\ pos' = pos + 1
            /\ UNCHANGED <<input, opts, stage, sec, open, apps, physmap, image, symbols, err>>

(* The i-th TSBCSM of a block takes its bits from the i-th TSB; there is   *)
(* no check that it has one.                                               *)
AddBlockToCsms(acc, b) ==
  LET One(st, i) ==
        LET k == PtrByName(st.tsbs, b.tsbcsms[i].name)
            sizer == tsbs[PtrByName(tsbs, b.tsbs[i].name)]
            r == add_block_tsb_to_tsb(
                   [err |-> Ok, tsb |-> st.tsbs[k], links |-> st.links],
                   b, b.tsbs[i], sizer, b.tsbcsms[i].clump_num, opts.conflicts, "clump_num")
        IN  IF st.err # Ok THEN st
            ELSE IF i > Len(b.tsbs) THEN [st EXCEPT !.err = "crash"]
            ELSE [err |-> r.err, tsbs |-> [st.tsbs EXCEPT ![k] = r.tsb], links |-> r.links]
  IN  FoldLeft(One, acc, [i \in DOMAIN b.tsbcsms |-> i])

add_apps_to_tsbcsms ==
  /\ stage = "tsbcsms" /\ pos <= Len(apps)
  /\ LET r == FoldLeft(AddBlockToCsms,
                       [err |-> Ok, tsbs |-> tsbcsms, links |-> tsbcsm_links],
                       apps[pos].blocks)
     IN  \/ Fail(r.err)
         \/ /\ r.err = Ok
            /\ tables' = [tables EXCEPT !["tsbcsm"] = r.tsbs, !["tsbcsm_link"] = r.links]
            /\ pos' = pos + 1
            /\ UNCHANGED <<input, opts, stage, sec, open, apps, physmap, image, symbols, err>>

-----------------------------------------------------------------------------
(* The MMU part of the image and the symbol table. *)

WriteObject(obj, text) ==
  LET e == check_entry_vs_vector(physmap, obj)
  IN  \/ Fail(e)
      \/ /\ e = Ok
         /\ physmap' = add_to_physmap(physmap, obj)
         /\ image' = image \o text
         /\ pos' = pos + 1
         /\ UNCHANGED <<input, opts, stage, sec, open, objects, symbols, err>>

write_tsbs ==
  /\ stage = "write_tsbs" /\ pos <= Len(tsbs)
  /\ WriteObject(TsbObject(tsbs[pos]),
                 write_tsb(tsbs[pos], "data", opts.compress, opts.envZero))

write_tsb_links ==
  /\ stage = "write_tsb_links" /\ pos <= Len(tsb_links)
  /\ WriteObject(LinkObject(tsb_links[pos]), write_tsb_link(tsb_links[pos]))

write_tsbcsms ==
  /\ stage = "write_tsbcsms" /\ pos <= Len(tsbcsms)
  /\ WriteObject(TsbObject(tsbcsms[pos]),
                 write_tsb(tsbcsms[pos], "clump_num", opts.compress, opts.envZero))

write_tsbcsm_links ==
  /\ stage = "write_tsbcsm_links" /\ pos <= Len(tsbcsm_links)
  /\ WriteObject(LinkObject(tsbcsm_links[pos]), write_tsb_link(tsbcsm_links[pos]))

print_symtab ==
  /\ stage = "symtab" /\ pos <= Len(apps)
  /\ symbols' = symbols \o FlattenSeq(
       [i \in DOMAIN apps[pos].blocks |->
          block_print_symtab(apps[pos].blocks[i],
                             LinkedSection(apps[pos], apps[pos].blocks[i]))])
  /\ pos' = pos + 1
  /\ UNCHANGED <<input, opts, stage, sec, open, objects, physmap, image, err>>

GfNext ==
  \/ process_cmdline \/ Parse
  \/ finish_image_file_init
  \/ SeeSections \/ ProcessSection \/ NextExecutable \/ NextVector
  \/ add_apps_to_tsbs \/ add_apps_to_tsbcsms
  \/ write_tsbs \/ write_tsb_links \/ write_tsbcsms \/ write_tsbcsm_links
  \/ print_symtab
=============================================================================
