-------------------------------- MODULE GfSplit --------------------------------
(***************************************************************************)
(* goldfinger -splitsec (split.c): a diag is split, line by line, into the *)
(* midas directives and one assembly file per section of an application,   *)
(* with a map of the sections behind the directives.                       *)
(*                                                                         *)
(* A line is what tells it apart: how it begins (kind), the name after     *)
(* SECTION or APPLICATION (base, with or without a leading dot, "" when    *)
(* there is none), whether it ends in a backslash (cont) and whether it    *)
(* has a closing brace (close).  Lines are written by their numbers.       *)
(***************************************************************************)
EXTENDS Integers, Sequences, SequencesExt

CONSTANT MAX_SECTIONS
ASSUME MaxSectionsAssumption == MAX_SECTIONS \in Nat \ {0}

VARIABLES
  sstage,             \* "off", "split", "done" or the error of the run
  lines,              \* the lines read so far
  in_block, in_multi_line_dir,
  last_fh,            \* the file the last line went to: "src" or "midas"
  appname,            \* the application in force
  Section_table,      \* the sections seen, each with the file of its number
  files, src,         \* the assembly files and which of them is open
  midas               \* the directives

openvars == <<in_block, in_multi_line_dir, last_fh>>
tablevars == <<appname, Section_table, src>>
splitvars == <<sstage, lines, openvars, tablevars, files, midas>>

DiagKinds ==
  {"blank", "attr", "goldfinger", "section", "midas", "application", "text"}
DiagLine ==
  [kind : DiagKinds, base : STRING, dot : BOOLEAN, cont : BOOLEAN, close : BOOLEAN]

AName(base, dot) == [base |-> base, dot |-> dot]

(* File 1 starts as the temporary file of what stands before any section.  *)
SplitInit ==
  /\ sstage = "split"
  /\ lines = << >>
  /\ in_block = FALSE /\ in_multi_line_dir = FALSE /\ last_fh = "src"
  /\ appname = AName("default", FALSE)
  /\ Section_table = << >> /\ files = << << >> >> /\ src = 1
  /\ midas = << >>

Here == Len(lines) + 1
ToSource == files' = [files EXCEPT ![src] = Append(@, Here)]
ToMidas(notes) == midas' = midas \o notes

FullText(n) == [what |-> "text", n |-> n]
CutText(n) == [what |-> "cut", n |-> n]
LineNote == IF last_fh = "midas" THEN << >> ELSE <<[what |-> "#line", n |-> Here]>>

Read(l) == sstage = "split" /\ lines' = Append(lines, l)

-----------------------------------------------------------------------------
(* Lines in the order the code tells them apart. *)

BlankLine(l) ==
  /\ Read(l) /\ l.kind = "blank"
  /\ IF last_fh = "src" THEN ToSource /\ UNCHANGED midas
     ELSE ToMidas(<<FullText(Here)>>) /\ UNCHANGED files
  /\ UNCHANGED <<sstage, openvars, tablevars>>

Begins(l, kinds) == Read(l) /\ ~in_multi_line_dir /\ l.kind \in kinds

ContinuedLine(l) ==
  /\ Read(l) /\ l.kind # "blank" /\ in_multi_line_dir
  /\ ToMidas(<<FullText(Here)>>)
  /\ in_multi_line_dir' = l.cont
  /\ UNCHANGED <<sstage, in_block, last_fh, tablevars, files>>

(* attr_... and goldfinger_... *)
BlockLine(l) ==
  /\ Begins(l, {"attr", "goldfinger"})
  /\ ToMidas(LineNote \o <<FullText(Here)>>)
  /\ in_block' = (in_block \/ ~l.close)
  /\ last_fh' = "midas"
  /\ UNCHANGED <<sstage, in_multi_line_dir, tablevars, files>>

LineOfBlock(l) ==
  /\ Begins(l, {"section", "midas", "application", "text"}) /\ in_block
  /\ ToMidas(<<FullText(Here)>>)
  /\ in_block' = ~l.close
  /\ UNCHANGED <<sstage, in_multi_line_dir, last_fh, tablevars, files>>

(* Mutant: a section is told apart by its name alone. *)
MutSameSection(e, app, sec) == e.section = sec.base

SameSection(e, app, sec) == e.app = app.base /\ e.section = sec.base

Lookup(app, sec) ==
  {i \in DOMAIN Section_table : SameSection(Section_table[i], app, sec)}

(* A section seen before is appended to; the first takes over the          *)
(* temporary file; any other starts a file of its own.                     *)
section_lookup(app, sec) ==
  IF Lookup(app, sec) # {}
  THEN /\ src' = CHOOSE i \in Lookup(app, sec) : TRUE
       /\ UNCHANGED <<sstage, Section_table, files>>
  ELSE /\ files' = IF Section_table = << >> THEN files ELSE Append(files, << >>)
       /\ IF Len(Section_table) = MAX_SECTIONS
          THEN sstage' = "M_MEMORY" /\ UNCHANGED <<Section_table, src>>
          ELSE /\ Section_table' = Append(Section_table,
                    [app |-> app.base, section |-> sec.base, orig |-> sec])
               /\ src' = Len(Section_table) + 1
               /\ UNCHANGED sstage

SectionLine(l) ==
  /\ Begins(l, {"section"}) /\ ~in_block
  /\ ToMidas(LineNote \o <<FullText(Here)>>)
  /\ IF l.base = ""
     THEN sstage' = "M_GOLDFINGERPARSE" /\ UNCHANGED <<openvars, tablevars, files>>
     ELSE /\ section_lookup(appname, AName(l.base, l.dot))
          /\ in_multi_line_dir' = l.cont
          /\ last_fh' = "midas"
          /\ UNCHANGED <<appname, in_block>>

MidasLine(l) ==
  /\ Begins(l, {"midas"}) /\ ~in_block
  /\ ToMidas(LineNote \o <<FullText(Here)>>)
  /\ in_multi_line_dir' = l.cont
  /\ last_fh' = "midas"
  /\ UNCHANGED <<sstage, in_block, tablevars, files>>

(* strtok ended the line behind the name before it is printed: what is     *)
(* left has neither a newline nor a backslash.                             *)
ApplicationLine(l) ==
  /\ Begins(l, {"application"}) /\ ~in_block
  /\ IF l.base = ""
     THEN sstage' = "M_GOLDFINGERPARSE" /\ UNCHANGED <<appname, midas, last_fh>>
     ELSE /\ ToMidas(LineNote \o <<CutText(Here)>>)
          /\ appname' = AName(l.base, l.dot)
          /\ last_fh' = "midas"
          /\ UNCHANGED sstage
  /\ UNCHANGED <<in_block, in_multi_line_dir, Section_table, src, files>>

SourceLine(l) ==
  /\ Begins(l, {"text"}) /\ ~in_block
  /\ ToSource
  /\ last_fh' = "src"
  /\ UNCHANGED <<sstage, in_block, in_multi_line_dir, tablevars, midas>>

SplitLine(l) ==
  \/ BlankLine(l) \/ ContinuedLine(l) \/ BlockLine(l) \/ LineOfBlock(l)
  \/ SectionLine(l) \/ MidasLine(l) \/ ApplicationLine(l) \/ SourceLine(l)

(* write_section_map, at the end of the diag. *)
EndOfDiag ==
  /\ sstage = "split" /\ sstage' = "done"
  /\ ToMidas([i \in DOMAIN Section_table |->
                [what |-> "map", file |-> i, app |-> Section_table[i].app,
                 section |-> Section_table[i].orig]])
  /\ UNCHANGED <<lines, openvars, tablevars, files>>

-----------------------------------------------------------------------------
(* What the comment at the head of split.c promises, said over the lines   *)
(* of the diag: after which of them a directive is still open, which of    *)
(* them are directives, and the section a line belongs to.                 *)

After(before, l) ==
  CASE l.kind = "blank" -> before
    [] l.kind # "blank" /\ before = "directive" ->
         IF l.cont THEN "directive" ELSE "no"
    [] l.kind \in {"attr", "goldfinger"} /\ before # "directive" ->
         IF before = "block" \/ ~l.close THEN "block" ELSE "no"
    [] l.kind \in {"section", "midas", "application", "text"} /\ before = "block" ->
         IF l.close THEN "no" ELSE "block"
    [] l.kind \in {"section", "midas"} /\ before = "no" ->
         IF l.cont THEN "directive" ELSE "no"
    [] OTHER -> "no"

Open ==
  LET open[i \in 0 .. Len(lines)] ==
        IF i = 0 THEN "no" ELSE After(open[i - 1], lines[i])
  IN  open

Acts(i, kind) == lines[i].kind = kind /\ Open[i - 1] = "no"

LatestBefore(n, kind) == Max({0} \cup {i \in 1 .. n - 1 : Acts(i, kind)})

(* The application and section in force at line n.  What stands before any *)
(* section belongs to the first one.                                       *)
NameAt(s) ==
  LET a == LatestBefore(s, "application")
  IN  <<IF a = 0 THEN "default" ELSE lines[a].base, lines[s].base>>

Sections == {i \in DOMAIN lines : Acts(i, "section")}

Home(n) ==
  LET own == LatestBefore(n, "section")
  IN  IF own # 0 THEN NameAt(own)
      ELSE IF Sections = {} THEN <<"none", "none">> ELSE NameAt(Min(Sections))

SourceLines == {i \in DOMAIN lines : Acts(i, "text")}

FileOf(n) == {f \in DOMAIN files : Contains(files[f], n)}

(* Splitting loses, repeats and reorders nothing: every line of a diag is  *)
(* in one of the files, in its place; the source lines are in the file of  *)
(* their section, which they share with the lines of that section and      *)
(* application alone; what is no source line went to the directives.       *)
LinesGoHome ==
  sstage = "done" =>
    LET told == {j \in DOMAIN midas : midas[j].what \in {"text", "cut"}}
        InMidas(n) == \E j \in told : midas[j].n = n
    IN  /\ \A i, j \in told : i < j => midas[i].n < midas[j].n
        /\ \A f \in DOMAIN files : \A i, j \in DOMAIN files[f] :
             i < j => files[f][i] < files[f][j]
        /\ \A n \in DOMAIN lines :
             \/ InMidas(n) /\ FileOf(n) = {}
             \/ ~InMidas(n) /\ \E f \in DOMAIN files : FileOf(n) = {f}
        /\ \A n \in {i \in DOMAIN lines : lines[i].kind # "blank"} :
             FileOf(n) # {} <=> n \in SourceLines
        /\ \A n, m \in SourceLines : FileOf(n) = FileOf(m) <=> Home(n) = Home(m)
=============================================================================
