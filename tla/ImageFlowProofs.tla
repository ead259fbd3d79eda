---------------------------- MODULE ImageFlowProofs ----------------------------
(***************************************************************************)
(* For diags of any lines and any length and for any number of sections:   *)
(* splitting a diag loses, repeats and reorders no line, and every source  *)
(* line goes to the file of its section.  A line once read never changes   *)
(* its meaning, so the lemmas say what is known of the lines before when   *)
(* one more is read, then what each kind of line does to the files.        *)
(*                                                                         *)
(* For images of any length and any accesses of the simulation: the B-tree *)
(* stays one, and a read returns what was last written.  The lemmas go up  *)
(* from the keys of a node to a node, to the tree, to the recursion that   *)
(* walks it, and from there to the memory.                                 *)
(***************************************************************************)
EXTENDS ImageFlowInv, NaturalsInduction, SequenceTheorems, FiniteSetTheorems,
        WellFoundedInduction, TLAPS

-----------------------------------------------------------------------------
(* What is open after a line.                                              *)

States == {"no", "block", "directive"}
OpenUpTo(o, ls, n) ==
  o = [i \in 0 .. n |-> IF i = 0 THEN "no" ELSE After(o[i - 1], ls[i])]
Follows(o, ls) ==
  /\ o[0] = "no"
  /\ \A i \in 1 .. Len(ls) : o[i] = After(o[i - 1], ls[i])
  /\ \A i \in 0 .. Len(ls) : o[i] \in States

LEMMA LeastNat ==
  ASSUME NEW T, T \subseteq Nat, T # {}
  PROVE  \E x \in T : \A y \in T : x <= y
<1>1. \E x \in T : \A y \in T : ~ (<<y, x>> \in OpToRel(<, Nat))
  BY NatLessThanWellFounded, WFMin, ZenonT(20)
<1>2. \A x, y \in Nat : (<<y, x>> \in OpToRel(<, Nat)) <=> y < x
  BY DEF OpToRel
<1>3. PICK x \in T : \A y \in T : ~ (y < x)
  BY <1>1, <1>2
<1>4. \A y \in T : x <= y
  BY <1>3
<1> QED BY <1>4

LEMMA AfterType ==
  ASSUME NEW b \in States, NEW l \in DiagLine
  PROVE  /\ After(b, l) \in States
         /\ l.kind = "blank" => After(b, l) = b
         /\ l.kind # "blank" /\ b = "directive" =>
              After(b, l) = IF l.cont THEN "directive" ELSE "no"
         /\ l.kind \in {"attr", "goldfinger"} /\ b # "directive" =>
              After(b, l) = IF b = "block" \/ ~l.close THEN "block" ELSE "no"
         /\ l.kind \in {"section", "midas", "application", "text"} /\ b = "block" =>
              After(b, l) = IF l.close THEN "no" ELSE "block"
         /\ l.kind \in {"section", "midas"} /\ b = "no" =>
              After(b, l) = IF l.cont THEN "directive" ELSE "no"
         /\ l.kind \in {"application", "text"} /\ b = "no" => After(b, l) = "no"
<1>1. b \in {"no", "block", "directive"} /\ l.kind \in DiagKinds
  BY DEF States, DiagLine
<1>2. CASE l.kind = "blank"
  BY <1>1, <1>2 DEF After, States
<1>3. CASE l.kind # "blank" /\ b = "directive"
  BY <1>1, <1>3 DEF After, States
<1>4. CASE l.kind \in {"attr", "goldfinger"} /\ b # "directive"
  BY <1>1, <1>4 DEF After, States
<1>5. CASE l.kind \in {"section", "midas", "application", "text"} /\ b = "block"
  BY <1>1, <1>5 DEF After, States
<1>6. CASE l.kind \in {"section", "midas"} /\ b = "no"
  BY <1>1, <1>6 DEF After, States
<1>7. CASE l.kind \in {"application", "text"} /\ b = "no"
  BY <1>1, <1>7 DEF After, States
<1> QED BY <1>1, <1>2, <1>3, <1>4, <1>5, <1>6, <1>7 DEF DiagKinds

LEMMA OpenExists ==
  ASSUME NEW ls, NEW m \in Nat
  PROVE  \A n \in 0 .. m : \E o : OpenUpTo(o, ls, n)
<1> DEFINE W == {n \in 0 .. m : ~ \E o : OpenUpTo(o, ls, n)}
<1> SUFFICES ASSUME W # {} PROVE FALSE OBVIOUS
<1>1. PICK n \in W : \A i \in W : n <= i
  <2>1. W \subseteq Nat
    OBVIOUS
  <2> HIDE DEF W
  <2> QED BY <2>1, LeastNat
<1>2. n \in 0 .. m
  OBVIOUS
<1>3. n # 0
  <2>1. OpenUpTo([i \in 0 .. 0 |-> "no"], ls, 0)
    BY DEF OpenUpTo
  <2> QED BY <2>1
<1>4. n - 1 \in 0 .. m /\ n - 1 \notin W
  BY <1>1, <1>2, <1>3
<1>5. PICK f : OpenUpTo(f, ls, n - 1)
  BY <1>4
<1> DEFINE g == [i \in 0 .. n |-> IF i = n THEN After(f[n - 1], ls[n]) ELSE f[i]]
<1>6. ASSUME NEW i \in 0 .. n
      PROVE  g[i] = IF i = 0 THEN "no" ELSE After(g[i - 1], ls[i])
  <2>1. CASE i = n
    <3>1. g[n] = After(f[n - 1], ls[n]) /\ g[n - 1] = f[n - 1]
      BY <1>2, <1>4
    <3> QED BY <1>3, <2>1, <3>1
  <2>2. CASE i # n
    <3>1. i \in 0 .. n - 1 /\ g[i] = f[i]
      BY <1>2, <2>2
    <3>2. f[i] = IF i = 0 THEN "no" ELSE After(f[i - 1], ls[i])
      BY <1>5, <3>1 DEF OpenUpTo
    <3>3. i # 0 => i - 1 \in 0 .. n /\ i - 1 # n /\ g[i - 1] = f[i - 1]
      BY <1>2, <3>1
    <3> QED BY <3>1, <3>2, <3>3
  <2> QED BY <2>1, <2>2
<1>7. OpenUpTo(g, ls, n)
  <2>1. g = [i \in 0 .. n |-> g[i]]
    OBVIOUS
  <2> QED
    <3> HIDE DEF g
    <3> QED BY <1>6, <2>1 DEF OpenUpTo
<1> QED BY <1>7

LEMMA OpenFollows ==
  ASSUME NEW ls \in Seq(DiagLine), NEW o, o = CHOOSE q : OpenUpTo(q, ls, Len(ls))
  PROVE  Follows(o, ls)
<1>1. Len(ls) \in Nat /\ \A i \in 1 .. Len(ls) : ls[i] \in DiagLine
  OBVIOUS
<1>2. OpenUpTo(o, ls, Len(ls))
  <2>1. \E q : OpenUpTo(q, ls, Len(ls))
    <3>1. Len(ls) \in 0 .. Len(ls)
      BY <1>1
    <3> QED BY <1>1, <3>1, OpenExists
  <2> QED BY <2>1
<1>3. \A i \in 0 .. Len(ls) : o[i] = IF i = 0 THEN "no" ELSE After(o[i - 1], ls[i])
  BY <1>2 DEF OpenUpTo
<1>4. o[0] = "no" /\ \A i \in 1 .. Len(ls) : o[i] = After(o[i - 1], ls[i])
  BY <1>1, <1>3
<1> DEFINE W == {i \in 0 .. Len(ls) : o[i] \notin States}
<1>5. W = {}
  <2> SUFFICES ASSUME W # {} PROVE FALSE OBVIOUS
  <2>1. PICK n \in W : \A i \in W : n <= i
    <3>1. W \subseteq Nat
      BY <1>1
    <3> HIDE DEF W
    <3> QED BY <3>1, LeastNat
  <2>2. n # 0
    BY <1>4 DEF States
  <2>3. n - 1 \in 0 .. Len(ls) /\ o[n - 1] \in States /\ n \in 1 .. Len(ls)
    BY <1>1, <2>1, <2>2
  <2> QED BY <1>1, <1>4, <2>3, AfterType
<1> QED BY <1>4, <1>5 DEF Follows

(* A line more changes nothing of what is known of those before it.        *)
LEMMA OpenKept ==
  ASSUME lines \in Seq(DiagLine), NEW l \in DiagLine, lines' = Append(lines, l)
  PROVE  /\ \A i \in 0 .. Len(lines) : Open'[i] = Open[i]
         /\ Open'[Here] = After(Open[Len(lines)], l)
         /\ Open[Len(lines)] \in States
         /\ lines' \in Seq(DiagLine) /\ Len(lines') = Here /\ lines'[Here] = l
         /\ \A i \in 1 .. Len(lines) : lines'[i] = lines[i]
<1>1. /\ Len(lines) \in Nat /\ Here = Len(lines) + 1
      /\ lines' \in Seq(DiagLine) /\ Len(lines') = Here /\ lines'[Here] = l
      /\ \A i \in 1 .. Len(lines) : lines'[i] = lines[i]
  BY DEF Here
<1>2. Follows(Open, lines) /\ Follows(Open', lines')
  <2>1. Open = CHOOSE q : OpenUpTo(q, lines, Len(lines))
    BY DEF Open, OpenUpTo
  <2>2. Open' = CHOOSE q : OpenUpTo(q, lines', Len(lines'))
    BY DEF Open, OpenUpTo
  <2> QED BY <1>1, <2>1, <2>2, OpenFollows
<1>3. /\ Open[0] = "no" /\ Open'[0] = "no"
      /\ \A i \in 1 .. Len(lines) : Open[i] = After(Open[i - 1], lines[i])
      /\ \A i \in 1 .. Here : Open'[i] = After(Open'[i - 1], lines'[i])
  BY <1>1, <1>2 DEF Follows
<1> DEFINE W == {i \in 0 .. Len(lines) : Open'[i] # Open[i]}
<1>4. W = {}
  <2> SUFFICES ASSUME W # {} PROVE FALSE OBVIOUS
  <2>1. PICK n \in W : \A i \in W : n <= i
    <3>1. W \subseteq Nat
      BY <1>1
    <3> HIDE DEF W
    <3> QED BY <3>1, LeastNat
  <2>2. n # 0
    BY <1>3
  <2>3. n - 1 \in 0 .. Len(lines) /\ n - 1 \notin W /\ n \in 1 .. Len(lines) /\ n \in 1 .. Here
    BY <1>1, <2>1, <2>2
  <2>4. Open'[n] = After(Open'[n - 1], lines'[n]) /\ Open[n] = After(Open[n - 1], lines[n])
    BY <1>3, <2>3
  <2> QED BY <1>1, <2>3, <2>4
<1>5. Open'[Here] = After(Open'[Here - 1], l)
  BY <1>1, <1>3
<1>6. Here - 1 = Len(lines) /\ Len(lines) \in 0 .. Len(lines)
  BY <1>1
<1> QED BY <1>1, <1>2, <1>4, <1>5, <1>6 DEF Follows

-----------------------------------------------------------------------------
(* A line is read.                                                         *)
ReadsLine(l, h) == /\ lines \in Seq(DiagLine) /\ l \in DiagLine
               /\ lines' = Append(lines, l) /\ h = Here
(* It is told apart as a line of some kind.                                *)
Begun(l, kind) == l.kind = kind /\ Open[Len(lines)] = "no"

LEMMA ReadFacts ==
  ASSUME NEW l, NEW h, ReadsLine(l, h)
  PROVE  /\ Len(lines) \in Nat /\ h = Len(lines) + 1 /\ h \in Nat
         /\ lines' \in Seq(DiagLine) /\ Len(lines') = h /\ lines'[h] = l
         /\ \A i \in 1 .. Len(lines) : lines'[i] = lines[i]
         /\ \A i \in 0 .. Len(lines) : Open'[i] = Open[i]
         /\ Open'[h] = After(Open[Len(lines)], l)
         /\ Open[Len(lines)] \in States /\ l \in DiagLine
         /\ DOMAIN lines = 1 .. Len(lines) /\ DOMAIN lines' = 1 .. h
<1>1. lines \in Seq(DiagLine) /\ l \in DiagLine /\ lines' = Append(lines, l) /\ h = Here
  BY DEF ReadsLine
<1> QED BY <1>1, OpenKept DEF Here

LEMMA ActsKept ==
  ASSUME NEW l, NEW h, ReadsLine(l, h), NEW kind
  PROVE  /\ \A i \in 1 .. Len(lines) : Acts(i, kind)' <=> Acts(i, kind)
         /\ Acts(h, kind)' <=> Begun(l, kind)
<1>1. /\ Len(lines) \in Nat /\ h = Len(lines) + 1
      /\ lines'[h] = l /\ \A i \in 1 .. Len(lines) : lines'[i] = lines[i]
      /\ \A i \in 0 .. Len(lines) : Open'[i] = Open[i]
  BY ReadFacts
<1>2. ASSUME NEW i \in 1 .. Len(lines) PROVE Acts(i, kind)' <=> Acts(i, kind)
  <2>1. i - 1 \in 0 .. Len(lines)
    BY <1>1
  <2> QED BY <1>1, <2>1 DEF Acts
<1>3. Acts(h, kind)' <=> Begun(l, kind)
  <2>1. h - 1 = Len(lines) /\ Len(lines) \in 0 .. Len(lines)
    BY <1>1
  <2> QED BY <1>1, <2>1 DEF Acts, Begun
<1> QED BY <1>2, <1>3

LEMMA MinIs ==
  ASSUME NEW T, T \subseteq Nat, T # {}
  PROVE  Min(T) \in T /\ \A y \in T : Min(T) <= y
<1>1. \E x \in T : \A y \in T : x <= y
  BY LeastNat
<1> QED BY <1>1 DEF Min

LEMMA MaxIs ==
  ASSUME NEW n \in Nat, NEW T, T \subseteq 0 .. n, T # {}
  PROVE  Max(T) \in T /\ \A y \in T : Max(T) >= y
<1> DEFINE D == {n - i : i \in T}
<1>1. PICK x \in D : \A y \in D : x <= y
  <2>1. \A i \in T : n - i \in Nat
    OBVIOUS
  <2>2. D \subseteq Nat /\ D # {}
    BY <2>1
  <2> HIDE DEF D
  <2> QED BY <2>2, LeastNat
<1>2. PICK i \in T : x = n - i
  BY <1>1
<1>3. \A j \in T : i >= j
  <2> SUFFICES ASSUME NEW j \in T PROVE i >= j
    OBVIOUS
  <2>1. n - j \in D
    OBVIOUS
  <2>2. n - i <= n - j
    BY <1>1, <1>2, <2>1
  <2>3. i \in Int /\ j \in Int
    OBVIOUS
  <2> HIDE DEF D
  <2> QED BY <2>2, <2>3
<1>4. \E k \in T : \A y \in T : k >= y
  BY <1>2, <1>3
<1> HIDE DEF D
<1> QED BY <1>4 DEF Max

LEMMA LatestIs ==
  ASSUME NEW n \in Nat, NEW kind
  PROVE  LET m == LatestBefore(n, kind)
         IN  \/ m = 0 /\ \A i \in 1 .. n - 1 : ~ Acts(i, kind)
             \/ /\ m \in 1 .. n - 1 /\ Acts(m, kind)
                /\ \A i \in 1 .. n - 1 : Acts(i, kind) => i <= m
<1> DEFINE T == {0} \cup {i \in 1 .. n - 1 : Acts(i, kind)}
           m == LatestBefore(n, kind)
<1>1. m = Max(T)
  BY DEF LatestBefore
<1>2. T \subseteq 0 .. n /\ T # {}
  OBVIOUS
<1>3. m \in T /\ \A y \in T : m >= y
  <2> HIDE DEF T, m
  <2> QED BY <1>1, <1>2, MaxIs
<1>4. \A y \in T : y <= m
  <2>1. \A y \in T : y \in Int
    OBVIOUS
  <2> HIDE DEF T, m
  <2> QED BY <1>3, <2>1
<1>5. \A i \in 1 .. n - 1 : Acts(i, kind) => i <= m
  <2> HIDE DEF m
  <2> QED BY <1>4
<1>6. m = 0 \/ (m \in 1 .. n - 1 /\ Acts(m, kind))
  <2> HIDE DEF m
  <2> QED BY <1>3
<1> HIDE DEF m
<1>7. m = 0 => \A i \in 1 .. n - 1 : ~ Acts(i, kind)
  BY <1>5
<1> QED BY <1>5, <1>6, <1>7 DEF m

LEMMA LatestKept ==
  ASSUME NEW l, NEW h, ReadsLine(l, h), NEW kind
  PROVE  /\ \A n \in 1 .. h : LatestBefore(n, kind)' = LatestBefore(n, kind)
         /\ LatestBefore(h + 1, kind)'
              = IF Begun(l, kind) THEN h ELSE LatestBefore(h, kind)
<1>1. Len(lines) \in Nat /\ h = Len(lines) + 1 /\ h \in Nat
  BY ReadFacts
<1>2. /\ \A i \in 1 .. Len(lines) : Acts(i, kind)' <=> Acts(i, kind)
      /\ Acts(h, kind)' <=> Begun(l, kind)
  BY ActsKept
<1> DEFINE S(n) == {i \in 1 .. n - 1 : Acts(i, kind)}
           Sp(n) == {i \in 1 .. n - 1 : Acts(i, kind)'}
<1>3. \A n : LatestBefore(n, kind) = Max({0} \cup S(n)) /\ LatestBefore(n, kind)' = Max({0} \cup Sp(n))
  BY DEF LatestBefore
<1>4. ASSUME NEW n \in 1 .. h PROVE Sp(n) = S(n)
  <2>1. \A i \in 1 .. n - 1 : i \in 1 .. Len(lines)
    BY <1>1
  <2> QED BY <1>2, <2>1
<1>5. Sp(h + 1) = S(h) \cup (IF Begun(l, kind) THEN {h} ELSE {})
  <2>1. \A i \in 1 .. (h + 1) - 1 : i = h \/ (i \in 1 .. Len(lines) /\ i \in 1 .. h - 1)
    BY <1>1
  <2>2. \A i \in 1 .. h - 1 : i \in 1 .. (h + 1) - 1 /\ i \in 1 .. Len(lines)
    BY <1>1
  <2>3. h \in 1 .. (h + 1) - 1 /\ h \notin 1 .. h - 1
    BY <1>1
  <2> QED BY <1>2, <2>1, <2>2, <2>3
<1>6. \A n \in 1 .. h : LatestBefore(n, kind)' = LatestBefore(n, kind)
  <2> HIDE DEF S, Sp
  <2> QED BY <1>3, <1>4
<1>7. CASE ~ Begun(l, kind)
  <2>1. Sp(h + 1) = S(h)
    BY <1>5, <1>7
  <2> HIDE DEF S, Sp
  <2> QED BY <1>3, <1>6, <1>7, <2>1
<1>8. CASE Begun(l, kind)
  <2> DEFINE T == {0} \cup Sp(h + 1)
  <2>1. T \subseteq 0 .. h /\ h \in T
    BY <1>1, <1>5, <1>8
  <2>2. Max(T) = h
    <3> HIDE DEF T
    <3>1. T # {}
      BY <2>1
    <3>2. Max(T) \in T /\ Max(T) >= h
      BY <1>1, <2>1, <3>1, MaxIs
    <3>3. Max(T) \in 0 .. h
      BY <2>1, <3>2
    <3> QED BY <1>1, <3>2, <3>3
  <2> HIDE DEF S, Sp
  <2> QED BY <1>3, <1>6, <1>8, <2>2
<1> QED BY <1>7, <1>8

(* The name of a section is settled when its line is read; the home of a   *)
(* line too, but for those that wait for the first section.                *)
LEMMA NamesKept ==
  ASSUME NEW l, NEW h, ReadsLine(l, h)
  PROVE  /\ \A s \in 1 .. h - 1 : NameAt(s)' = NameAt(s)
         /\ NameAt(h)' = <<IF LatestBefore(h, "application") = 0 THEN "default"
                           ELSE lines[LatestBefore(h, "application")].base, l.base>>
<1>1. /\ Len(lines) \in Nat /\ h = Len(lines) + 1 /\ h \in Nat
      /\ lines'[h] = l /\ \A i \in 1 .. Len(lines) : lines'[i] = lines[i]
  BY ReadFacts
<1>2. ASSUME NEW s \in 1 .. h
      PROVE  NameAt(s)' = <<IF LatestBefore(s, "application") = 0 THEN "default"
                            ELSE lines[LatestBefore(s, "application")].base, lines'[s].base>>
  <2> DEFINE a == LatestBefore(s, "application")
  <2>1. LatestBefore(s, "application")' = a
    BY LatestKept
  <2>2. a # 0 => a \in 1 .. Len(lines)
    <3>1. a = 0 \/ a \in 1 .. s - 1
      BY <1>1, LatestIs
    <3> HIDE DEF a
    <3> QED BY <1>1, <3>1
  <2> HIDE DEF a
  <2>3. NameAt(s)' = <<IF a = 0 THEN "default" ELSE lines'[a].base, lines'[s].base>>
    BY <2>1 DEF NameAt
  <2> QED BY <1>1, <2>2, <2>3 DEF a
<1>3. ASSUME NEW s \in 1 .. h - 1 PROVE NameAt(s)' = NameAt(s)
  <2>1. s \in 1 .. h /\ lines'[s] = lines[s]
    BY <1>1
  <2> QED BY <1>2, <2>1 DEF NameAt
<1>4. h \in 1 .. h
  BY <1>1
<1> QED BY <1>1, <1>2, <1>3, <1>4

LEMMA SectionsKept ==
  ASSUME NEW l, NEW h, ReadsLine(l, h)
  PROVE  /\ Sections' = Sections \cup (IF Begun(l, "section") THEN {h} ELSE {})
         /\ Sections \subseteq 1 .. Len(lines)
         /\ SourceLines' = SourceLines \cup (IF Begun(l, "text") THEN {h} ELSE {})
         /\ SourceLines \subseteq 1 .. Len(lines)
<1>1. /\ Len(lines) \in Nat /\ h = Len(lines) + 1 /\ h \in Nat
      /\ DOMAIN lines = 1 .. Len(lines) /\ DOMAIN lines' = 1 .. h
  BY ReadFacts
<1>2. /\ \A i \in 1 .. Len(lines) : Acts(i, "section")' <=> Acts(i, "section")
      /\ Acts(h, "section")' <=> Begun(l, "section")
      /\ \A i \in 1 .. Len(lines) : Acts(i, "text")' <=> Acts(i, "text")
      /\ Acts(h, "text")' <=> Begun(l, "text")
  BY ActsKept
<1>3. 1 .. h = (1 .. Len(lines)) \cup {h} /\ h \notin 1 .. Len(lines)
  BY <1>1
<1>4. Sections' = {i \in 1 .. h : Acts(i, "section")'} /\ Sections = {i \in 1 .. Len(lines) : Acts(i, "section")}
  BY <1>1 DEF Sections
<1>5. SourceLines' = {i \in 1 .. h : Acts(i, "text")'} /\ SourceLines = {i \in 1 .. Len(lines) : Acts(i, "text")}
  BY <1>1 DEF SourceLines
<1>6. Sections' = Sections \cup (IF Begun(l, "section") THEN {h} ELSE {})
  BY <1>2, <1>3, <1>4
<1>7. SourceLines' = SourceLines \cup (IF Begun(l, "text") THEN {h} ELSE {})
  BY <1>2, <1>3, <1>5
<1> QED BY <1>4, <1>5, <1>6, <1>7

LEMMA HomeKept ==
  ASSUME NEW l, NEW h, ReadsLine(l, h), NEW n \in 1 .. h - 1
  PROVE  IF Sections = {} /\ Begun(l, "section") THEN Home(n)' = NameAt(h)'
         ELSE Home(n)' = Home(n)
<1>1. Len(lines) \in Nat /\ h = Len(lines) + 1 /\ h \in Nat /\ n \in Nat
  BY ReadFacts
<1>2. PICK own : own = LatestBefore(n, "section")
  OBVIOUS
<1>3. PICK first, firstp : first = Min(Sections) /\ firstp = Min(Sections')
  OBVIOUS
<1>4. LatestBefore(n, "section")' = own
  <2>1. n \in 1 .. h
    BY <1>1
  <2> QED BY <1>2, <2>1, LatestKept
<1>5. own = 0 \/ (own \in 1 .. h - 1 /\ own \in Sections)
  <2>1. own = 0 \/ (own \in 1 .. n - 1 /\ Acts(own, "section"))
    BY <1>1, <1>2, LatestIs
  <2>2. DOMAIN lines = 1 .. Len(lines)
    BY ReadFacts
  <2> QED BY <1>1, <2>1, <2>2 DEF Sections
<1>6. /\ Sections' = Sections \cup (IF Begun(l, "section") THEN {h} ELSE {})
      /\ Sections \subseteq 1 .. h - 1
  BY <1>1, SectionsKept
<1>7. \A s \in 1 .. h - 1 : NameAt(s)' = NameAt(s)
  BY NamesKept
<1>8. /\ own # 0 => Home(n) = NameAt(own)
      /\ own = 0 /\ Sections = {} => Home(n) = <<"none", "none">>
      /\ own = 0 /\ Sections # {} => Home(n) = NameAt(first)
  BY <1>2, <1>3 DEF Home
<1>9. /\ own # 0 => Home(n)' = NameAt(own)'
      /\ own = 0 /\ Sections' = {} => Home(n)' = <<"none", "none">>
      /\ own = 0 /\ Sections' # {} => Home(n)' = NameAt(firstp)'
  BY <1>3, <1>4 DEF Home
<1>10. CASE own # 0
  BY <1>5, <1>7, <1>8, <1>9, <1>10
<1>11. CASE own = 0 /\ Sections = {} /\ Begun(l, "section")
  <2>1. Sections' = {h} /\ {h} \subseteq Nat
    BY <1>1, <1>6, <1>11
  <2>2. firstp = h
    BY <1>3, <2>1, MinIs
  <2> QED BY <1>9, <1>11, <2>1, <2>2
<1>12. CASE own = 0 /\ Sections = {} /\ ~ Begun(l, "section")
  <2>1. Sections' = {}
    BY <1>6, <1>12
  <2> QED BY <1>8, <1>9, <1>12, <2>1
<1>13. CASE own = 0 /\ Sections # {}
  <2>1. first \in Sections /\ \A y \in Sections : first <= y
    <3>1. Sections \subseteq Nat
      BY <1>1, <1>6
    <3> QED BY <1>3, <1>13, <3>1, MinIs
  <2>2. \A s \in Sections' : s \in Sections \/ s = h
    BY <1>6
  <2>3. Sections \subseteq Sections' /\ Sections' # {}
    BY <1>6, <1>13
  <2>4. firstp \in Sections' /\ \A y \in Sections' : firstp <= y
    <3>1. Sections' \subseteq Nat
      <4>1. Sections \subseteq Nat
        BY <1>6, <1>1
      <4> QED BY <1>1, <2>2, <4>1
    <3> QED BY <1>3, <2>3, <3>1, MinIs
  <2>5. firstp = first
    <3>1. first \in 1 .. h - 1 /\ first \in Sections'
      BY <1>6, <2>1, <2>3
    <3>2. firstp <= first
      BY <2>4, <3>1
    <3>3. firstp \in Sections
      BY <1>1, <2>2, <2>4, <3>1, <3>2
    <3>4. firstp \in 1 .. h - 1 /\ first <= firstp
      BY <1>6, <2>1, <3>3
    <3> QED BY <1>1, <3>1, <3>2, <3>4
  <2>6. first \in 1 .. h - 1
    BY <1>6, <2>1
  <2> QED BY <1>7, <1>8, <1>9, <1>13, <2>3, <2>5, <2>6
<1> QED BY <1>10, <1>11, <1>12, <1>13

-----------------------------------------------------------------------------
(* The directives: where a line has gone, and that none is behind another. *)

Told == {j \in DOMAIN midas : midas[j].what \in {"text", "cut"}}
InMidas(n) == \E j \in Told : midas[j].n = n

Names == STRING \cup {"default"}
Note == [what : {"text", "cut", "#line"}, n : Nat]
          \cup [what : {"map"}, file : Nat, app : Names,
                section : [base : Names, dot : BOOLEAN]]

MidasOrder ==
  /\ midas \in Seq(Note)
  /\ \A j \in Told : midas[j].n \in 1 .. Len(lines)
  /\ \A i, j \in Told : i < j => midas[i].n < midas[j].n

(* The note of a line, with or without a "#line" before it.                *)
Notes(h, notes) ==
  \E what \in {"text", "cut"} :
    \/ notes = <<[what |-> what, n |-> h]>>
    \/ notes = <<[what |-> "#line", n |-> h], [what |-> what, n |-> h]>>

LEMMA LineTold ==
  ASSUME MidasOrder, NEW l, NEW h, ReadsLine(l, h), NEW notes, Notes(h, notes),
         ToMidas(notes)
  PROVE  MidasOrder' /\ \A n : InMidas(n)' <=> InMidas(n) \/ n = h
<1>1. /\ Len(lines) \in Nat /\ h = Len(lines) + 1 /\ h \in Nat /\ Len(lines') = h
  BY ReadFacts
<1>2. /\ midas \in Seq(Note)
      /\ \A j \in Told : midas[j].n \in 1 .. Len(lines)
      /\ \A i, j \in Told : i < j => midas[i].n < midas[j].n
  BY DEF MidasOrder
<1> DEFINE k == Len(midas)
<1>3. k \in Nat /\ DOMAIN midas = 1 .. k
  BY <1>2
<1>4. PICK m \in {1, 2}, what \in {"text", "cut"} :
        /\ m = 1 => notes = <<[what |-> what, n |-> h]>>
        /\ m = 2 => notes = <<[what |-> "#line", n |-> h], [what |-> what, n |-> h]>>
  BY DEF Notes
<1>5. /\ notes \in Seq(Note) /\ Len(notes) = m
      /\ notes[m].n = h /\ notes[m].what \in {"text", "cut"}
      /\ \A i \in 1 .. m - 1 : notes[i].what = "#line"
  <2> DEFINE told == [what |-> what, n |-> h]
             ref == [what |-> "#line", n |-> h]
  <2>1. /\ told \in Note /\ told.n = h /\ told.what \in {"text", "cut"}
        /\ ref \in Note /\ ref.what = "#line"
    BY <1>1 DEF Note
  <2>2. (m = 1 => notes = <<told>>) /\ (m = 2 => notes = <<ref, told>>)
    BY <1>4
  <2> HIDE DEF told, ref
  <2>3. CASE m = 1
    <3>1. <<told>> \in Seq(Note) /\ Len(<<told>>) = 1 /\ <<told>>[1] = told
      BY <2>1
    <3>2. \A i \in 1 .. m - 1 : FALSE
      BY <2>3
    <3> QED BY <2>1, <2>2, <2>3, <3>1, <3>2
  <2>4. CASE m = 2
    <3> DEFINE both == <<ref, told>>
    <3>0. both \in Seq(Note) /\ Len(both) = 2 /\ both[1] = ref /\ both[2] = told
      BY <2>1
    <3>a. notes = both
      BY <2>2, <2>4
    <3> HIDE DEF both
    <3>1. /\ notes \in Seq(Note) /\ Len(notes) = 2
          /\ notes[1] = ref /\ notes[2] = told
      BY <3>0, <3>a
    <3>2. \A i \in 1 .. m - 1 : i = 1
      BY <2>4
    <3> QED BY <2>1, <2>4, <3>1, <3>2
  <2> QED BY <2>3, <2>4
<1>6. /\ midas' \in Seq(Note) /\ Len(midas') = k + m /\ DOMAIN midas' = 1 .. k + m
      /\ \A j \in 1 .. k : midas'[j] = midas[j]
      /\ \A i \in 1 .. m : midas'[k + i] = notes[i]
  <2>1. midas' = midas \o notes
    BY DEF ToMidas
  <2>2. midas' \in Seq(Note) /\ Len(midas') = k + m
    BY <1>2, <1>5, <2>1
  <2> QED BY <1>2, <1>3, <1>5, <2>1, <2>2
<1> HIDE DEF k
<1>7. Told' = Told \cup {k + m} /\ Told \subseteq 1 .. k
  <2>1. Told \subseteq 1 .. k
    BY <1>3 DEF Told
  <2>2. Told' = {j \in 1 .. k + m : midas'[j].what \in {"text", "cut"}}
    BY <1>6 DEF Told
  <2>3. Told = {j \in 1 .. k : midas[j].what \in {"text", "cut"}}
    BY <1>3 DEF Told
  <2>4. k + m \in Told'
    <3>1. k + m \in 1 .. k + m /\ m \in 1 .. m
      BY <1>3, <1>4
    <3> QED BY <1>5, <1>6, <2>2, <3>1
  <2>5. ASSUME NEW j \in 1 .. k + m, j # k + m, j \notin 1 .. k PROVE j \notin Told'
    <3>1. j = k + 1 /\ m = 2 /\ 1 \in 1 .. m /\ 1 \in 1 .. m - 1
      BY <1>3, <1>4, <2>5
    <3>2. midas'[j].what = "#line"
      BY <1>5, <1>6, <3>1
    <3> QED BY <2>2, <3>2
  <2>6. \A j \in 1 .. k : j \in 1 .. k + m
    BY <1>3, <1>4
  <2>7. \A j \in 1 .. k : j \in Told' <=> j \in Told
    BY <1>6, <2>2, <2>3, <2>6
  <2> QED BY <2>1, <2>2, <2>3, <2>4, <2>5, <2>6, <2>7
<1>8. /\ \A j \in Told : midas'[j] = midas[j]
      /\ midas'[k + m].n = h
  <2>1. m \in 1 .. m
    BY <1>4
  <2> QED BY <1>5, <1>6, <1>7, <2>1
<1>9. \A n : InMidas(n)' <=> InMidas(n) \/ n = h
  BY <1>7, <1>8 DEF InMidas
<1>10. ASSUME NEW j \in Told' PROVE midas'[j].n \in 1 .. Len(lines')
  <2>1. CASE j \in Told
    <3>1. midas[j].n \in 1 .. Len(lines)
      BY <1>2, <2>1
    <3> QED BY <1>1, <1>8, <2>1, <3>1
  <2>2. CASE j = k + m
    BY <1>1, <1>8, <2>2
  <2> QED BY <1>7, <2>1, <2>2
<1>11. ASSUME NEW i \in Told', NEW j \in Told', i < j
       PROVE  midas'[i].n < midas'[j].n
  <2>1. i \in Told
    BY <1>3, <1>4, <1>7, <1>11
  <2>2. CASE j \in Told
    BY <1>2, <1>8, <1>11, <2>1, <2>2
  <2>3. CASE j = k + m
    <3>1. midas[i].n \in 1 .. Len(lines)
      BY <1>2, <2>1
    <3> QED BY <1>1, <1>8, <2>1, <2>3, <3>1
  <2> QED BY <1>7, <2>2, <2>3
<1> QED BY <1>6, <1>9, <1>10, <1>11 DEF MidasOrder

-----------------------------------------------------------------------------
(* The files.                                                              *)

FileOrder ==
  /\ files \in Seq(Seq(Nat)) /\ src \in 1 .. Len(files)
  /\ \A f \in 1 .. Len(files) : \A i \in 1 .. Len(files[f]) :
       files[f][i] \in 1 .. Len(lines)
  /\ \A f \in 1 .. Len(files) : \A i, j \in 1 .. Len(files[f]) :
       i < j => files[f][i] < files[f][j]

LEMMA LineFiled ==
  ASSUME FileOrder, NEW l, NEW h, ReadsLine(l, h), UNCHANGED src, ToSource
  PROVE  /\ FileOrder' /\ FileOf(h) = {} /\ FileOf(h)' = {src}
         /\ \A n : n # h => FileOf(n)' = FileOf(n)
<1>1. /\ Len(lines) \in Nat /\ h = Len(lines) + 1 /\ h \in Nat /\ Len(lines') = h
  BY ReadFacts
<1>2. /\ files \in Seq(Seq(Nat)) /\ src \in 1 .. Len(files) /\ Len(files) \in Nat
      /\ DOMAIN files = 1 .. Len(files)
      /\ \A f \in 1 .. Len(files) : \A i \in 1 .. Len(files[f]) :
           files[f][i] \in 1 .. Len(lines)
      /\ \A f \in 1 .. Len(files) : \A i, j \in 1 .. Len(files[f]) :
           i < j => files[f][i] < files[f][j]
  BY DEF FileOrder
<1>3. /\ files' \in Seq(Seq(Nat)) /\ Len(files') = Len(files) /\ DOMAIN files' = 1 .. Len(files)
      /\ \A f \in 1 .. Len(files) : f # src => files'[f] = files[f]
      /\ files'[src] = Append(files[src], h)
  <2>1. Append(files[src], h) \in Seq(Nat)
    BY <1>1, <1>2
  <2>2. files' = [files EXCEPT ![src] = Append(@, h)]
    BY <1>1 DEF ToSource, Here
  <2> QED BY <1>2, <2>1, <2>2
<1>4. \A f \in 1 .. Len(files) : files[f] \in Seq(Nat) /\ Len(files[f]) \in Nat
  BY <1>2
<1> DEFINE k == Len(files[src])
<1>5. /\ k \in Nat /\ Len(files'[src]) = k + 1
      /\ \A i \in 1 .. k : files'[src][i] = files[src][i]
      /\ files'[src][k + 1] = h
  BY <1>1, <1>2, <1>3, <1>4
<1> HIDE DEF k
<1>6. ASSUME NEW f \in 1 .. Len(files), NEW n
      PROVE  Contains(files'[f], n) <=> Contains(files[f], n) \/ (f = src /\ n = h)
  <2>1. CASE f # src
    BY <1>3, <2>1 DEF Contains
  <2>2. CASE f = src
    <3>1. \A i \in 1 .. k + 1 : i \in 1 .. k \/ i = k + 1
      BY <1>5
    <3>2. k + 1 \in 1 .. k + 1 /\ \A i \in 1 .. k : i \in 1 .. k + 1
      BY <1>5
    <3> QED BY <1>5, <2>2, <3>1, <3>2 DEF Contains, k
  <2> QED BY <2>1, <2>2
<1>7. \A f \in 1 .. Len(files) : ~ Contains(files[f], h)
  <2> SUFFICES ASSUME NEW f \in 1 .. Len(files), NEW i \in 1 .. Len(files[f]), files[f][i] = h
               PROVE  FALSE
    BY DEF Contains
  <2>1. h \in 1 .. Len(lines)
    BY <1>2
  <2> QED BY <1>1, <2>1
<1>8. \A n : /\ FileOf(n) = {f \in 1 .. Len(files) : Contains(files[f], n)}
             /\ FileOf(n)' = {f \in 1 .. Len(files) : Contains(files'[f], n)}
  BY <1>2, <1>3 DEF FileOf
<1>9. FileOf(h) = {} /\ FileOf(h)' = {src} /\ \A n : n # h => FileOf(n)' = FileOf(n)
  BY <1>2, <1>6, <1>7, <1>8
<1>10. ASSUME NEW f \in 1 .. Len(files'), NEW i \in 1 .. Len(files'[f])
       PROVE  /\ files'[f][i] \in 1 .. Len(lines')
              /\ \A j \in 1 .. Len(files'[f]) : i < j => files'[f][i] < files'[f][j]
  <2>1. CASE f # src
    <3>1. files'[f] = files[f] /\ f \in 1 .. Len(files)
      BY <1>3, <2>1
    <3>2. files[f][i] \in 1 .. Len(lines)
      BY <1>2, <3>1
    <3> QED BY <1>1, <1>2, <3>1, <3>2
  <2>2. CASE f = src
    <3>1. i \in 1 .. k \/ i = k + 1
      BY <1>5, <2>2
    <3>2. \A j \in 1 .. k : files'[src][j] \in 1 .. Len(lines)
      BY <1>2, <1>5 DEF k
    <3>3. \A j \in 1 .. Len(files'[f]) : j \in 1 .. k \/ j = k + 1
      BY <1>5, <2>2
    <3>4. ASSUME NEW j \in 1 .. Len(files'[f]), i < j PROVE files'[f][i] < files'[f][j]
      <4>1. i \in 1 .. k
        BY <1>5, <3>1, <3>3, <3>4
      <4>2. CASE j \in 1 .. k
        <5>1. files[src][i] < files[src][j]
          BY <1>2, <3>4, <4>1, <4>2 DEF k
        <5> QED BY <1>5, <2>2, <4>1, <4>2, <5>1
      <4>3. CASE j = k + 1
        BY <1>1, <1>5, <2>2, <3>2, <4>1, <4>3
      <4> QED BY <3>3, <4>2, <4>3
    <3>5. files'[f][i] \in 1 .. Len(lines')
      BY <1>1, <1>5, <2>2, <3>1, <3>2
    <3> QED BY <3>4, <3>5
  <2> QED BY <2>1, <2>2
<1>11. src' \in 1 .. Len(files')
  BY <1>2, <1>3
<1>12. FileOrder'
  BY <1>3, <1>10, <1>11 DEF FileOrder
<1> QED BY <1>9, <1>12

(* No line is filed; at most an empty file is added.                       *)
LEMMA NoLineFiled ==
  ASSUME FileOrder, NEW l, NEW h, ReadsLine(l, h), src' \in 1 .. Len(files'),
         files' \in {files, Append(files, << >>)}
  PROVE  /\ FileOrder' /\ FileOf(h) = {} /\ \A n : FileOf(n)' = FileOf(n)
<1>1. /\ Len(lines) \in Nat /\ h = Len(lines) + 1 /\ h \in Nat /\ Len(lines') = h
  BY ReadFacts
<1>2. /\ files \in Seq(Seq(Nat)) /\ src \in 1 .. Len(files) /\ Len(files) \in Nat
      /\ DOMAIN files = 1 .. Len(files)
      /\ \A f \in 1 .. Len(files) : \A i \in 1 .. Len(files[f]) :
           files[f][i] \in 1 .. Len(lines)
      /\ \A f \in 1 .. Len(files) : \A i, j \in 1 .. Len(files[f]) :
           i < j => files[f][i] < files[f][j]
  BY DEF FileOrder
<1>3. /\ files' \in Seq(Seq(Nat)) /\ DOMAIN files' = 1 .. Len(files') /\ Len(files') \in Nat
      /\ \A f \in 1 .. Len(files) : f \in 1 .. Len(files') /\ files'[f] = files[f]
      /\ \A f \in 1 .. Len(files') : f \in 1 .. Len(files) \/ files'[f] = << >>
  <2>1. CASE files' = files
    BY <1>2, <2>1
  <2>2. CASE files' = Append(files, << >>)
    <3>1. << >> \in Seq(Nat)
      OBVIOUS
    <3>2. files' \in Seq(Seq(Nat)) /\ Len(files') = Len(files) + 1
      BY <1>2, <2>2, <3>1
    <3>3. \A f \in 1 .. Len(files) : files'[f] = files[f]
      BY <1>2, <2>2
    <3>4. files'[Len(files) + 1] = << >>
      BY <1>2, <2>2
    <3>5. /\ \A f \in 1 .. Len(files) + 1 : f \in 1 .. Len(files) \/ f = Len(files) + 1
          /\ \A f \in 1 .. Len(files) : f \in 1 .. Len(files')
      <4>1. \A n \in Nat : \A f \in 1 .. n + 1 : f \in 1 .. n \/ f = n + 1
        OBVIOUS
      <4>2. \A n \in Nat : \A f \in 1 .. n : f \in 1 .. n + 1
        OBVIOUS
      <4>3. Len(files) \in Nat
        BY <1>2
      <4> QED BY <3>2, <4>1, <4>2, <4>3
    <3>7. DOMAIN files' = 1 .. Len(files') /\ Len(files') \in Nat
      BY <3>2
    <3> QED BY <3>2, <3>3, <3>4, <3>5, <3>7
  <2> QED BY <2>1, <2>2
<1>4. \A f \in 1 .. Len(files) : ~ Contains(files[f], h)
  <2> SUFFICES ASSUME NEW f \in 1 .. Len(files), NEW i \in 1 .. Len(files[f]), files[f][i] = h
               PROVE  FALSE
    BY DEF Contains
  <2>1. h \in 1 .. Len(lines)
    BY <1>2
  <2> QED BY <1>1, <2>1
<1>5. FileOf(h) = {}
  BY <1>2, <1>4 DEF FileOf
<1>6. Len(<< >>) = 0 /\ \A n : ~ Contains(<< >>, n)
  BY DEF Contains
<1>7. ASSUME NEW n PROVE FileOf(n)' = FileOf(n)
  <2>1. FileOf(n)' = {f \in 1 .. Len(files') : Contains(files'[f], n)}
    BY <1>3 DEF FileOf
  <2>2. FileOf(n) = {f \in 1 .. Len(files) : Contains(files[f], n)}
    BY <1>2 DEF FileOf
  <2> QED BY <1>3, <1>6, <2>1, <2>2
<1>8. ASSUME NEW f \in 1 .. Len(files'), NEW i \in 1 .. Len(files'[f])
      PROVE  /\ files'[f][i] \in 1 .. Len(lines')
             /\ \A j \in 1 .. Len(files'[f]) : i < j => files'[f][i] < files'[f][j]
  <2>1. f \in 1 .. Len(files)
    <3> SUFFICES ASSUME files'[f] = << >> PROVE FALSE
      BY <1>3
    <3>1. i \in 1 .. 0
      BY <1>6
    <3> QED BY <3>1
  <2>2. files'[f] = files[f]
    BY <1>3, <2>1
  <2>3. files[f][i] \in 1 .. Len(lines)
    BY <1>2, <2>1, <2>2
  <2>4. files[f][i] \in 1 .. Len(lines')
    BY <1>1, <2>3
  <2>5. \A j \in 1 .. Len(files[f]) : i < j => files[f][i] < files[f][j]
    BY <1>2, <2>1, <2>2
  <2> QED BY <2>2, <2>4, <2>5
<1> QED BY <1>3, <1>5, <1>7, <1>8 DEF FileOrder

-----------------------------------------------------------------------------
(* The invariant of the splitter. *)

Entry == [app : Names, section : Names, orig : [base : Names, dot : BOOLEAN]]
KeyOf(f) == <<Section_table[f].app, Section_table[f].section>>

SplitTypes ==
  /\ lines \in Seq(DiagLine)
  /\ appname \in [base : Names, dot : BOOLEAN]
  /\ in_block \in BOOLEAN /\ in_multi_line_dir \in BOOLEAN
  /\ last_fh \in {"src", "midas"}
  /\ Section_table \in Seq(Entry)

(* The sections seen: each key once, each with its file.                   *)
TableSound ==
  /\ Len(files) = IF Section_table = << >> THEN 1 ELSE Len(Section_table)
  /\ \A i, j \in DOMAIN Section_table : KeyOf(i) = KeyOf(j) => i = j
  /\ Section_table = << >> <=> Sections = {}

(* Every line is in one place; but for blank ones, the source lines are    *)
(* those in a file.                                                        *)
EachPlaced ==
  \A n \in 1 .. Len(lines) :
    \/ InMidas(n) /\ FileOf(n) = {}
    \/ ~ InMidas(n) /\ \E f \in 1 .. Len(files) : FileOf(n) = {f}
TextPlaced ==
  \A n \in 1 .. Len(lines) :
    lines[n].kind # "blank" => (FileOf(n) # {} <=> n \in SourceLines)

(* A source line is in the file of its section; before there is one, in    *)
(* the temporary file.                                                     *)
HomePlaced ==
  \A n \in SourceLines : \A f : FileOf(n) = {f} =>
    IF Section_table = << >> THEN f = 1
    ELSE f \in DOMAIN Section_table /\ KeyOf(f) = Home(n)

(* What is open, and the application and the section in force.             *)
Modes ==
  /\ in_multi_line_dir <=> Open[Len(lines)] = "directive"
  /\ in_block <=> Open[Len(lines)] = "block"
AppInForce ==
  LET a == LatestBefore(Here, "application")
  IN  appname.base = IF a = 0 THEN "default" ELSE lines[a].base
SectionInForce ==
  LET s == LatestBefore(Here, "section")
  IN  IF Section_table = << >> THEN src = 1 /\ s = 0
      ELSE s # 0 /\ src \in DOMAIN Section_table /\ KeyOf(src) = NameAt(s)

Placement == MidasOrder /\ FileOrder /\ EachPlaced /\ TextPlaced
InForce == Modes /\ AppInForce /\ SectionInForce

SplitInv ==
  sstage \in {"split", "done"} =>
    /\ SplitTypes /\ Placement /\ TableSound /\ HomePlaced
    /\ sstage = "split" => InForce

LEMMA ToDirectives ==
  ASSUME Placement, NEW l, NEW h, ReadsLine(l, h),
         NEW notes, Notes(h, notes), ToMidas(notes),
         src' \in 1 .. Len(files'), files' \in {files, Append(files, << >>)},
         ~ Begun(l, "text")
  PROVE  /\ Placement' /\ FileOf(h)' = {} /\ \A n : FileOf(n)' = FileOf(n)
<1>1. /\ Len(lines) \in Nat /\ h = Len(lines) + 1 /\ h \in Nat /\ Len(lines') = h
      /\ lines'[h] = l /\ \A i \in 1 .. Len(lines) : lines'[i] = lines[i]
  BY ReadFacts
<1>2. MidasOrder' /\ \A n : InMidas(n)' <=> InMidas(n) \/ n = h
  BY LineTold DEF Placement
<1>3. FileOrder' /\ FileOf(h) = {} /\ \A n : FileOf(n)' = FileOf(n)
  BY NoLineFiled DEF Placement
<1>4. SourceLines' = SourceLines /\ SourceLines \subseteq 1 .. Len(lines)
  BY SectionsKept
<1>5. /\ \A n \in 1 .. h : n \in 1 .. Len(lines) \/ n = h
      /\ h \notin 1 .. Len(lines)
  BY <1>1
<1>6. \A f \in 1 .. Len(files) : f \in 1 .. Len(files')
  <2>1. CASE files' = files
    BY <2>1
  <2>2. CASE files' = Append(files, << >>)
    <3>1. files \in Seq(Seq(Nat)) /\ Len(files) \in Nat
      BY DEF Placement, FileOrder
    <3>2. Len(files') = Len(files) + 1
      BY <2>2, <3>1
    <3> QED BY <3>1, <3>2
  <2> QED BY <2>1, <2>2
<1>7. EachPlaced'
  <2> SUFFICES ASSUME NEW n \in 1 .. h
               PROVE  \/ InMidas(n)' /\ FileOf(n)' = {}
                      \/ ~ InMidas(n)' /\ \E f \in 1 .. Len(files') : FileOf(n)' = {f}
    BY <1>1 DEF EachPlaced
  <2>1. CASE n = h
    BY <1>2, <1>3, <2>1
  <2>2. CASE n \in 1 .. Len(lines)
    <3>1. \/ InMidas(n) /\ FileOf(n) = {}
          \/ ~ InMidas(n) /\ \E f \in 1 .. Len(files) : FileOf(n) = {f}
      BY <2>2 DEF Placement, EachPlaced
    <3>2. n # h
      BY <1>5, <2>2
    <3> QED BY <1>2, <1>3, <1>6, <3>1, <3>2
  <2> QED BY <1>5, <2>1, <2>2
<1>8. TextPlaced'
  <2> SUFFICES ASSUME NEW n \in 1 .. h, lines'[n].kind # "blank"
               PROVE  FileOf(n)' # {} <=> n \in SourceLines'
    BY <1>1 DEF TextPlaced
  <2>1. CASE n = h
    BY <1>3, <1>4, <1>5, <2>1
  <2>2. CASE n \in 1 .. Len(lines)
    BY <1>1, <1>3, <1>4, <2>2 DEF Placement, TextPlaced
  <2> QED BY <1>5, <2>1, <2>2
<1> QED BY <1>2, <1>3, <1>7, <1>8 DEF Placement

LEMMA ToFile ==
  ASSUME Placement, NEW l, NEW h, ReadsLine(l, h), UNCHANGED <<midas, src>>, ToSource,
         l.kind = "blank" \/ Begun(l, "text")
  PROVE  /\ Placement' /\ FileOf(h)' = {src} /\ \A n : n # h => FileOf(n)' = FileOf(n)
         /\ Len(files') = Len(files)
<1>1. /\ Len(lines) \in Nat /\ h = Len(lines) + 1 /\ h \in Nat /\ Len(lines') = h
      /\ lines'[h] = l /\ \A i \in 1 .. Len(lines) : lines'[i] = lines[i]
  BY ReadFacts
<1>2. /\ FileOrder' /\ FileOf(h) = {} /\ FileOf(h)' = {src}
      /\ \A n : n # h => FileOf(n)' = FileOf(n)
  BY LineFiled DEF Placement
<1>3. /\ SourceLines' = SourceLines \cup (IF Begun(l, "text") THEN {h} ELSE {})
      /\ SourceLines \subseteq 1 .. Len(lines)
  BY SectionsKept
<1>4. /\ \A n \in 1 .. h : n \in 1 .. Len(lines) \/ n = h
      /\ h \notin 1 .. Len(lines)
  BY <1>1
<1>5. Len(files') = Len(files) /\ src \in 1 .. Len(files)
  <2>1. files' = [files EXCEPT ![src] = Append(@, Here)]
    BY DEF ToSource
  <2>2. files \in Seq(Seq(Nat)) /\ src \in 1 .. Len(files)
    BY DEF Placement, FileOrder
  <2> QED BY <2>1, <2>2
<1>6. Told' = Told /\ \A n : InMidas(n)' <=> InMidas(n)
  BY DEF Told, InMidas
<1>7. MidasOrder'
  <2>1. \A j \in Told : midas[j].n \in 1 .. Len(lines')
    <3>1. \A j \in Told : midas[j].n \in 1 .. Len(lines)
      BY DEF Placement, MidasOrder
    <3>2. \A n \in 1 .. Len(lines) : n \in 1 .. Len(lines')
      BY <1>1
    <3> QED BY <3>1, <3>2
  <2> QED BY <1>6, <2>1 DEF Placement, MidasOrder
<1>8. ~ InMidas(h)
  BY <1>4 DEF Placement, MidasOrder, InMidas
<1>9. EachPlaced'
  <2> SUFFICES ASSUME NEW n \in 1 .. h
               PROVE  \/ InMidas(n)' /\ FileOf(n)' = {}
                      \/ ~ InMidas(n)' /\ \E f \in 1 .. Len(files') : FileOf(n)' = {f}
    BY <1>1 DEF EachPlaced
  <2>1. CASE n = h
    BY <1>2, <1>5, <1>6, <1>8, <2>1
  <2>2. CASE n \in 1 .. Len(lines)
    <3>1. \/ InMidas(n) /\ FileOf(n) = {}
          \/ ~ InMidas(n) /\ \E f \in 1 .. Len(files) : FileOf(n) = {f}
      BY <2>2 DEF Placement, EachPlaced
    <3>2. n # h
      BY <1>4, <2>2
    <3> QED BY <1>2, <1>5, <1>6, <3>1, <3>2
  <2> QED BY <1>4, <2>1, <2>2
<1>10. TextPlaced'
  <2> SUFFICES ASSUME NEW n \in 1 .. h, lines'[n].kind # "blank"
               PROVE  FileOf(n)' # {} <=> n \in SourceLines'
    BY <1>1 DEF TextPlaced
  <2>1. CASE n = h
    <3>1. n \in SourceLines'
      BY <1>1, <1>3, <2>1
    <3> QED BY <1>2, <2>1, <3>1
  <2>2. CASE n \in 1 .. Len(lines)
    <3>1. n # h
      BY <1>4, <2>2
    <3>2. n \in SourceLines' <=> n \in SourceLines
      BY <1>3, <3>1
    <3> QED BY <1>1, <1>2, <2>2, <3>1, <3>2 DEF Placement, TextPlaced
  <2> QED BY <1>4, <2>1, <2>2
<1> QED BY <1>2, <1>5, <1>7, <1>9, <1>10 DEF Placement

(* The homes of the lines filed so far, when the sections stay.            *)
LEMMA HomesKept ==
  ASSUME HomePlaced, TableSound, NEW l, NEW h, ReadsLine(l, h),
         UNCHANGED Section_table, \A n : n # h => FileOf(n)' = FileOf(n),
         FileOf(h)' = {} \/ (FileOf(h)' = {src} /\ SectionInForce /\ ~ Begun(l, "section")),
         ~ Begun(l, "section") \/ Sections # {}
  PROVE  HomePlaced'
<1>1. /\ Len(lines) \in Nat /\ h = Len(lines) + 1 /\ h \in Nat /\ Here = h
  BY ReadFacts DEF Here
<1>2. /\ SourceLines' = SourceLines \cup (IF Begun(l, "text") THEN {h} ELSE {})
      /\ SourceLines \subseteq 1 .. Len(lines)
  BY SectionsKept
<1>3. ASSUME NEW n \in SourceLines', NEW f, FileOf(n)' = {f}, n # h
      PROVE  IF Section_table = << >> THEN f = 1
             ELSE f \in DOMAIN Section_table /\ KeyOf(f) = Home(n)'
  <2>1. n \in SourceLines
    BY <1>2, <1>3
  <2>2. n \in 1 .. h - 1
    BY <1>1, <1>2, <2>1
  <2>3. Home(n)' = Home(n)
    BY <2>2, HomeKept
  <2>4. FileOf(n) = {f}
    BY <1>3
  <2> QED BY <2>1, <2>3, <2>4 DEF HomePlaced
<1>4. ASSUME NEW f, FileOf(h)' = {f}
      PROVE  IF Section_table = << >> THEN f = 1
             ELSE f \in DOMAIN Section_table /\ KeyOf(f) = Home(h)'
  <2>1. f = src /\ SectionInForce
    BY <1>4
  <2>2. PICK s : s = LatestBefore(h, "section")
    OBVIOUS
  <2>3. IF Section_table = << >> THEN src = 1 /\ s = 0
        ELSE s # 0 /\ src \in DOMAIN Section_table /\ KeyOf(src) = NameAt(s)
    BY <1>1, <2>1, <2>2 DEF SectionInForce
  <2>4. LatestBefore(h, "section")' = s
    <3>1. h \in 1 .. h
      BY <1>1
    <3> QED BY <2>2, <3>1, LatestKept
  <2>5. s # 0 => s \in 1 .. h - 1
    BY <1>1, <2>2, LatestIs
  <2>6. s # 0 => NameAt(s)' = NameAt(s)
    BY <2>5, NamesKept
  <2>7. s # 0 => Home(h)' = NameAt(s)'
    BY <2>4 DEF Home
  <2> QED BY <2>1, <2>3, <2>6, <2>7
<1>5. \A f : KeyOf(f)' = KeyOf(f)
  BY DEF KeyOf
<1> QED BY <1>3, <1>4, <1>5 DEF HomePlaced

LEMMA SectionStays ==
  ASSUME SectionInForce, NEW l, NEW h, ReadsLine(l, h), ~ Begun(l, "section"),
         UNCHANGED <<Section_table, src>>
  PROVE  SectionInForce'
<1>1. /\ Len(lines) \in Nat /\ h = Len(lines) + 1 /\ h \in Nat /\ Here = h /\ Here' = h + 1
  BY ReadFacts DEF Here
<1>2. PICK s : s = LatestBefore(h, "section")
  OBVIOUS
<1>3. IF Section_table = << >> THEN src = 1 /\ s = 0
      ELSE s # 0 /\ src \in DOMAIN Section_table /\ KeyOf(src) = NameAt(s)
  BY <1>1, <1>2 DEF SectionInForce
<1>4. LatestBefore(h + 1, "section")' = s
  BY <1>2, LatestKept
<1>5. s # 0 => NameAt(s)' = NameAt(s)
  <2>1. s # 0 => s \in 1 .. h - 1
    BY <1>1, <1>2, LatestIs
  <2> QED BY <2>1, NamesKept
<1>6. LatestBefore(Here, "section")' = s
  BY <1>1, <1>4
<1>7. KeyOf(src)' = KeyOf(src)
  BY DEF KeyOf
<1> QED BY <1>3, <1>5, <1>6, <1>7 DEF SectionInForce

LEMMA ApplicationStays ==
  ASSUME AppInForce, NEW l, NEW h, ReadsLine(l, h), ~ Begun(l, "application"),
         UNCHANGED appname
  PROVE  AppInForce'
<1>1. /\ Len(lines) \in Nat /\ h = Len(lines) + 1 /\ h \in Nat /\ Here = h /\ Here' = h + 1
      /\ \A i \in 1 .. Len(lines) : lines'[i] = lines[i]
  BY ReadFacts DEF Here
<1>2. PICK a : a = LatestBefore(h, "application")
  OBVIOUS
<1>3. appname.base = IF a = 0 THEN "default" ELSE lines[a].base
  BY <1>1, <1>2 DEF AppInForce
<1>4. LatestBefore(Here, "application")' = a
  BY <1>1, <1>2, LatestKept
<1>5. a # 0 => lines'[a] = lines[a]
  <2>1. a # 0 => a \in 1 .. h - 1
    BY <1>1, <1>2, LatestIs
  <2> QED BY <1>1, <2>1
<1> QED BY <1>3, <1>4, <1>5 DEF AppInForce

-----------------------------------------------------------------------------
(* The lines, one kind after the other.                                    *)

Sound == SplitTypes /\ Placement /\ TableSound /\ HomePlaced /\ InForce

LEMMA ModesAfter ==
  ASSUME Modes, NEW l, NEW h, ReadsLine(l, h)
  PROVE  LET o == Open'[Len(lines')]
         IN  /\ \A kind : Begun(l, kind) <=> l.kind = kind /\ ~ in_multi_line_dir /\ ~ in_block
             /\ l.kind \in DiagKinds
             /\ l.kind = "blank" =>
                  (o = "directive" <=> in_multi_line_dir) /\ (o = "block" <=> in_block)
             /\ l.kind # "blank" /\ in_multi_line_dir =>
                  (o = "directive" <=> l.cont) /\ o # "block" /\ ~ in_block
             /\ l.kind \in {"attr", "goldfinger"} /\ ~ in_multi_line_dir =>
                  o # "directive" /\ (o = "block" <=> in_block \/ ~ l.close)
             /\ l.kind \in {"section", "midas", "application", "text"} /\ in_block =>
                  o # "directive" /\ (o = "block" <=> ~ l.close)
             /\ l.kind \in {"section", "midas"} /\ ~ in_multi_line_dir /\ ~ in_block =>
                  (o = "directive" <=> l.cont) /\ o # "block"
             /\ l.kind \in {"application", "text"} /\ ~ in_multi_line_dir /\ ~ in_block =>
                  o # "directive" /\ o # "block"
<1> DEFINE b == Open[Len(lines)]
           o == Open'[Len(lines')]
<1>1. o = After(b, l) /\ b \in States /\ l \in DiagLine
  BY ReadFacts
<1>2. (in_multi_line_dir <=> b = "directive") /\ (in_block <=> b = "block")
  BY DEF Modes
<1>3. b \in {"no", "directive", "block"}
  BY <1>1 DEF States
<1>4. \A kind : Begun(l, kind) <=> l.kind = kind /\ b = "no"
  BY DEF Begun
<1>5. l.kind \in DiagKinds
  BY <1>1 DEF DiagLine
<1> HIDE DEF o, b
<1>6. /\ l.kind = "blank" => o = b
      /\ l.kind # "blank" /\ b = "directive" =>
           o = IF l.cont THEN "directive" ELSE "no"
      /\ l.kind \in {"attr", "goldfinger"} /\ b # "directive" =>
           o = IF b = "block" \/ ~l.close THEN "block" ELSE "no"
      /\ l.kind \in {"section", "midas", "application", "text"} /\ b = "block" =>
           o = IF l.close THEN "no" ELSE "block"
      /\ l.kind \in {"section", "midas"} /\ b = "no" =>
           o = IF l.cont THEN "directive" ELSE "no"
      /\ l.kind \in {"application", "text"} /\ b = "no" => o = "no"
  BY <1>1, AfterType
<1>7. \A kind : Begun(l, kind) <=> l.kind = kind /\ ~ in_multi_line_dir /\ ~ in_block
  BY <1>2, <1>3, <1>4
<1>8. CASE b = "no"
  BY <1>2, <1>5, <1>6, <1>7, <1>8 DEF o
<1>9. CASE b = "directive"
  BY <1>2, <1>5, <1>6, <1>7, <1>9 DEF o
<1>10. CASE b = "block"
  BY <1>2, <1>5, <1>6, <1>7, <1>10 DEF o
<1> QED BY <1>3, <1>8, <1>9, <1>10

LEMMA NotesOf ==
  ASSUME NEW h, h = Here, last_fh \in {"src", "midas"}
  PROVE  /\ Notes(h, <<FullText(Here)>>)
         /\ Notes(h, LineNote \o <<FullText(Here)>>)
         /\ Notes(h, LineNote \o <<CutText(Here)>>)
<1> DEFINE ref == [what |-> "#line", n |-> h]
<1>1. LineNote = << >> \/ LineNote = <<ref>>
  BY DEF LineNote
<1>2. ASSUME NEW x PROVE << >> \o <<x>> = <<x>> /\ <<ref>> \o <<x>> = <<ref, x>>
  <2> DEFINE S == {ref, x}
             both == <<ref>> \o <<x>>
             pair == <<ref, x>>
  <2>1. <<ref>> \in Seq(S) /\ <<x>> \in Seq(S) /\ pair \in Seq(S) /\ Len(pair) = 2
    OBVIOUS
  <2>2. both \in Seq(S) /\ Len(both) = 2
    BY <2>1
  <2>3. both[1] = pair[1] /\ both[2] = pair[2]
    BY <2>1
  <2>4. \A i \in 1 .. 2 : both[i] = pair[i]
    <3> HIDE DEF both, pair
    <3> QED BY <2>3
  <2>5. both = pair
    <3> HIDE DEF both, pair, S
    <3> QED BY <2>1, <2>2, <2>4, SeqEqual
  <2> QED BY <2>5
<1>3. FullText(Here) = [what |-> "text", n |-> h] /\ CutText(Here) = [what |-> "cut", n |-> h]
  BY DEF FullText, CutText
<1>4. ASSUME NEW what \in {"text", "cut"}, NEW x, x = [what |-> what, n |-> h]
      PROVE  Notes(h, <<x>>) /\ Notes(h, LineNote \o <<x>>)
  <2>1. Notes(h, <<x>>) /\ Notes(h, <<ref, x>>)
    BY <1>4 DEF Notes
  <2> HIDE DEF ref
  <2> QED BY <1>1, <1>2, <2>1
<1> QED BY <1>3, <1>4

(* A line that is no section, application or source line.                  *)
LEMMA PlainDirective ==
  ASSUME Sound, NEW l, NEW h, ReadsLine(l, h), NEW notes, Notes(h, notes), ToMidas(notes),
         ~ Begun(l, "text"), ~ Begun(l, "section"), ~ Begun(l, "application"),
         UNCHANGED <<tablevars, files>>
  PROVE  Placement' /\ TableSound' /\ HomePlaced' /\ AppInForce' /\ SectionInForce'
<1>1. UNCHANGED <<appname, Section_table, src, files>>
  BY DEF tablevars
<1>2. src' \in 1 .. Len(files') /\ files' \in {files, Append(files, << >>)}
  BY <1>1 DEF Sound, Placement, FileOrder
<1>3. Placement' /\ FileOf(h)' = {} /\ \A n : FileOf(n)' = FileOf(n)
  BY <1>2, ToDirectives DEF Sound
<1>4. HomePlaced'
  BY <1>1, <1>3, HomesKept DEF Sound
<1>5. AppInForce' /\ SectionInForce'
  BY <1>1, ApplicationStays, SectionStays DEF Sound, InForce
<1>6. Sections' = Sections
  BY SectionsKept
<1>7. TableSound'
  BY <1>1, <1>6 DEF Sound, TableSound, KeyOf
<1> QED BY <1>3, <1>4, <1>5, <1>7

LEMMA PlainSource ==
  ASSUME Sound, NEW l, NEW h, ReadsLine(l, h), ToSource, UNCHANGED <<midas, tablevars>>,
         l.kind = "blank" \/ Begun(l, "text"),
         ~ Begun(l, "section"), ~ Begun(l, "application")
  PROVE  Placement' /\ TableSound' /\ HomePlaced' /\ AppInForce' /\ SectionInForce'
<1>1. UNCHANGED <<appname, Section_table, src, midas>>
  BY DEF tablevars
<1>2. /\ Placement' /\ FileOf(h)' = {src} /\ \A n : n # h => FileOf(n)' = FileOf(n)
      /\ Len(files') = Len(files)
  BY <1>1, ToFile DEF Sound
<1>3. HomePlaced'
  BY <1>1, <1>2, HomesKept DEF Sound, InForce
<1>4. AppInForce' /\ SectionInForce'
  BY <1>1, ApplicationStays, SectionStays DEF Sound, InForce
<1>5. Sections' = Sections
  BY SectionsKept
<1>6. TableSound'
  BY <1>1, <1>2, <1>5 DEF Sound, TableSound, KeyOf
<1> QED BY <1>2, <1>3, <1>4, <1>6

LEMMA PlainLines ==
  ASSUME Sound, NEW l \in DiagLine,
         BlankLine(l) \/ ContinuedLine(l) \/ BlockLine(l) \/ LineOfBlock(l)
           \/ MidasLine(l) \/ SourceLine(l)
  PROVE  Sound'
<1>1. PICK h : h = Here
  OBVIOUS
<1>2. lines' = Append(lines, l)
  BY DEF BlankLine, ContinuedLine, BlockLine, LineOfBlock, MidasLine, SourceLine, Begins, Read
<1>3. lines \in Seq(DiagLine) /\ SplitTypes /\ Modes /\ last_fh \in {"src", "midas"}
  BY DEF Sound, SplitTypes, InForce
<1>4. ReadsLine(l, h) /\ lines' \in Seq(DiagLine)
  BY <1>1, <1>2, <1>3 DEF ReadsLine
<1> DEFINE o == Open'[Len(lines')]
<1>5. /\ \A kind : Begun(l, kind) <=> l.kind = kind /\ ~ in_multi_line_dir /\ ~ in_block
      /\ l.kind \in DiagKinds
      /\ l.kind = "blank" =>
           (o = "directive" <=> in_multi_line_dir) /\ (o = "block" <=> in_block)
      /\ l.kind # "blank" /\ in_multi_line_dir =>
           (o = "directive" <=> l.cont) /\ o # "block" /\ ~ in_block
      /\ l.kind \in {"attr", "goldfinger"} /\ ~ in_multi_line_dir =>
           o # "directive" /\ (o = "block" <=> in_block \/ ~ l.close)
      /\ l.kind \in {"section", "midas", "application", "text"} /\ in_block =>
           o # "directive" /\ (o = "block" <=> ~ l.close)
      /\ l.kind \in {"section", "midas"} /\ ~ in_multi_line_dir /\ ~ in_block =>
           (o = "directive" <=> l.cont) /\ o # "block"
      /\ l.kind \in {"application", "text"} /\ ~ in_multi_line_dir /\ ~ in_block =>
           o # "directive" /\ o # "block"
  BY <1>3, <1>4, ModesAfter
<1>6. l.cont \in BOOLEAN /\ l.close \in BOOLEAN
  BY DEF DiagLine
<1>7. /\ Notes(h, <<FullText(Here)>>) /\ Notes(h, LineNote \o <<FullText(Here)>>)
  BY <1>1, <1>3, NotesOf
<1> DEFINE Rest == Placement' /\ TableSound' /\ HomePlaced' /\ AppInForce' /\ SectionInForce'
           M == (in_multi_line_dir' <=> o = "directive") /\ (in_block' <=> o = "block")
<1> HIDE DEF o
<1>8. SUFFICES /\ Rest /\ M /\ UNCHANGED tablevars
               /\ in_multi_line_dir' \in BOOLEAN /\ in_block' \in BOOLEAN
               /\ last_fh' \in {"src", "midas"}
  BY <1>3, <1>4 DEF Sound, InForce, Modes, SplitTypes, tablevars, o
<1>9. CASE BlankLine(l) /\ last_fh = "src"
  <2>1. /\ ToSource /\ l.kind = "blank"
        /\ UNCHANGED <<midas, in_block, in_multi_line_dir, last_fh, tablevars>>
    BY <1>9 DEF BlankLine, openvars
  <2>2. ~ Begun(l, "section") /\ ~ Begun(l, "application")
    BY <1>5, <2>1
  <2>3. Rest
    BY <1>4, <2>1, <2>2, PlainSource
  <2>4. M
    BY <1>5, <2>1
  <2> QED BY <1>3, <2>1, <2>3, <2>4 DEF SplitTypes
<1>10. CASE BlankLine(l) /\ last_fh # "src"
  <2>1. /\ ToMidas(<<FullText(Here)>>) /\ l.kind = "blank"
        /\ UNCHANGED <<files, in_block, in_multi_line_dir, last_fh, tablevars>>
    BY <1>10 DEF BlankLine, openvars
  <2>2. ~ Begun(l, "section") /\ ~ Begun(l, "application") /\ ~ Begun(l, "text")
    BY <1>5, <2>1
  <2>3. Rest
    BY <1>4, <1>7, <2>1, <2>2, PlainDirective
  <2>4. M
    BY <1>5, <2>1
  <2> QED BY <1>3, <2>1, <2>3, <2>4 DEF SplitTypes
<1>11. CASE ContinuedLine(l)
  <2>1. /\ ToMidas(<<FullText(Here)>>) /\ l.kind # "blank" /\ in_multi_line_dir
        /\ in_multi_line_dir' = l.cont
        /\ UNCHANGED <<files, in_block, last_fh, tablevars>>
    BY <1>11 DEF ContinuedLine
  <2>2. ~ Begun(l, "section") /\ ~ Begun(l, "application") /\ ~ Begun(l, "text")
    BY <1>5, <2>1
  <2>3. Rest
    BY <1>4, <1>7, <2>1, <2>2, PlainDirective
  <2>4. M
    BY <1>5, <1>6, <2>1
  <2> QED BY <1>3, <1>6, <2>1, <2>3, <2>4 DEF SplitTypes
<1>12. CASE BlockLine(l)
  <2>1. /\ ToMidas(LineNote \o <<FullText(Here)>>)
        /\ l.kind \in {"attr", "goldfinger"} /\ ~ in_multi_line_dir
        /\ in_block' = (in_block \/ ~l.close) /\ last_fh' = "midas"
        /\ UNCHANGED <<files, in_multi_line_dir, tablevars>>
    BY <1>12 DEF BlockLine, Begins
  <2>2. ~ Begun(l, "section") /\ ~ Begun(l, "application") /\ ~ Begun(l, "text")
    BY <1>5, <2>1
  <2>3. Rest
    BY <1>4, <1>7, <2>1, <2>2, PlainDirective
  <2>4. M
    BY <1>5, <1>6, <2>1
  <2> QED BY <1>3, <2>1, <2>3, <2>4 DEF SplitTypes
<1>13. CASE LineOfBlock(l)
  <2>1. /\ ToMidas(<<FullText(Here)>>)
        /\ l.kind \in {"section", "midas", "application", "text"} /\ in_block
        /\ ~ in_multi_line_dir /\ in_block' = ~ l.close
        /\ UNCHANGED <<files, in_multi_line_dir, last_fh, tablevars>>
    BY <1>13 DEF LineOfBlock, Begins
  <2>2. ~ Begun(l, "section") /\ ~ Begun(l, "application") /\ ~ Begun(l, "text")
    BY <1>5, <2>1
  <2>3. Rest
    BY <1>4, <1>7, <2>1, <2>2, PlainDirective
  <2>4. M
    BY <1>5, <1>6, <2>1
  <2> QED BY <1>3, <2>1, <2>3, <2>4 DEF SplitTypes
<1>14. CASE MidasLine(l)
  <2>1. /\ ToMidas(LineNote \o <<FullText(Here)>>)
        /\ l.kind = "midas" /\ ~ in_multi_line_dir /\ ~ in_block
        /\ in_multi_line_dir' = l.cont /\ last_fh' = "midas"
        /\ UNCHANGED <<files, in_block, tablevars>>
    BY <1>14 DEF MidasLine, Begins
  <2>2. ~ Begun(l, "section") /\ ~ Begun(l, "application") /\ ~ Begun(l, "text")
    BY <1>5, <2>1
  <2>3. Rest
    BY <1>4, <1>7, <2>1, <2>2, PlainDirective
  <2>4. M
    BY <1>5, <1>6, <2>1
  <2> QED BY <1>3, <1>6, <2>1, <2>3, <2>4 DEF SplitTypes
<1>15. CASE SourceLine(l)
  <2>1. /\ ToSource /\ l.kind = "text" /\ ~ in_multi_line_dir /\ ~ in_block
        /\ last_fh' = "src" /\ UNCHANGED <<midas, in_block, in_multi_line_dir, tablevars>>
    BY <1>15 DEF SourceLine, Begins
  <2>2. ~ Begun(l, "section") /\ ~ Begun(l, "application") /\ Begun(l, "text")
    BY <1>5, <2>1
  <2>3. Rest
    BY <1>4, <2>1, <2>2, PlainSource
  <2>4. M
    BY <1>5, <2>1
  <2> QED BY <1>3, <2>1, <2>3, <2>4 DEF SplitTypes
<1> QED BY <1>9, <1>10, <1>11, <1>12, <1>13, <1>14, <1>15

(* A section or an application has its name on its line.                   *)
Named(l) == l.base # ""

LEMMA ApplicationLines ==
  ASSUME Sound, NEW l \in DiagLine, ApplicationLine(l), Named(l)
  PROVE  Sound'
<1>1. PICK h : h = Here
  OBVIOUS
<1>2. /\ lines' = Append(lines, l) /\ l.kind = "application"
      /\ ~ in_multi_line_dir /\ ~ in_block
      /\ ToMidas(LineNote \o <<CutText(Here)>>)
      /\ appname' = AName(l.base, l.dot) /\ last_fh' = "midas"
      /\ UNCHANGED <<in_block, in_multi_line_dir, Section_table, src, files>>
  BY DEF ApplicationLine, Begins, Read, Named
<1>3. /\ lines \in Seq(DiagLine) /\ SplitTypes /\ Modes /\ last_fh \in {"src", "midas"}
      /\ Placement /\ TableSound /\ HomePlaced /\ SectionInForce
  BY DEF Sound, SplitTypes, InForce
<1>4. ReadsLine(l, h)
  BY <1>1, <1>2, <1>3 DEF ReadsLine
<1>5. /\ lines' \in Seq(DiagLine) /\ Len(lines) \in Nat /\ h = Len(lines) + 1
      /\ Len(lines') = h /\ lines'[h] = l /\ h # 0
  <2>1. Len(lines) \in Nat /\ h = Len(lines) + 1
    BY <1>4, ReadFacts
  <2>2. lines' \in Seq(DiagLine) /\ Len(lines') = h /\ lines'[h] = l /\ h \in Nat
    BY <1>4, ReadFacts
  <2>3. h # 0
    BY <2>1
  <2> QED BY <2>1, <2>2, <2>3
<1>6. /\ Begun(l, "application") /\ ~ Begun(l, "section") /\ ~ Begun(l, "text")
      /\ Open'[Len(lines')] # "directive" /\ Open'[Len(lines')] # "block"
  <2> DEFINE o == Open'[Len(lines')]
  <2>1. /\ \A kind : Begun(l, kind) <=> l.kind = kind /\ ~ in_multi_line_dir /\ ~ in_block
        /\ l.kind \in {"application", "text"} /\ ~ in_multi_line_dir /\ ~ in_block =>
             o # "directive" /\ o # "block"
    BY <1>3, <1>4, ModesAfter
  <2> HIDE DEF o
  <2>2. Begun(l, "application") /\ ~ Begun(l, "section") /\ ~ Begun(l, "text")
    BY <1>2, <2>1
  <2>3. o # "directive" /\ o # "block"
    BY <1>2, <2>1
  <2> QED BY <2>2, <2>3 DEF o
<1>7. Modes'
  BY <1>2, <1>6 DEF Modes
<1>8. appname' \in [base : Names, dot : BOOLEAN] /\ appname'.base = l.base
  BY <1>2 DEF AName, DiagLine, Names
<1>9. SplitTypes'
  BY <1>2, <1>3, <1>5, <1>8 DEF SplitTypes
<1>10. Placement' /\ FileOf(h)' = {} /\ \A n : FileOf(n)' = FileOf(n)
  <2>1. Notes(h, LineNote \o <<CutText(Here)>>)
    BY <1>1, <1>3, NotesOf
  <2>2. src' \in 1 .. Len(files') /\ files' \in {files, Append(files, << >>)}
    BY <1>2, <1>3 DEF Placement, FileOrder
  <2> QED BY <1>2, <1>3, <1>4, <1>6, <2>1, <2>2, ToDirectives
<1>11. HomePlaced'
  BY <1>2, <1>3, <1>4, <1>6, <1>10, HomesKept
<1>12. SectionInForce'
  BY <1>2, <1>3, <1>4, <1>6, SectionStays
<1>13. TableSound'
  <2>1. Sections' = Sections
    BY <1>4, <1>6, SectionsKept
  <2> QED BY <1>2, <1>3, <2>1 DEF TableSound, KeyOf
<1>14. AppInForce'
  <2>1. LatestBefore(h + 1, "application")' = h /\ Here' = h + 1
    BY <1>4, <1>5, <1>6, LatestKept DEF Here
  <2> QED BY <1>5, <1>8, <2>1 DEF AppInForce
<1> QED BY <1>7, <1>9, <1>10, <1>11, <1>12, <1>13, <1>14 DEF Sound, InForce

(* A section of the table, old or new, is in force from its line on.       *)
LEMMA SectionLines ==
  ASSUME Sound, NEW l \in DiagLine, SectionLine(l), Named(l), sstage' = sstage,
         sstage = "split"
  PROVE  Sound'
<1> DEFINE app == appname
           s == AName(l.base, l.dot)
           e == [app |-> appname.base, section |-> l.base, orig |-> s]
           key == <<appname.base, l.base>>
<1>1. PICK h : h = Here
  OBVIOUS
<1>2. /\ lines' = Append(lines, l) /\ l.kind = "section"
      /\ ~ in_multi_line_dir /\ ~ in_block
      /\ ToMidas(LineNote \o <<FullText(Here)>>)
      /\ section_lookup(appname, s)
      /\ in_multi_line_dir' = l.cont /\ last_fh' = "midas"
      /\ UNCHANGED <<appname, in_block>>
  BY DEF SectionLine, Begins, Read, Named
<1>3. /\ lines \in Seq(DiagLine) /\ SplitTypes /\ Modes /\ last_fh \in {"src", "midas"}
      /\ Placement /\ TableSound /\ HomePlaced /\ SectionInForce /\ AppInForce
      /\ appname \in [base : Names, dot : BOOLEAN] /\ Section_table \in Seq(Entry)
  BY DEF Sound, SplitTypes, InForce
<1>4. ReadsLine(l, h)
  BY <1>1, <1>2, <1>3 DEF ReadsLine
<1>5. /\ lines' \in Seq(DiagLine) /\ Len(lines) \in Nat /\ h = Len(lines) + 1 /\ h \in Nat
      /\ Len(lines') = h /\ lines'[h] = l /\ h # 0
  <2>1. Len(lines) \in Nat /\ h = Len(lines) + 1
    BY <1>4, ReadFacts
  <2>2. lines' \in Seq(DiagLine) /\ Len(lines') = h /\ lines'[h] = l /\ h \in Nat
    BY <1>4, ReadFacts
  <2>3. h # 0
    BY <2>1
  <2> QED BY <2>1, <2>2, <2>3
<1>6. /\ ~ Begun(l, "application") /\ Begun(l, "section") /\ ~ Begun(l, "text")
      /\ Open'[Len(lines')] = "directive" <=> l.cont
      /\ Open'[Len(lines')] # "block"
  <2> DEFINE o == Open'[Len(lines')]
  <2>1. /\ \A kind : Begun(l, kind) <=> l.kind = kind /\ ~ in_multi_line_dir /\ ~ in_block
        /\ l.kind \in {"section", "midas"} /\ ~ in_multi_line_dir /\ ~ in_block =>
             (o = "directive" <=> l.cont) /\ o # "block"
    BY <1>3, <1>4, ModesAfter
  <2> HIDE DEF o
  <2>2. ~ Begun(l, "application") /\ Begun(l, "section") /\ ~ Begun(l, "text")
    BY <1>2, <2>1
  <2>3. (o = "directive" <=> l.cont) /\ o # "block"
    BY <1>2, <2>1
  <2> QED BY <2>2, <2>3 DEF o
<1>7. Modes' /\ AppInForce'
  <2>1. Modes'
    BY <1>2, <1>6 DEF Modes
  <2>2. AppInForce'
    BY <1>2, <1>3, <1>4, <1>6, ApplicationStays
  <2> QED BY <2>1, <2>2
<1>8. Notes(h, LineNote \o <<FullText(Here)>>)
  BY <1>1, <1>3, NotesOf
<1>9. /\ s.base = l.base /\ e \in Entry /\ e.app = appname.base /\ e.section = l.base
      /\ l.cont \in BOOLEAN
  BY <1>3 DEF AName, DiagLine, Entry, Names
<1>10. /\ NameAt(h)' = key /\ LatestBefore(Here, "section")' = h
       /\ Sections' = Sections \cup {h} /\ SourceLines' = SourceLines
       /\ SourceLines \subseteq 1 .. h - 1
  <2>1. NameAt(h)' = key
    BY <1>1, <1>3, <1>4, NamesKept DEF AppInForce
  <2>2. LatestBefore(h + 1, "section")' = h /\ Here' = h + 1
    BY <1>4, <1>5, <1>6, LatestKept DEF Here
  <2>3. h - 1 = Len(lines)
    BY <1>5
  <2> QED BY <1>4, <1>6, <2>1, <2>2, <2>3, SectionsKept
<1>11. \A i \in DOMAIN Section_table : i \in Lookup(appname, s) <=> KeyOf(i) = key
  BY <1>9 DEF Lookup, SameSection, KeyOf
<1> HIDE DEF e, key, s, app
<1>12. CASE Lookup(appname, s) # {}
  <2>1. src' \in Lookup(appname, s) /\ UNCHANGED <<Section_table, files>>
    BY <1>2, <1>12 DEF section_lookup
  <2>2. src' \in DOMAIN Section_table /\ KeyOf(src') = key
    BY <1>11, <2>1 DEF Lookup
  <2>3. Section_table # << >> /\ Len(Section_table) \in Nat /\ DOMAIN Section_table = 1 .. Len(Section_table)
    <3>1. Section_table \in Seq(Entry)
      BY <1>3
    <3>2. DOMAIN << >> = {}
      OBVIOUS
    <3> QED BY <2>2, <3>1, <3>2
  <2>4. src' \in 1 .. Len(files') /\ files' \in {files, Append(files, << >>)}
    BY <1>3, <2>1, <2>2, <2>3 DEF TableSound
  <2>5. Placement' /\ FileOf(h)' = {} /\ \A n : FileOf(n)' = FileOf(n)
    BY <1>2, <1>3, <1>4, <1>6, <1>8, <2>4, ToDirectives
  <2>6. Sections # {}
    BY <1>3, <2>3 DEF TableSound
  <2>7. HomePlaced'
    BY <1>3, <1>4, <2>1, <2>5, <2>6, HomesKept
  <2>8. TableSound'
    BY <1>3, <1>10, <2>1, <2>3 DEF TableSound, KeyOf
  <2>9. SectionInForce'
    <3>1. KeyOf(src)' = key
      BY <2>1, <2>2 DEF KeyOf
    <3> QED BY <1>5, <1>10, <2>1, <2>2, <2>3, <3>1 DEF SectionInForce
  <2>10. SplitTypes'
    BY <1>2, <1>3, <1>5, <1>9, <2>1 DEF SplitTypes
  <2> QED BY <1>7, <2>5, <2>7, <2>8, <2>9, <2>10 DEF Sound, InForce
<1>13. CASE Lookup(appname, s) = {}
  <2>0. PICK k : k = Len(Section_table)
    OBVIOUS
  <2>1. k \in Nat /\ DOMAIN Section_table = 1 .. k /\ (Section_table = << >> <=> k = 0)
    <3>1. Section_table \in Seq(Entry)
      BY <1>3
    <3>2. Section_table = << >> <=> k = 0
      BY <2>0, <3>1, EmptySeq
    <3> QED BY <2>0, <3>1, <3>2
  <2>2. /\ files' = IF Section_table = << >> THEN files ELSE Append(files, << >>)
        /\ Section_table' = Append(Section_table, e)
        /\ src' = k + 1
    <3>1. files' = IF Section_table = << >> THEN files ELSE Append(files, << >>)
      BY <1>2, <1>13 DEF section_lookup
    <3>2. Len(Section_table) # MAX_SECTIONS
      BY <1>2, <1>13 DEF section_lookup
    <3>3. Section_table' = Append(Section_table, [app |-> appname.base, section |-> s.base, orig |-> s])
      BY <1>2, <1>13, <3>2 DEF section_lookup
    <3>4. src' = Len(Section_table) + 1
      BY <1>2, <1>13, <3>2 DEF section_lookup
    <3> QED BY <1>9, <2>0, <3>1, <3>3, <3>4 DEF e
  <2>3. /\ Section_table' \in Seq(Entry) /\ Len(Section_table') = k + 1
        /\ DOMAIN Section_table' = 1 .. k + 1 /\ Section_table' # << >>
        /\ \A i \in 1 .. k : i \in 1 .. k + 1 /\ Section_table'[i] = Section_table[i]
        /\ Section_table'[k + 1] = e /\ k + 1 \in 1 .. k + 1
        /\ \A i \in 1 .. k + 1 : i \in 1 .. k \/ i = k + 1
    <3>1. Section_table \in Seq(Entry) /\ e \in Entry
      BY <1>3, <1>9
    <3>2. /\ Section_table' \in Seq(Entry) /\ Len(Section_table') = k + 1
          /\ \A i \in 1 .. k : Section_table'[i] = Section_table[i]
          /\ Section_table'[k + 1] = e
      BY <2>0, <2>1, <2>2, <3>1
    <3>3. DOMAIN Section_table' = 1 .. k + 1
      BY <3>2
    <3>4. /\ \A i \in 1 .. k : i \in 1 .. k + 1
          /\ k + 1 \in 1 .. k + 1 /\ \A i \in 1 .. k + 1 : i \in 1 .. k \/ i = k + 1
      BY <2>1
    <3>5. Section_table' # << >>
      <4>1. Len(<< >>) = 0
        OBVIOUS
      <4> QED BY <2>1, <3>2, <4>1
    <3> QED BY <3>2, <3>3, <3>4, <3>5
  <2>4. KeyOf(k + 1)' = key /\ \A i \in 1 .. k : KeyOf(i)' = KeyOf(i)
    <3>1. \A i : KeyOf(i)' = <<Section_table'[i].app, Section_table'[i].section>>
      BY DEF KeyOf
    <3>2. KeyOf(k + 1)' = <<e.app, e.section>>
      BY <2>3, <3>1
    <3>3. \A i \in 1 .. k : KeyOf(i)' = KeyOf(i)
      BY <2>3, <3>1 DEF KeyOf
    <3> QED BY <1>9, <3>2, <3>3 DEF key
  <2>5. Len(files') = k + 1 /\ files' \in {files, Append(files, << >>)}
    <3>1. Len(files) = IF k = 0 THEN 1 ELSE k
      BY <1>3, <2>0, <2>1 DEF TableSound
    <3>2. files \in Seq(Seq(Nat))
      BY <1>3 DEF Placement, FileOrder
    <3>3. CASE k = 0
      <4>1. files' = files
        BY <2>1, <2>2, <3>3
      <4> QED BY <3>1, <3>3, <4>1
    <3>4. CASE k # 0
      <4>1. files' = Append(files, << >>)
        BY <2>1, <2>2, <3>4
      <4>2. Len(files') = Len(files) + 1
        BY <3>2, <4>1
      <4> QED BY <3>1, <3>4, <4>1, <4>2
    <3> QED BY <3>3, <3>4
  <2>6. src' \in 1 .. Len(files')
    BY <2>2, <2>3, <2>5
  <2>7. Placement' /\ FileOf(h)' = {} /\ \A n : FileOf(n)' = FileOf(n)
    BY <1>2, <1>3, <1>4, <1>6, <1>8, <2>5, <2>6, ToDirectives
  <2>8. HomePlaced'
    <3> SUFFICES ASSUME NEW n \in SourceLines, NEW f, FileOf(n)' = {f}
                 PROVE  f \in DOMAIN Section_table' /\ KeyOf(f)' = Home(n)'
      BY <1>10, <2>3 DEF HomePlaced
    <3>1. FileOf(n) = {f} /\ n \in 1 .. h - 1
      BY <1>10, <2>7
    <3>2. IF k = 0 THEN f = 1 ELSE f \in 1 .. k /\ KeyOf(f) = Home(n)
      BY <1>3, <2>1, <3>1 DEF HomePlaced
    <3>3. IF k = 0 THEN Home(n)' = NameAt(h)' ELSE Home(n)' = Home(n)
      <4>1. k = 0 <=> Sections = {}
        BY <1>3, <2>1 DEF TableSound
      <4> QED BY <1>4, <1>6, <3>1, <4>1, HomeKept
    <3>4. CASE k = 0
      <4>1. f = k + 1
        BY <3>2, <3>4
      <4> QED BY <1>10, <2>3, <2>4, <3>3, <3>4, <4>1
    <3>5. CASE k # 0
      BY <2>3, <2>4, <3>2, <3>3, <3>5
    <3> QED BY <3>4, <3>5
  <2>9. TableSound'
    <3>1. \A i \in 1 .. k : KeyOf(i) # key
      BY <1>11, <1>13, <2>1
    <3>2. \A i, j \in 1 .. k : KeyOf(i) = KeyOf(j) => i = j
      BY <1>3, <2>1 DEF TableSound
    <3>3. ASSUME NEW i \in 1 .. k + 1, NEW j \in 1 .. k + 1, KeyOf(i)' = KeyOf(j)'
          PROVE  i = j
      <4>1. CASE i = k + 1 \/ j = k + 1
        BY <2>3, <2>4, <3>1, <3>3, <4>1
      <4>2. CASE i \in 1 .. k /\ j \in 1 .. k
        BY <2>4, <3>2, <3>3, <4>2
      <4> QED BY <2>3, <4>1, <4>2
    <3>4. Sections' # {}
      BY <1>10
    <3> QED BY <2>3, <2>5, <3>3, <3>4 DEF TableSound
  <2>10. SectionInForce'
    <3>1. KeyOf(src)' = <<Section_table'[k + 1].app, Section_table'[k + 1].section>>
      BY <2>2 DEF KeyOf
    <3>2. KeyOf(src)' = key
      BY <1>9, <2>3, <3>1 DEF key
    <3> QED BY <1>5, <1>10, <2>2, <2>3, <3>2 DEF SectionInForce
  <2>11. SplitTypes'
    BY <1>2, <1>3, <1>5, <1>9, <2>3 DEF SplitTypes
  <2> QED BY <1>7, <2>7, <2>8, <2>9, <2>10, <2>11 DEF Sound, InForce
<1> QED BY <1>12, <1>13

(* While no line is read, nothing said of the lines and the files changes. *)
LEMMA SameLines ==
  ASSUME UNCHANGED <<lines, files>>
  PROVE  /\ Open' = Open /\ UNCHANGED <<SourceLines, Sections>>
         /\ \A n, kind : LatestBefore(n, kind)' = LatestBefore(n, kind)
         /\ \A n : FileOf(n)' = FileOf(n) /\ NameAt(n)' = NameAt(n) /\ Home(n)' = Home(n)
<1>1. Open' = Open
  BY DEF Open, After
<1>2. \A i, kind : Acts(i, kind)' <=> Acts(i, kind)
  BY <1>1 DEF Acts
<1>3. UNCHANGED <<SourceLines, Sections>>
  BY <1>2 DEF SourceLines, Sections
<1>4. \A n, kind : LatestBefore(n, kind)' = LatestBefore(n, kind)
  BY <1>2 DEF LatestBefore
<1>5. ASSUME NEW n PROVE NameAt(n)' = NameAt(n)
  <2>1. PICK a : a = LatestBefore(n, "application")
    OBVIOUS
  <2>2. LatestBefore(n, "application")' = a
    BY <1>4, <2>1
  <2> QED BY <2>1, <2>2 DEF NameAt
<1>6. ASSUME NEW n PROVE Home(n)' = Home(n)
  <2>1. PICK own, first : own = LatestBefore(n, "section") /\ first = Min(Sections)
    OBVIOUS
  <2>2. LatestBefore(n, "section")' = own /\ Min(Sections') = first
    BY <1>3, <1>4, <2>1
  <2> QED BY <1>3, <1>5, <2>1, <2>2 DEF Home
<1>7. \A n : FileOf(n)' = FileOf(n)
  BY DEF FileOf
<1> QED BY <1>1, <1>3, <1>4, <1>5, <1>6, <1>7

(* The end of the diag adds the map of the sections, and no line.          *)
LEMMA MapAdded ==
  ASSUME Sound, EndOfDiag
  PROVE  SplitTypes' /\ Placement' /\ TableSound' /\ HomePlaced'
<1> DEFINE notes == [i \in DOMAIN Section_table |->
                       [what |-> "map", file |-> i, app |-> Section_table[i].app,
                        section |-> Section_table[i].orig]]
<1>1. /\ ToMidas(notes)
      /\ UNCHANGED <<lines, in_block, in_multi_line_dir, last_fh, appname,
                     Section_table, src, files>>
  BY DEF EndOfDiag, openvars, tablevars
<1>2. midas \in Seq(Note) /\ Section_table \in Seq(Entry)
  BY DEF Sound, Placement, MidasOrder, SplitTypes
<1>3. notes \in Seq(Note) /\ \A i \in 1 .. Len(notes) : notes[i].what = "map"
  <2>1. Len(Section_table) \in Nat /\ DOMAIN Section_table = 1 .. Len(Section_table)
    BY <1>2
  <2>2. ASSUME NEW i \in 1 .. Len(Section_table)
        PROVE  [what |-> "map", file |-> i, app |-> Section_table[i].app,
                section |-> Section_table[i].orig] \in Note
    <3>1. Section_table[i] \in Entry
      BY <1>2, <2>2
    <3> QED BY <2>1, <3>1 DEF Note, Entry
  <2>3. notes = [i \in 1 .. Len(Section_table) |-> notes[i]]
    BY <2>1
  <2>4. \A i \in 1 .. Len(Section_table) : notes[i] \in Note /\ notes[i].what = "map"
    BY <2>1, <2>2
  <2> HIDE DEF notes
  <2>5. notes \in Seq(Note) /\ Len(notes) = Len(Section_table)
    BY <2>1, <2>3, <2>4
  <2> QED BY <2>4, <2>5
<1> HIDE DEF notes
<1>4. PICK k : k = Len(midas)
  OBVIOUS
<1>5. PICK m : m = Len(notes)
  OBVIOUS
<1>6. /\ k \in Nat /\ m \in Nat /\ DOMAIN midas = 1 .. k
      /\ midas' \in Seq(Note) /\ DOMAIN midas' = 1 .. k + m
      /\ \A j \in 1 .. k : midas'[j] = midas[j] /\ j \in 1 .. k + m
      /\ \A j \in 1 .. k + m : j \in 1 .. k \/ midas'[j].what = "map"
  <2>1. midas' = midas \o notes
    BY <1>1 DEF ToMidas
  <2>2. k \in Nat /\ m \in Nat /\ DOMAIN midas = 1 .. k
    BY <1>2, <1>3, <1>4, <1>5
  <2>3. /\ midas' \in Seq(Note) /\ Len(midas') = k + m
        /\ \A j \in 1 .. k : midas'[j] = midas[j]
        /\ \A j \in 1 .. k + m : j \in 1 .. k \/ midas'[j] = notes[j - k]
    BY <1>2, <1>3, <1>4, <1>5, <2>1
  <2>4. \A j \in 1 .. k + m : j \in 1 .. k \/ j - k \in 1 .. m
    BY <2>2
  <2>5. \A j \in 1 .. k : j \in 1 .. k + m
    BY <2>2
  <2> QED BY <1>3, <1>5, <2>2, <2>3, <2>4, <2>5
<1>7. Told' = Told /\ Told \subseteq 1 .. k
  BY <1>6 DEF Told
<1>8. \A n : InMidas(n)' <=> InMidas(n)
  BY <1>6, <1>7 DEF InMidas
<1>9. MidasOrder'
  BY <1>1, <1>6, <1>7 DEF Sound, Placement, MidasOrder
<1>10. /\ UNCHANGED <<SourceLines, Sections>>
       /\ \A n : FileOf(n)' = FileOf(n) /\ Home(n)' = Home(n)
  BY <1>1, SameLines
<1>11. FileOrder'
  BY <1>1 DEF Sound, Placement, FileOrder
<1>12. EachPlaced' /\ TextPlaced'
  BY <1>1, <1>8, <1>10 DEF Sound, Placement, EachPlaced, TextPlaced
<1>13. TableSound' /\ HomePlaced'
  BY <1>1, <1>10 DEF Sound, TableSound, HomePlaced, KeyOf
<1>14. SplitTypes'
  BY <1>1 DEF Sound, SplitTypes
<1> QED BY <1>9, <1>11, <1>12, <1>13, <1>14 DEF Placement

-----------------------------------------------------------------------------
LEMMA SplitStart ==
  ASSUME SplitInit
  PROVE  SplitInv
<1>1. /\ lines = << >> /\ Len(lines) = 0 /\ Here = 1 /\ sstage = "split"
      /\ in_block = FALSE /\ in_multi_line_dir = FALSE /\ last_fh = "src"
      /\ appname = [base |-> "default", dot |-> FALSE]
      /\ Section_table = << >> /\ files = << << >> >> /\ src = 1 /\ midas = << >>
  BY DEF SplitInit, Here, AName
<1>2. Open[0] = "no"
  <2>1. Open = CHOOSE q : OpenUpTo(q, lines, Len(lines))
    BY DEF Open, OpenUpTo
  <2>2. lines \in Seq(DiagLine)
    BY <1>1
  <2>3. Follows(Open, lines)
    BY <2>1, <2>2, OpenFollows
  <2> QED BY <2>3 DEF Follows
<1>3. SplitTypes
  <2>1. appname \in [base : Names, dot : BOOLEAN]
    <3>1. "default" \in Names /\ FALSE \in BOOLEAN
      BY DEF Names
    <3>2. appname = [base |-> "default", dot |-> FALSE]
      BY <1>1
    <3> QED BY <3>1, <3>2
  <2>2. lines \in Seq(DiagLine) /\ Section_table \in Seq(Entry)
    BY <1>1
  <2>3. in_block \in BOOLEAN /\ in_multi_line_dir \in BOOLEAN /\ last_fh \in {"src", "midas"}
    BY <1>1
  <2> QED BY <2>1, <2>2, <2>3 DEF SplitTypes
<1>4. Told = {} /\ \A n : ~ InMidas(n)
  BY <1>1 DEF Told, InMidas
<1>5. Placement
  <2>1. MidasOrder
    BY <1>1, <1>4 DEF MidasOrder
  <2>2. FileOrder
    <3>1. files \in Seq(Seq(Nat)) /\ Len(files) = 1 /\ \A f \in 1 .. 1 : files[f] = << >>
      BY <1>1
    <3>2. Len(<< >>) = 0 /\ \A i \in 1 .. 0 : FALSE
      OBVIOUS
    <3>3. \A f \in 1 .. Len(files) : \A i \in 1 .. Len(files[f]) : FALSE
      BY <3>1, <3>2
    <3>4. src \in 1 .. Len(files)
      BY <1>1, <3>1
    <3> QED BY <3>1, <3>3, <3>4 DEF FileOrder
  <2>3. EachPlaced /\ TextPlaced
    BY <1>1 DEF EachPlaced, TextPlaced
  <2> QED BY <2>1, <2>2, <2>3 DEF Placement
<1>6. Sections = {} /\ SourceLines = {}
  BY <1>1 DEF Sections, SourceLines
<1>7. TableSound /\ HomePlaced
  <2>1. Len(files) = 1 /\ DOMAIN Section_table = {}
    BY <1>1
  <2> QED BY <1>1, <1>6, <2>1 DEF TableSound, HomePlaced
<1>8. \A kind : LatestBefore(1, kind) = 0
  BY LatestIs
<1>9. InForce
  BY <1>1, <1>2, <1>8 DEF InForce, Modes, AppInForce, SectionInForce
<1> QED BY <1>3, <1>5, <1>7, <1>9 DEF SplitInv

LEMMA SplitStep ==
  ASSUME SplitInv, NEW l \in DiagLine, SplitLine(l)
  PROVE  SplitInv'
<1>1. sstage = "split"
  BY DEF SplitLine, BlankLine, ContinuedLine, BlockLine, LineOfBlock, SectionLine,
         MidasLine, ApplicationLine, SourceLine, Begins, Read
<1>2. Sound
  BY <1>1 DEF SplitInv, Sound
<1>3. SUFFICES ASSUME sstage' \in {"split", "done"} PROVE Sound'
  BY DEF SplitInv, Sound
<1>4. CASE \/ BlankLine(l) \/ ContinuedLine(l) \/ BlockLine(l) \/ LineOfBlock(l)
           \/ MidasLine(l) \/ SourceLine(l)
  BY <1>2, <1>4, PlainLines
<1>5. CASE ApplicationLine(l)
  <2>1. Named(l)
    BY <1>3, <1>5 DEF ApplicationLine, Named
  <2> QED BY <1>2, <1>5, <2>1, ApplicationLines
<1>6. CASE SectionLine(l)
  <2>1. Named(l)
    BY <1>3, <1>6 DEF SectionLine, Named
  <2>2. sstage' = sstage
    BY <1>3, <1>6, <2>1 DEF SectionLine, section_lookup, Named
  <2> QED BY <1>1, <1>2, <1>6, <2>1, <2>2, SectionLines
<1> QED BY <1>4, <1>5, <1>6 DEF SplitLine

LEMMA SplitRests ==
  ASSUME SplitInv, UNCHANGED splitvars
  PROVE  SplitInv'
<1>1. UNCHANGED <<sstage, lines, in_block, in_multi_line_dir, last_fh, appname,
                  Section_table, src, files, midas>>
  BY DEF splitvars, openvars, tablevars
<1>2. /\ Open' = Open /\ UNCHANGED <<SourceLines, Sections>>
      /\ \A n, kind : LatestBefore(n, kind)' = LatestBefore(n, kind)
      /\ \A n : FileOf(n)' = FileOf(n) /\ NameAt(n)' = NameAt(n) /\ Home(n)' = Home(n)
  BY <1>1, SameLines
<1>3. SplitTypes' <=> SplitTypes
  BY <1>1 DEF SplitTypes
<1>4. UNCHANGED Told /\ \A n : InMidas(n)' <=> InMidas(n)
  BY <1>1 DEF Told, InMidas
<1>5. (MidasOrder' <=> MidasOrder) /\ (FileOrder' <=> FileOrder)
  BY <1>1, <1>4 DEF MidasOrder, FileOrder
<1>6. (EachPlaced' <=> EachPlaced) /\ (TextPlaced' <=> TextPlaced)
  BY <1>1, <1>2, <1>4 DEF EachPlaced, TextPlaced
<1>7. \A f : KeyOf(f)' = KeyOf(f)
  BY <1>1 DEF KeyOf
<1>8. (TableSound' <=> TableSound) /\ (HomePlaced' <=> HomePlaced)
  BY <1>1, <1>2, <1>7 DEF TableSound, HomePlaced
<1>9. Modes' <=> Modes
  BY <1>1, <1>2 DEF Modes
<1>10. AppInForce' <=> AppInForce
  <2>1. PICK a : a = LatestBefore(Len(lines) + 1, "application")
    OBVIOUS
  <2>2. LatestBefore(Len(lines) + 1, "application")' = a
    BY <1>1, <1>2, <2>1
  <2> QED BY <1>1, <2>1, <2>2 DEF AppInForce, Here
<1>11. SectionInForce' <=> SectionInForce
  <2>1. PICK s : s = LatestBefore(Len(lines) + 1, "section")
    OBVIOUS
  <2>2. LatestBefore(Len(lines) + 1, "section")' = s
    BY <1>1, <1>2, <2>1
  <2>3. PICK k : k = src
    OBVIOUS
  <2>4. KeyOf(src)' = KeyOf(k) /\ src' = k
    BY <1>1, <1>7, <2>3
  <2> QED BY <1>1, <1>2, <2>1, <2>2, <2>3, <2>4 DEF SectionInForce, Here
<1> QED BY <1>1, <1>3, <1>5, <1>6, <1>8, <1>9, <1>10, <1>11 DEF SplitInv, Placement, InForce

LEMMA HomeFound ==
  ASSUME SplitInv
  PROVE  LinesGoHome
<1> SUFFICES ASSUME sstage = "done" PROVE LinesGoHome
  BY DEF LinesGoHome
<1>1. SplitTypes /\ Placement /\ TableSound /\ HomePlaced
  BY DEF SplitInv
<1>2. /\ \A i, j \in Told : i < j => midas[i].n < midas[j].n
      /\ files \in Seq(Seq(Nat)) /\ DOMAIN files = 1 .. Len(files)
      /\ DOMAIN lines = 1 .. Len(lines) /\ Len(lines) \in Nat
  BY <1>1 DEF Placement, MidasOrder, FileOrder, SplitTypes
<1>3. \A f \in DOMAIN files : \A i, j \in DOMAIN files[f] :
        i < j => files[f][i] < files[f][j]
  <2>1. \A f \in DOMAIN files : DOMAIN files[f] = 1 .. Len(files[f])
    BY <1>2
  <2> QED BY <1>1, <1>2, <2>1 DEF Placement, FileOrder
<1>4. \A n \in DOMAIN lines :
        \/ InMidas(n) /\ FileOf(n) = {}
        \/ ~ InMidas(n) /\ \E f \in DOMAIN files : FileOf(n) = {f}
  BY <1>1, <1>2 DEF Placement, EachPlaced
<1>5. \A n \in {i \in DOMAIN lines : lines[i].kind # "blank"} :
        FileOf(n) # {} <=> n \in SourceLines
  BY <1>1, <1>2 DEF Placement, TextPlaced
<1>6. ASSUME NEW n \in SourceLines
      PROVE  /\ \E f \in DOMAIN files : FileOf(n) = {f}
             /\ Section_table = << >> => Home(n) = <<"none", "none">>
  <2>1. n \in DOMAIN lines /\ lines[n].kind = "text"
    BY DEF SourceLines, Acts
  <2>2. FileOf(n) # {}
    BY <1>5, <2>1
  <2>3. ASSUME Section_table = << >> PROVE Home(n) = <<"none", "none">>
    <3>1. PICK own : own = LatestBefore(n, "section")
      OBVIOUS
    <3>2. n \in Nat /\ n \in 1 .. Len(lines)
      BY <1>2, <2>1
    <3>3. own = 0 \/ (own \in 1 .. n - 1 /\ Acts(own, "section"))
      BY <3>1, <3>2, LatestIs
    <3>4. own \in 1 .. n - 1 => own \in DOMAIN lines
      BY <1>2, <3>2
    <3>5. Sections = {}
      BY <1>1, <2>3 DEF TableSound
    <3>6. own = 0
      BY <3>3, <3>4, <3>5 DEF Sections
    <3> QED BY <3>1, <3>5, <3>6 DEF Home
  <2> QED BY <1>4, <2>1, <2>2, <2>3
<1>7. ASSUME NEW n \in SourceLines, NEW m \in SourceLines
      PROVE  FileOf(n) = FileOf(m) <=> Home(n) = Home(m)
  <2>1. PICK f \in DOMAIN files, g \in DOMAIN files : FileOf(n) = {f} /\ FileOf(m) = {g}
    BY <1>6
  <2>2. FileOf(n) = FileOf(m) <=> f = g
    BY <2>1
  <2>3. CASE Section_table = << >>
    <3>1. f = 1 /\ g = 1
      BY <1>1, <2>1, <2>3 DEF HomePlaced
    <3> QED BY <1>6, <2>2, <2>3, <3>1
  <2>4. CASE Section_table # << >>
    <3>1. /\ f \in DOMAIN Section_table /\ KeyOf(f) = Home(n)
          /\ g \in DOMAIN Section_table /\ KeyOf(g) = Home(m)
      BY <1>1, <2>1, <2>4 DEF HomePlaced
    <3>2. KeyOf(f) = KeyOf(g) <=> f = g
      BY <1>1, <3>1 DEF TableSound
    <3> QED BY <2>2, <3>1, <3>2
  <2> QED BY <2>3, <2>4
<1> QED BY <1>2, <1>3, <1>4, <1>5, <1>7 DEF LinesGoHome, Told, InMidas

(* Splitting loses, repeats and reorders no line of any diag, and every    *)
(* source line is in the file of its section and application: for diags of *)
(* any lines and any length, any number of sections, and whatever the rest *)
(* of the program does meanwhile.                                          *)
THEOREM EveryLineGoesHome == Spec => []LinesGoHome
<1>1. Init => SplitInv
  BY SplitStart DEF Init
<1>2. SplitInv /\ [Next]_vars => SplitInv'
  <2> SUFFICES ASSUME SplitInv, [Next]_vars PROVE SplitInv'
    OBVIOUS
  <2>1. CASE Split
    <3>1. CASE EndOfDiag
      <4>1. sstage = "split" /\ sstage' = "done"
        BY <3>1 DEF EndOfDiag
      <4>2. Sound
        BY <4>1 DEF SplitInv, Sound
      <4> QED BY <3>1, <4>1, <4>2, MapAdded DEF SplitInv
    <3>2. CASE \E l \in SplitLines : SplitLine(l)
      BY <3>2, SplitLinesAssumption, SplitStep
    <3> QED BY <2>1, <3>1, <3>2 DEF Split
  <2>2. CASE UNCHANGED splitvars
    BY <2>2, SplitRests
  <2> QED BY <2>1, <2>2 DEF Next, vars, main, GenerateImage, read_mem, SimRead, SimWrite
<1>3. SplitInv => LinesGoHome
  BY HomeFound
<1> QED BY <1>1, <1>2, <1>3, PTL DEF Spec

-----------------------------------------------------------------------------
(* The B-tree: keys of a node. *)

(* The keys of a node are in order, each once. *)
Sorted(s) == \A i, j \in DOMAIN s : i < j => s[i] < s[j]

(* InsertAt pushes what is behind one place back. *)
Inserted(t, s, p, e) ==
  /\ Len(t) = Len(s) + 1
  /\ t[p] = e
  /\ \A i \in 1 .. Len(s) : (i < p => t[i] = s[i]) /\ (i >= p => t[i + 1] = s[i])

(* InsertAt inserts. *)
LEMMA InsertAtIs ==
  ASSUME NEW S, NEW s \in Seq(S), NEW p \in 1 .. Len(s) + 1, NEW e \in S
  PROVE  InsertAt(s, p, e) \in Seq(S) /\ Inserted(InsertAt(s, p, e), s, p, e)
<1> DEFINE a == SubSeq(s, 1, p - 1)
           b == SubSeq(s, p, Len(s))
<1>1. a \in Seq(S) /\ Len(a) = p - 1 /\ \A i \in 1 .. p - 1 : a[i] = s[i]
  BY SubSeqProperties
<1>2. b \in Seq(S) /\ Len(b) = Len(s) - p + 1 /\ \A i \in 1 .. Len(s) - p + 1 : b[i] = s[p + i - 1]
  BY SubSeqProperties
<1>3. <<e>> \in Seq(S) /\ Len(<<e>>) = 1 /\ <<e>>[1] = e
  OBVIOUS
<1> HIDE DEF a, b
<1> DEFINE c == a \o <<e>>
<1>c. /\ c \in Seq(S) /\ Len(c) = Len(a) + Len(<<e>>)
      /\ \A i \in 1 .. Len(a) + Len(<<e>>) : c[i] = IF i <= Len(a) THEN a[i] ELSE <<e>>[i - Len(a)]
  <2>1. a \in Seq(S) /\ <<e>> \in Seq(S)  BY <1>1, <1>3
  <2> QED BY <2>1, ConcatProperties, Zenon
<1>4. c \in Seq(S) /\ Len(c) = p /\ c[p] = e /\ \A i \in 1 .. p - 1 : c[i] = s[i]
  <2>1. Len(a) + Len(<<e>>) = p /\ Len(a) = p - 1 /\ p - Len(a) = 1
    BY <1>1, <1>3
  <2>2. \A i \in 1 .. p : c[i] = IF i <= p - 1 THEN a[i] ELSE <<e>>[i - (p - 1)]
    BY <2>1, <1>c
  <2>3. c[p] = e
    <3>1. p \in 1 .. p /\ ~(p <= p - 1) /\ p - (p - 1) = 1  OBVIOUS
    <3> QED BY <3>1, <2>2, <1>3
  <2>4. \A i \in 1 .. p - 1 : c[i] = s[i]
    <3>1. \A i \in 1 .. p - 1 : i \in 1 .. p /\ i <= p - 1  OBVIOUS
    <3> QED BY <3>1, <2>2, <1>1
  <2>5. c \in Seq(S) /\ Len(c) = p
    BY <2>1, <1>c
  <2> QED BY <2>3, <2>4, <2>5
<1> HIDE DEF c
<1>5. /\ c \o b \in Seq(S) /\ Len(c \o b) = Len(s) + 1
      /\ \A i \in 1 .. Len(s) + 1 : (c \o b)[i] = IF i <= p THEN c[i] ELSE b[i - p]
  <2>1. /\ c \o b \in Seq(S) /\ Len(c \o b) = Len(c) + Len(b)
        /\ \A i \in 1 .. Len(c) + Len(b) : (c \o b)[i] = IF i <= Len(c) THEN c[i] ELSE b[i - Len(c)]
    <3>1. c \in Seq(S) /\ b \in Seq(S)  BY <1>2, <1>4
    <3> QED BY <3>1, ConcatProperties, Zenon
  <2>2. Len(c) + Len(b) = Len(s) + 1 /\ Len(c) = p  BY <1>2, <1>4
  <2> QED BY <2>1, <2>2
<1>6. InsertAt(s, p, e) = c \o b
  BY DEF InsertAt, a, b, c
<1>7. (c \o b)[p] = e
  <2>1. p \in 1 .. Len(s) + 1 /\ p <= p  OBVIOUS
  <2> QED BY <2>1, <1>4, <1>5
<1>8. ASSUME NEW i \in 1 .. Len(s)
      PROVE  (i < p => (c \o b)[i] = s[i]) /\ (i >= p => (c \o b)[i + 1] = s[i])
  <2>0. i \in Int /\ p \in Int /\ i \in 1 .. Len(s) + 1 /\ i + 1 \in 1 .. Len(s) + 1
    OBVIOUS
  <2>1. CASE i < p  BY <2>0, <2>1, <1>4, <1>5
  <2>2. CASE i >= p
    <3>1. (i + 1) - p \in 1 .. Len(s) - p + 1 /\ ~(i + 1 <= p)  BY <2>0, <2>2
    <3>2. b[(i + 1) - p] = s[p + ((i + 1) - p) - 1]  BY <3>1, <1>2
    <3>3. p + ((i + 1) - p) - 1 = i  BY <2>0
    <3>4. (c \o b)[i + 1] = b[(i + 1) - p]  BY <2>0, <3>1, <1>5
    <3> QED BY <3>2, <3>3, <3>4, <2>0, <2>2
  <2> QED BY <2>0, <2>1, <2>2
<1> QED BY <1>5, <1>6, <1>7, <1>8 DEF Inserted

(* What b_scanNode finds in a node whose keys are in order. *)
LEMMA ScanIs ==
  ASSUME NEW node, node.keys \in Seq(Int), Sorted(node.keys), NEW k \in Int
  PROVE  /\ b_scanNode(node, k) \in 0 .. Len(node.keys)
         /\ \A i \in 1 .. Len(node.keys) : i <= b_scanNode(node, k) <=> node.keys[i] <= k
<1> DEFINE s == node.keys
           T == {m \in 0 .. Len(s) : \A i \in 1 .. Len(s) : m < i => s[i] > k}
<1>0. s \in Seq(Int) /\ Len(s) \in Nat /\ DOMAIN s = 1 .. Len(s) /\ \A i \in 1 .. Len(s) : s[i] \in Int
  OBVIOUS
<1>s. \A i, j \in 1 .. Len(s) : i < j => s[i] < s[j]
  BY <1>0, Zenon DEF Sorted
<1>1. PICK m \in T : \A y \in T : m <= y
  <2>1. Len(s) \in T  BY <1>0
  <2>2. T \subseteq Nat /\ T # {}  BY <2>1
  <2> HIDE DEF T
  <2> QED BY <2>2, LeastNat
<1>2. m \in 0 .. Len(s) /\ \A i \in 1 .. Len(s) : m < i => s[i] > k
  OBVIOUS
<1>3. \A i \in 1 .. Len(s) : i <= m => s[i] <= k
  <2>1. m > 0 => s[m] <= k
    <3> SUFFICES ASSUME m > 0, s[m] > k PROVE FALSE
      BY <1>0, <1>2
    <3>1. \A i \in 1 .. Len(s) : m - 1 < i => s[i] > k
      <4> TAKE i \in 1 .. Len(s)
      <4> HAVE m - 1 < i
      <4>1. i = m \/ m < i  BY <1>2
      <4> QED BY <4>1, <1>2
    <3>2. m - 1 \in T
      BY <1>2, <1>0, <3>1
    <3>3. m <= m - 1
      <4> HIDE DEF T
      <4> QED BY <3>2, <1>1
    <3> QED BY <3>3, <1>2
  <2> TAKE i \in 1 .. Len(s)
  <2> HAVE i <= m
  <2>2. i = m \/ s[i] < s[m]
    BY <1>2, <1>0, <1>s
  <2>3. m > 0 /\ m \in 1 .. Len(s)
    BY <1>2, <1>0
  <2>4. s[i] \in Int /\ s[m] \in Int  BY <2>3, <1>0
  <2> QED BY <2>1, <2>2, <2>3, <2>4
<1>4. {i \in DOMAIN s : s[i] <= k} = 1 .. m
  BY <1>0, <1>2, <1>3
<1>5. Cardinality(1 .. m) = m
  BY <1>2, FS_Interval
<1>6. b_scanNode(node, k) = m
  BY <1>4, <1>5 DEF b_scanNode
<1> HIDE DEF T
<1> QED BY <1>6, <1>2, <1>3, <1>0
(* What belongs behind the key before place i and before the one there. *)
Slot(S, s, i) ==
  {x \in S : \A j \in 1 .. Len(s) : (j < i => s[j] < x) /\ (j >= i => x < s[j])}

(* A key the node does not hold belongs in the slot b_scanNode finds, and  *)
(* in no other.                                                            *)
LEMMA ScanSlot ==
  ASSUME NEW node, node.keys \in Seq(Int), Sorted(node.keys),
         NEW S \in SUBSET Int, NEW k \in S, ~Holds(node, k)
  PROVE  /\ b_scanNode(node, k) + 1 \in 1 .. Len(node.keys) + 1
         /\ k \in Slot(S, node.keys, b_scanNode(node, k) + 1)
         /\ \A j \in 1 .. Len(node.keys) + 1 :
              k \in Slot(S, node.keys, j) => j = b_scanNode(node, k) + 1
<1> DEFINE s == node.keys
           r == b_scanNode(node, k)
<1>1. /\ Len(s) \in Nat /\ DOMAIN s = 1 .. Len(s) /\ \A i \in 1 .. Len(s) : s[i] \in Int
      /\ k \in Int
  OBVIOUS
<1>2. r \in 0 .. Len(s) /\ \A i \in 1 .. Len(s) : i <= r <=> s[i] <= k
  BY <1>1, ScanIs
<1>3. \A i \in 1 .. Len(s) : s[i] # k
  BY <1>1 DEF Holds
<1> HIDE DEF s, r
<1>4. \A i \in 1 .. Len(s) : (i < r + 1 => s[i] < k) /\ (i >= r + 1 => k < s[i])
  <2> TAKE i \in 1 .. Len(s)
  <2>1. s[i] \in Int /\ s[i] # k /\ (i <= r <=> s[i] <= k)
    BY <1>1, <1>2, <1>3
  <2> QED BY <2>1, <1>1, <1>2
<1>5. k \in Slot(S, s, r + 1)
  BY <1>4 DEF Slot
<1>6. ASSUME NEW j \in 1 .. Len(s) + 1, k \in Slot(S, s, j)
      PROVE  j = r + 1
  <2>1. \A i \in 1 .. Len(s) : (i < j => s[i] < k) /\ (i >= j => k < s[i])
    BY <1>6 DEF Slot
  <2>2. ~(j < r + 1)
    <3> SUFFICES ASSUME j < r + 1 PROVE FALSE
      OBVIOUS
    <3>1. j \in 1 .. Len(s) /\ j >= j  BY <1>1, <1>2
    <3>2. k < s[j] /\ s[j] < k  BY <3>1, <2>1, <1>4
    <3> QED BY <3>1, <3>2, <1>1
  <2>3. ~(j > r + 1)
    <3> SUFFICES ASSUME j > r + 1 PROVE FALSE
      OBVIOUS
    <3>1. r + 1 \in 1 .. Len(s) /\ r + 1 >= r + 1  BY <1>1, <1>2
    <3>2. s[r + 1] < k /\ k < s[r + 1]  BY <3>1, <2>1, <1>4
    <3> QED BY <3>1, <3>2, <1>1
  <2> QED BY <2>2, <2>3, <1>1, <1>2
<1>7. r + 1 \in 1 .. Len(s) + 1
  BY <1>1, <1>2
<1> QED BY <1>5, <1>6, <1>7 DEF s, r

(* A key put in its slot parts the slot and leaves the others. *)
LEMMA SlotInsert ==
  ASSUME NEW s \in Seq(Int), Sorted(s), NEW S \in SUBSET Int,
         NEW p \in 1 .. Len(s) + 1, NEW k \in Int, k \in Slot(S, s, p)
  PROVE  LET t == InsertAt(s, p, k)
         IN  /\ Sorted(t)
             /\ Slot(S, t, p) = {x \in Slot(S, s, p) : x < k}
             /\ Slot(S, t, p + 1) = {x \in Slot(S, s, p) : x > k}
             /\ \A m \in 1 .. p - 1 : Slot(S, t, m) = Slot(S, s, m)
             /\ \A m \in p + 1 .. Len(s) + 1 : Slot(S, t, m + 1) = Slot(S, s, m)
<1> DEFINE t == InsertAt(s, p, k)
<1>1. /\ Len(s) \in Nat /\ DOMAIN s = 1 .. Len(s) /\ \A i \in 1 .. Len(s) : s[i] \in Int
      /\ k \in Int /\ k \in S
  BY DEF Slot
<1>2. /\ t \in Seq(Int) /\ Len(t) = Len(s) + 1 /\ t[p] = k
      /\ \A i \in 1 .. Len(s) : (i < p => t[i] = s[i]) /\ (i >= p => t[i + 1] = s[i])
  <2>1. t \in Seq(Int) /\ Inserted(t, s, p, k)
    BY InsertAtIs, Zenon
  <2> QED BY <2>1 DEF Inserted
<1>3. DOMAIN t = 1 .. Len(s) + 1
  BY <1>2
<1> HIDE DEF t
<1>4. \A i \in 1 .. Len(s) : (i < p => s[i] < k) /\ (i >= p => k < s[i])
  BY DEF Slot
<1>s. \A i, j \in 1 .. Len(s) : i < j => s[i] < s[j]
  BY <1>1, Zenon DEF Sorted
<1>5. \A i \in 1 .. Len(s) : (i < p => t[i] = s[i]) /\ (i >= p => t[i + 1] = s[i])
  BY <1>2
<1>p. t[p] = k
  BY <1>2
<1>6. Sorted(t)
  <2> SUFFICES ASSUME NEW i \in 1 .. Len(s) + 1, NEW j \in 1 .. Len(s) + 1, i < j
               PROVE  t[i] < t[j]
    BY <1>3 DEF Sorted
  <2>1. CASE j < p
    <3>1. i \in 1 .. Len(s) /\ j \in 1 .. Len(s) /\ i < p  BY <2>1, <1>1
    <3> QED BY <3>1, <2>1, <1>5, <1>s
  <2>2. CASE j = p
    <3>1. i \in 1 .. Len(s) /\ i < p  BY <2>2, <1>1
    <3> QED BY <3>1, <2>2, <1>5, <1>4, <1>p
  <2>3. CASE j > p /\ i < p
    <3>1. i \in 1 .. Len(s) /\ j - 1 \in 1 .. Len(s) /\ j - 1 >= p /\ i < j - 1 /\ (j - 1) + 1 = j
      BY <2>3, <1>1
    <3>2. t[i] = s[i] /\ t[j] = s[j - 1]  BY <3>1, <2>3, <1>5
    <3> QED BY <3>1, <3>2, <1>s
  <2>4. CASE j > p /\ i = p
    <3>1. j - 1 \in 1 .. Len(s) /\ j - 1 >= p /\ (j - 1) + 1 = j
      BY <2>4, <1>1
    <3>2. t[j] = s[j - 1]  BY <3>1, <1>5
    <3> QED BY <3>1, <3>2, <2>4, <1>p, <1>4
  <2>5. CASE i > p
    <3>1. i - 1 \in 1 .. Len(s) /\ j - 1 \in 1 .. Len(s) /\ i - 1 >= p /\ j - 1 >= p
          /\ i - 1 < j - 1 /\ (j - 1) + 1 = j /\ (i - 1) + 1 = i
      BY <2>5, <1>1
    <3>2. t[i] = s[i - 1] /\ t[j] = s[j - 1]  BY <3>1, <1>5
    <3> QED BY <3>1, <3>2, <1>s
  <2>6. i \in Int /\ j \in Int /\ p \in Int
    BY <1>1
  <2>7. j < p \/ j = p \/ (j > p /\ i < p) \/ (j > p /\ i = p) \/ i > p
    BY <2>6
  <2> QED BY ONLY <2>1, <2>2, <2>3, <2>4, <2>5, <2>7
(* Membership in the slots of t, by the keys of s. *)
<1>7. \A m \in 1 .. Len(s) + 2, x \in S :
        x \in Slot(S, t, m) <=>
          /\ \A j \in 1 .. Len(s) : j < p => (j < m => s[j] < x) /\ (j >= m => x < s[j])
          /\ (p < m => k < x) /\ (p >= m => x < k)
          /\ \A j \in 1 .. Len(s) : j >= p => (j + 1 < m => s[j] < x) /\ (j + 1 >= m => x < s[j])
  <2> TAKE m \in 1 .. Len(s) + 2, x \in S
  <2>1. x \in Slot(S, t, m) <=>
          \A j \in 1 .. Len(s) + 1 : (j < m => t[j] < x) /\ (j >= m => x < t[j])
    BY <1>2 DEF Slot
  <2>2. ASSUME \A j \in 1 .. Len(s) + 1 : (j < m => t[j] < x) /\ (j >= m => x < t[j])
        PROVE  /\ \A j \in 1 .. Len(s) : j < p => (j < m => s[j] < x) /\ (j >= m => x < s[j])
               /\ (p < m => k < x) /\ (p >= m => x < k)
               /\ \A j \in 1 .. Len(s) : j >= p => (j + 1 < m => s[j] < x) /\ (j + 1 >= m => x < s[j])
    <3>1. ASSUME NEW j \in 1 .. Len(s), j < p
          PROVE  (j < m => s[j] < x) /\ (j >= m => x < s[j])
      <4>1. j \in 1 .. Len(s) + 1 /\ t[j] = s[j]  BY <3>1, <1>1, <1>5
      <4> QED BY <4>1, <2>2
    <3>2. (p < m => k < x) /\ (p >= m => x < k)
      BY <2>2, <1>p
    <3>3. ASSUME NEW j \in 1 .. Len(s), j >= p
          PROVE  (j + 1 < m => s[j] < x) /\ (j + 1 >= m => x < s[j])
      <4>1. j + 1 \in 1 .. Len(s) + 1 /\ t[j + 1] = s[j]  BY <3>3, <1>1, <1>5
      <4> QED BY <4>1, <2>2
    <3> QED BY <3>1, <3>2, <3>3
  <2>3. ASSUME /\ \A j \in 1 .. Len(s) : j < p => (j < m => s[j] < x) /\ (j >= m => x < s[j])
               /\ (p < m => k < x) /\ (p >= m => x < k)
               /\ \A j \in 1 .. Len(s) : j >= p => (j + 1 < m => s[j] < x) /\ (j + 1 >= m => x < s[j]),
               NEW j \in 1 .. Len(s) + 1
        PROVE  (j < m => t[j] < x) /\ (j >= m => x < t[j])
    <3>1. CASE j < p
      <4>1. j \in 1 .. Len(s) /\ t[j] = s[j]  BY <3>1, <1>1, <1>5
      <4> QED BY <4>1, <3>1, <2>3
    <3>2. CASE j = p
      BY <3>2, <2>3, <1>p
    <3>3. CASE j > p
      <4>1. j - 1 \in 1 .. Len(s) /\ j - 1 >= p /\ (j - 1) + 1 = j  BY <3>3, <1>1
      <4>2. t[j] = s[j - 1]  BY <4>1, <1>5
      <4> QED BY <4>1, <4>2, <2>3
    <3> QED BY <3>1, <3>2, <3>3, <1>1
  <2> QED BY ONLY <2>1, <2>2, <2>3
<1>x. \A x \in S : x \in Int
  OBVIOUS
<1>8. \A m \in 1 .. Len(s) + 1, x \in S :
        x \in Slot(S, s, m) <=>
          \A j \in 1 .. Len(s) : (j < m => s[j] < x) /\ (j >= m => x < s[j])
  BY DEF Slot
<1>9. /\ \A m \in 1 .. Len(s) + 2 : Slot(S, t, m) \subseteq S
      /\ \A m \in 1 .. Len(s) + 1 : Slot(S, s, m) \subseteq S
  BY DEF Slot
<1>10. Slot(S, t, p) = {x \in Slot(S, s, p) : x < k}
  <2>1. ASSUME NEW x \in S
        PROVE  x \in Slot(S, t, p) <=> x \in Slot(S, s, p) /\ x < k
    <3>1. x \in Slot(S, t, p) <=>
          /\ \A j \in 1 .. Len(s) : j < p => s[j] < x
          /\ x < k
          /\ \A j \in 1 .. Len(s) : j >= p => x < s[j]
      <4>1. p \in 1 .. Len(s) + 2 /\ p \in Int  BY <1>1
      <4>2. x \in Slot(S, t, p) <=>
          /\ \A j \in 1 .. Len(s) : j < p => (j < p => s[j] < x) /\ (j >= p => x < s[j])
          /\ (p < p => k < x) /\ (p >= p => x < k)
          /\ \A j \in 1 .. Len(s) : j >= p => (j + 1 < p => s[j] < x) /\ (j + 1 >= p => x < s[j])
        BY <4>1, <1>7
      <4>3. ~(p < p) /\ p >= p
            /\ \A j \in 1 .. Len(s) : (j < p => ~(j >= p)) /\ (j >= p => ~(j + 1 < p) /\ j + 1 >= p)
        BY <4>1, <1>1
      <4> QED BY <4>2, <4>3
    <3>2. x \in Slot(S, s, p) <=>
          /\ \A j \in 1 .. Len(s) : j < p => s[j] < x
          /\ \A j \in 1 .. Len(s) : j >= p => x < s[j]
      BY <1>8
    <3> QED BY ONLY <3>1, <3>2
  <2>2. p \in 1 .. Len(s) + 2 /\ p \in 1 .. Len(s) + 1  BY <1>1
  <2> QED BY <2>1, <2>2, <1>9
<1>11. Slot(S, t, p + 1) = {x \in Slot(S, s, p) : x > k}
  <2>1. ASSUME NEW x \in S
        PROVE  x \in Slot(S, t, p + 1) <=> x \in Slot(S, s, p) /\ x > k
    <3>0. p + 1 \in 1 .. Len(s) + 2 /\ p \in Int  BY <1>1
    <3>1. x \in Slot(S, t, p + 1) <=>
          /\ \A j \in 1 .. Len(s) : j < p => s[j] < x
          /\ k < x
          /\ \A j \in 1 .. Len(s) : j >= p => x < s[j]
      BY <3>0, <1>7, <1>1
    <3>2. x \in Slot(S, s, p) <=>
          /\ \A j \in 1 .. Len(s) : j < p => s[j] < x
          /\ \A j \in 1 .. Len(s) : j >= p => x < s[j]
      BY <1>8
    <3>3. k < x <=> x > k  BY <1>1, <1>x
    <3> QED BY ONLY <3>1, <3>2, <3>3
  <2>2. p + 1 \in 1 .. Len(s) + 2 /\ p \in 1 .. Len(s) + 1  BY <1>1
  <2> QED BY <2>1, <2>2, <1>9
<1>12. ASSUME NEW m \in 1 .. p - 1 PROVE Slot(S, t, m) = Slot(S, s, m)
  <2>0. m \in 1 .. Len(s) + 2 /\ m \in 1 .. Len(s) + 1 /\ m < p /\ m \in 1 .. Len(s) /\ m \in Int /\ p \in Int
    BY <1>1
  <2>1. ASSUME NEW x \in S PROVE x \in Slot(S, t, m) <=> x \in Slot(S, s, m)
    <3>1. x \in Slot(S, t, m) <=>
          /\ \A j \in 1 .. Len(s) : j < p => (j < m => s[j] < x) /\ (j >= m => x < s[j])
          /\ x < k
          /\ \A j \in 1 .. Len(s) : j >= p => x < s[j]
      BY <2>0, <1>7, <1>1
    <3>2. x \in Slot(S, s, m) <=>
          /\ \A j \in 1 .. Len(s) : j < p => (j < m => s[j] < x) /\ (j >= m => x < s[j])
          /\ \A j \in 1 .. Len(s) : j >= p => x < s[j]
      BY <2>0, <1>8, <1>1
    <3>3. x \in Slot(S, s, m) => x < k
      <4> HAVE x \in Slot(S, s, m)
      <4>1. x < s[m]  BY <2>0, <1>8
      <4>2. s[m] < k  BY <2>0, <1>4
      <4> QED BY <4>1, <4>2, <1>1, <1>x, <2>0
    <3> QED BY ONLY <3>1, <3>2, <3>3
  <2> QED BY <2>0, <2>1, <1>9
<1>13. ASSUME NEW m \in p + 1 .. Len(s) + 1 PROVE Slot(S, t, m + 1) = Slot(S, s, m)
  <2>0. /\ m + 1 \in 1 .. Len(s) + 2 /\ m \in 1 .. Len(s) + 1 /\ m > p /\ m - 1 \in 1 .. Len(s)
        /\ m \in Int /\ p \in Int /\ m - 1 >= p /\ m - 1 < m
    BY <1>1
  <2>1. ASSUME NEW x \in S PROVE x \in Slot(S, t, m + 1) <=> x \in Slot(S, s, m)
    <3>1. x \in Slot(S, t, m + 1) <=>
          /\ \A j \in 1 .. Len(s) : j < p => s[j] < x
          /\ k < x
          /\ \A j \in 1 .. Len(s) : j >= p => (j < m => s[j] < x) /\ (j >= m => x < s[j])
      BY <2>0, <1>7, <1>1
    <3>2. x \in Slot(S, s, m) <=>
          /\ \A j \in 1 .. Len(s) : j < p => s[j] < x
          /\ \A j \in 1 .. Len(s) : j >= p => (j < m => s[j] < x) /\ (j >= m => x < s[j])
      BY <2>0, <1>8, <1>1
    <3>3. x \in Slot(S, s, m) => k < x
      <4> HAVE x \in Slot(S, s, m)
      <4>1. s[m - 1] < x  BY <2>0, <1>8
      <4>2. k < s[m - 1]  BY <2>0, <1>4
      <4> QED BY <4>1, <4>2, <1>1, <1>x, <2>0
    <3> QED BY ONLY <3>1, <3>2, <3>3
  <2> QED BY <2>0, <2>1, <1>9
<1> QED BY <1>6, <1>10, <1>11, <1>12, <1>13 DEF t
(* Five keys split around the third. *)
SplitSlots(s, S, L, R, A, B) ==
  /\ Sorted(L) /\ Sorted(R)
  /\ \A i \in 1 .. 2 : L[i] \in A /\ R[i] \in B
  /\ \A i \in 1 .. 3 : Slot(A, L, i) = Slot(S, s, i) /\ Slot(B, R, i) = Slot(S, s, i + 3)

(* The slots of the halves are those of the whole. *)
LEMMA SlotSplit ==
  ASSUME NEW s \in Seq(Int), Len(s) = 5, Sorted(s), NEW S \in SUBSET Int,
         \A i \in 1 .. 5 : s[i] \in S
  PROVE  SplitSlots(s, S, SubSeq(s, 1, 2), SubSeq(s, 4, 5),
                    {x \in S : x < s[3]}, {x \in S : x > s[3]})
<1> SUFFICES ASSUME NEW L, L = SubSeq(s, 1, 2), NEW R, R = SubSeq(s, 4, 5),
                    NEW A, A = {x \in S : x < s[3]}, NEW B, B = {x \in S : x > s[3]}
             PROVE  SplitSlots(s, S, L, R, A, B)
  OBVIOUS
<1>1. /\ DOMAIN s = 1 .. 5 /\ \A i \in 1 .. 5 : s[i] \in Int
  <2>1. s \in Seq(Int) /\ Len(s) = 5  OBVIOUS
  <2> QED BY ONLY <2>1
<1>2. /\ L \in Seq(Int) /\ Len(L) = 2 /\ \A i \in 1 .. 2 : L[i] = s[i]
  <2>1. \A i \in 1 .. 2 : s[i] \in Int  BY <1>1
  <2>2. /\ SubSeq(s, 1, 2) \in Seq(Int) /\ Len(SubSeq(s, 1, 2)) = IF 1 <= 2 THEN 2 - 1 + 1 ELSE 0
        /\ \A i \in 1 .. 2 - 1 + 1 : SubSeq(s, 1, 2)[i] = s[1 + i - 1]
    BY <2>1, SubSeqProperties
  <2> QED BY <2>2
<1>3. /\ R \in Seq(Int) /\ Len(R) = 2 /\ \A i \in 1 .. 2 : R[i] = s[i + 3]
  <2>1. \A i \in 4 .. 5 : s[i] \in Int  BY <1>1
  <2>2. /\ SubSeq(s, 4, 5) \in Seq(Int) /\ Len(SubSeq(s, 4, 5)) = IF 4 <= 5 THEN 5 - 4 + 1 ELSE 0
        /\ \A i \in 1 .. 5 - 4 + 1 : SubSeq(s, 4, 5)[i] = s[4 + i - 1]
    BY <2>1, SubSeqProperties
  <2>3. \A i \in 1 .. 2 : 4 + i - 1 = i + 3  OBVIOUS
  <2> QED BY <2>2, <2>3
<1>4. L[1] = s[1] /\ L[2] = s[2] /\ R[1] = s[4] /\ R[2] = s[5]
  <2>1. 1 \in 1 .. 2 /\ 2 \in 1 .. 2 /\ 1 + 3 = 4 /\ 2 + 3 = 5  OBVIOUS
  <2> QED BY <2>1, <1>2, <1>3
<1>5. s[1] < s[2] /\ s[2] < s[3] /\ s[3] < s[4] /\ s[4] < s[5]
  BY <1>1 DEF Sorted
<1>6. DOMAIN L = {1, 2} /\ DOMAIN R = {1, 2}
  BY <1>2, <1>3
<1>7. Sorted(L) /\ Sorted(R)
  <2>1. \A i, j \in {1, 2} : i < j => i = 1 /\ j = 2  OBVIOUS
  <2>2. L[1] < L[2] /\ R[1] < R[2]  BY <1>4, <1>5
  <2> QED BY <1>6, <2>1, <2>2 DEF Sorted
<1>8. \A i \in 1 .. 2 : L[i] \in A /\ R[i] \in B
  <2>1. s[1] \in A /\ s[2] \in A /\ s[4] \in B /\ s[5] \in B
    BY <1>1, <1>5
  <2>2. \A i \in 1 .. 2 : i = 1 \/ i = 2  OBVIOUS
  <2> QED BY <2>1, <2>2, <1>4
<1>9. ASSUME NEW x \in S, NEW i \in 1 .. 6
      PROVE  x \in Slot(S, s, i) <=>
               /\ (1 < i => s[1] < x) /\ (1 >= i => x < s[1])
               /\ (2 < i => s[2] < x) /\ (2 >= i => x < s[2])
               /\ (3 < i => s[3] < x) /\ (3 >= i => x < s[3])
               /\ (4 < i => s[4] < x) /\ (4 >= i => x < s[4])
               /\ (5 < i => s[5] < x) /\ (5 >= i => x < s[5])
  <2>1. x \in Slot(S, s, i) <=> \A j \in 1 .. 5 : (j < i => s[j] < x) /\ (j >= i => x < s[j])
    BY DEF Slot
  <2>2. 1 .. 5 = {1, 2, 3, 4, 5}  OBVIOUS
  <2> QED BY <2>1, <2>2
<1>10. ASSUME NEW x \in S, NEW i \in 1 .. 3
       PROVE  /\ x \in Slot(A, L, i) <=>
                   /\ x < s[3]
                   /\ (1 < i => s[1] < x) /\ (1 >= i => x < s[1])
                   /\ (2 < i => s[2] < x) /\ (2 >= i => x < s[2])
              /\ x \in Slot(B, R, i) <=>
                   /\ x > s[3]
                   /\ (1 < i => s[4] < x) /\ (1 >= i => x < s[4])
                   /\ (2 < i => s[5] < x) /\ (2 >= i => x < s[5])
  <2>1. /\ x \in Slot(A, L, i) <=>
             x \in A /\ \A j \in 1 .. 2 : (j < i => L[j] < x) /\ (j >= i => x < L[j])
        /\ x \in Slot(B, R, i) <=>
             x \in B /\ \A j \in 1 .. 2 : (j < i => R[j] < x) /\ (j >= i => x < R[j])
    BY <1>2, <1>3 DEF Slot
  <2>2. 1 .. 2 = {1, 2}  OBVIOUS
  <2>3. (x \in A <=> x < s[3]) /\ (x \in B <=> x > s[3])
    OBVIOUS
  <2> QED BY ONLY <2>1, <2>2, <2>3, <1>4
<1>11. ASSUME NEW i \in 1 .. 3
       PROVE  Slot(A, L, i) = Slot(S, s, i) /\ Slot(B, R, i) = Slot(S, s, i + 3)
  <2>1. ASSUME NEW x \in S
        PROVE  /\ x \in Slot(A, L, i) <=> x \in Slot(S, s, i)
               /\ x \in Slot(B, R, i) <=> x \in Slot(S, s, i + 3)
    <3>0. i \in 1 .. 6 /\ i + 3 \in 1 .. 6 /\ x \in Int  OBVIOUS
    <3>1. s[1] \in Int /\ s[2] \in Int /\ s[3] \in Int /\ s[4] \in Int /\ s[5] \in Int
      BY <1>1
    <3>2. /\ x \in Slot(A, L, i) <=>
                   /\ x < s[3]
                   /\ (1 < i => s[1] < x) /\ (1 >= i => x < s[1])
                   /\ (2 < i => s[2] < x) /\ (2 >= i => x < s[2])
          /\ x \in Slot(B, R, i) <=>
                   /\ x > s[3]
                   /\ (1 < i => s[4] < x) /\ (1 >= i => x < s[4])
                   /\ (2 < i => s[5] < x) /\ (2 >= i => x < s[5])
      BY <1>10
    <3>3. x \in Slot(S, s, i) <=>
               /\ (1 < i => s[1] < x) /\ (1 >= i => x < s[1])
               /\ (2 < i => s[2] < x) /\ (2 >= i => x < s[2])
               /\ (3 < i => s[3] < x) /\ (3 >= i => x < s[3])
               /\ (4 < i => s[4] < x) /\ (4 >= i => x < s[4])
               /\ (5 < i => s[5] < x) /\ (5 >= i => x < s[5])
      BY <3>0, <1>9
    <3>4. x \in Slot(S, s, i + 3) <=>
               /\ (1 < i + 3 => s[1] < x) /\ (1 >= i + 3 => x < s[1])
               /\ (2 < i + 3 => s[2] < x) /\ (2 >= i + 3 => x < s[2])
               /\ (3 < i + 3 => s[3] < x) /\ (3 >= i + 3 => x < s[3])
               /\ (4 < i + 3 => s[4] < x) /\ (4 >= i + 3 => x < s[4])
               /\ (5 < i + 3 => s[5] < x) /\ (5 >= i + 3 => x < s[5])
      BY <3>0, <1>9
    <3>5. i = 1 \/ i = 2 \/ i = 3  OBVIOUS
    <3>6. CASE i = 1  BY ONLY <3>6, <3>0, <3>1, <3>2, <3>3, <3>4, <1>5, SMTT(60)
    <3>7. CASE i = 2  BY ONLY <3>7, <3>0, <3>1, <3>2, <3>3, <3>4, <1>5, SMTT(60)
    <3>8. CASE i = 3  BY ONLY <3>8, <3>0, <3>1, <3>2, <3>3, <3>4, <1>5, SMTT(60)
    <3> QED BY ONLY <3>5, <3>6, <3>7, <3>8
  <2>2. Slot(A, L, i) \subseteq S /\ Slot(B, R, i) \subseteq S
        /\ Slot(S, s, i) \subseteq S /\ Slot(S, s, i + 3) \subseteq S
    BY DEF Slot
  <2> QED BY <2>1, <2>2
<1> QED BY ONLY <1>7, <1>8, <1>11 DEF SplitSlots
-----------------------------------------------------------------------------
(* The B-tree: one node.  Its height is h, searches for the keys of S come *)
(* to it, ht and seen say of every node how high it is and for which keys  *)
(* its parent goes on to it.                                               *)

(* Of a node: its keys, and its kids by number, 0 for none. *)
Node == [keys : Seq(Int), kids : Seq(Nat)]

(* A kid is one level down and is searched for the keys of its slot. *)
SlotOK(c, T, h, N, ht, seen) ==
  IF h = 0 THEN c = 0 ELSE c \in 1 .. N /\ ht[c] = h - 1 /\ seen[c] = T

(* A sound node. *)
NodeOK(n, S, h, N, ht, seen) ==
  /\ Len(n.kids) = Len(n.keys) + 1
  /\ Sorted(n.keys)
  /\ \A i \in 1 .. Len(n.keys) : n.keys[i] \in S
  /\ \A i \in 1 .. Len(n.kids) : SlotOK(n.kids[i], Slot(S, n.keys, i), h, N, ht, seen)

(* What the type of a node says. *)
LEMMA NodeFacts ==
  ASSUME NEW n \in Node
  PROVE  /\ n.keys \in Seq(Int) /\ n.kids \in Seq(Nat)
         /\ Len(n.keys) \in Nat /\ Len(n.kids) \in Nat
         /\ DOMAIN n.keys = 1 .. Len(n.keys) /\ DOMAIN n.kids = 1 .. Len(n.kids)
         /\ \A i \in 1 .. Len(n.keys) : n.keys[i] \in Int
         /\ \A i \in 1 .. Len(n.kids) : n.kids[i] \in Nat
<1>1. n.keys \in Seq(Int) /\ n.kids \in Seq(Nat)
  BY DEF Node
<1> QED BY <1>1

(* What is seen of the kids decides. *)
LEMMA NodeKeep ==
  ASSUME NEW n \in Node, NEW S, NEW h, NEW N \in Nat, NEW ht, NEW seen,
         NodeOK(n, S, h, N, ht, seen),
         NEW M \in Nat, M >= N, NEW ht2, NEW seen2,
         \A i \in 1 .. Len(n.kids) : n.kids[i] # 0 =>
           ht2[n.kids[i]] = ht[n.kids[i]] /\ seen2[n.kids[i]] = seen[n.kids[i]]
  PROVE  NodeOK(n, S, h, M, ht2, seen2)
<1>1. ASSUME NEW i \in 1 .. Len(n.kids)
      PROVE  SlotOK(n.kids[i], Slot(S, n.keys, i), h, M, ht2, seen2)
  <2>1. SlotOK(n.kids[i], Slot(S, n.keys, i), h, N, ht, seen)
    BY DEF NodeOK
  <2> QED BY <2>1 DEF SlotOK
<1> QED BY <1>1 DEF NodeOK

(* Node n with key k at place p and rp behind it (b_addData). *)
Put(n, p, k, rp) ==
  [keys |-> InsertAt(n.keys, p, k), kids |-> InsertAt(n.kids, p + 1, rp)]

(* Putting a key into a node inserts it, and rp behind it. *)
LEMMA PutIs ==
  ASSUME NEW n \in Node, Len(n.kids) = Len(n.keys) + 1,
         NEW p \in 1 .. Len(n.keys) + 1, NEW k \in Int, NEW rp \in Nat
  PROVE  /\ Put(n, p, k, rp) \in Node
         /\ Inserted(Put(n, p, k, rp).keys, n.keys, p, k)
         /\ Inserted(Put(n, p, k, rp).kids, n.kids, p + 1, rp)
<1>1. n.keys \in Seq(Int) /\ n.kids \in Seq(Nat) /\ p + 1 \in 1 .. Len(n.kids) + 1
  BY NodeFacts
<1>2. InsertAt(n.keys, p, k) \in Seq(Int) /\ Inserted(InsertAt(n.keys, p, k), n.keys, p, k)
  BY <1>1, InsertAtIs, Zenon
<1>3. InsertAt(n.kids, p + 1, rp) \in Seq(Nat) /\ Inserted(InsertAt(n.kids, p + 1, rp), n.kids, p + 1, rp)
  BY <1>1, InsertAtIs, Zenon
<1>4. Put(n, p, k, rp).keys = InsertAt(n.keys, p, k) /\ Put(n, p, k, rp).kids = InsertAt(n.kids, p + 1, rp)
  BY DEF Put
<1>5. Put(n, p, k, rp) \in Node
  BY <1>2, <1>3, Zenon DEF Put, Node
<1> QED BY <1>2, <1>3, <1>4, <1>5

(* A key and what is behind it go into the slot they came from. *)
LEMMA PutOK ==
  ASSUME NEW n \in Node, NEW S \in SUBSET Int, NEW h, NEW N, NEW ht, NEW seen, NEW own,
         NodeOK(n, S, h, N, ht, seen),
         NEW p \in 1 .. Len(n.keys) + 1, NEW k \in Int, k \in Slot(S, n.keys, p), NEW rp \in Nat,
         \A i \in 1 .. Len(n.kids) : i # p => SlotOK(n.kids[i], Slot(S, n.keys, i), h, N, ht, own),
         SlotOK(n.kids[p], {x \in Slot(S, n.keys, p) : x < k}, h, N, ht, own),
         SlotOK(rp, {x \in Slot(S, n.keys, p) : x > k}, h, N, ht, own)
  PROVE  NodeOK(Put(n, p, k, rp), S, h, N, ht, own)
<1> DEFINE m == Put(n, p, k, rp)
<1>1. /\ Len(n.kids) = Len(n.keys) + 1 /\ Sorted(n.keys)
      /\ \A i \in 1 .. Len(n.keys) : n.keys[i] \in S
  BY DEF NodeOK
<1>2. /\ m \in Node
      /\ Inserted(m.keys, n.keys, p, k) /\ Inserted(m.kids, n.kids, p + 1, rp)
  BY <1>1, PutIs
<1>3. m.keys = InsertAt(n.keys, p, k)
  BY DEF Put
<1> HIDE DEF m
<1>4. /\ n.keys \in Seq(Int) /\ Len(n.keys) \in Nat /\ Len(n.kids) \in Nat
  BY NodeFacts
<1>5. /\ Sorted(m.keys)
      /\ Slot(S, m.keys, p) = {x \in Slot(S, n.keys, p) : x < k}
      /\ Slot(S, m.keys, p + 1) = {x \in Slot(S, n.keys, p) : x > k}
      /\ \A i \in 1 .. p - 1 : Slot(S, m.keys, i) = Slot(S, n.keys, i)
      /\ \A i \in p + 1 .. Len(n.keys) + 1 : Slot(S, m.keys, i + 1) = Slot(S, n.keys, i)
  BY <1>1, <1>3, <1>4, SlotInsert
<1>6. Len(m.keys) = Len(n.keys) + 1 /\ Len(m.kids) = Len(n.kids) + 1
  BY <1>2 DEF Inserted
<1>7. ASSUME NEW i \in 1 .. Len(m.keys) PROVE m.keys[i] \in S
  <2>1. /\ m.keys[p] = k
        /\ \A j \in 1 .. Len(n.keys) : (j < p => m.keys[j] = n.keys[j]) /\ (j >= p => m.keys[j + 1] = n.keys[j])
    BY <1>2 DEF Inserted
  <2>2. k \in S
    BY DEF Slot
  <2>3. CASE i < p
    <3>1. i \in 1 .. Len(n.keys)  BY <2>3, <1>4
    <3> QED BY <3>1, <2>1, <2>3, <1>1
  <2>4. CASE i = p  BY <2>4, <2>1, <2>2
  <2>5. CASE i > p
    <3>1. i - 1 \in 1 .. Len(n.keys) /\ i - 1 >= p /\ (i - 1) + 1 = i  BY <2>5, <1>4, <1>6
    <3>2. m.keys[i] = n.keys[i - 1]  BY <3>1, <2>1
    <3> QED BY <3>1, <3>2, <1>1
  <2>6. i \in Int /\ p \in Int  BY <1>4, <1>6
  <2> QED BY <2>3, <2>4, <2>5, <2>6
<1>8. ASSUME NEW i \in 1 .. Len(m.kids)
      PROVE  SlotOK(m.kids[i], Slot(S, m.keys, i), h, N, ht, own)
  <2>1. /\ m.kids[p + 1] = rp
        /\ \A j \in 1 .. Len(n.kids) : (j < p + 1 => m.kids[j] = n.kids[j]) /\ (j >= p + 1 => m.kids[j + 1] = n.kids[j])
    BY <1>2 DEF Inserted
  <2>2. i \in Int /\ p \in Int /\ i >= 1 /\ i <= Len(n.keys) + 2  BY <1>1, <1>4, <1>6
  <2>3. CASE i < p
    <3>1. i \in 1 .. Len(n.kids) /\ i \in 1 .. p - 1 /\ i # p /\ i < p + 1  BY <2>2, <2>3, <1>1, <1>4
    <3>2. m.kids[i] = n.kids[i] /\ Slot(S, m.keys, i) = Slot(S, n.keys, i)
      BY <3>1, <2>1, <1>5
    <3> QED BY <3>1, <3>2
  <2>4. CASE i = p
    <3>1. p \in 1 .. Len(n.kids) /\ p < p + 1  BY <1>1, <1>4
    <3>2. m.kids[p] = n.kids[p]  BY <3>1, <2>1
    <3> QED BY <3>2, <2>4, <1>5
  <2>5. CASE i = p + 1
    <3>1. m.kids[i] = rp  BY <2>5, <2>1
    <3>2. Slot(S, m.keys, i) = {x \in Slot(S, n.keys, p) : x > k}  BY <2>5, <1>5
    <3> QED BY <3>1, <3>2
  <2>6. CASE i > p + 1
    <3>1. /\ i - 1 \in 1 .. Len(n.kids) /\ i - 1 \in p + 1 .. Len(n.keys) + 1 /\ i - 1 # p
          /\ i - 1 >= p + 1 /\ (i - 1) + 1 = i
      BY <2>2, <2>6, <1>1, <1>4
    <3>2. m.kids[i] = n.kids[i - 1]  BY <3>1, <2>1
    <3>3. Slot(S, m.keys, i) = Slot(S, n.keys, i - 1)  BY <3>1, <1>5
    <3> QED BY <3>1, <3>2, <3>3
  <2>7. i < p \/ i = p \/ i = p + 1 \/ i > p + 1  BY <2>2
  <2> QED BY ONLY <2>3, <2>4, <2>5, <2>6, <2>7
<1> QED BY <1>1, <1>5, <1>6, <1>7, <1>8 DEF NodeOK, m
(* The halves of a node of five keys. *)
Left(n) == [keys |-> SubSeq(n.keys, 1, 2), kids |-> SubSeq(n.kids, 1, 3)]
Right(n) == [keys |-> SubSeq(n.keys, 4, 5), kids |-> SubSeq(n.kids, 4, 6)]

(* The halves are nodes that have the keys and kids of the whole. *)
LEMMA HalvesAre ==
  ASSUME NEW n \in Node, Len(n.keys) = 5, Len(n.kids) = 6
  PROVE  /\ Left(n) \in Node /\ Right(n) \in Node
         /\ Len(Left(n).keys) = 2 /\ Len(Left(n).kids) = 3
         /\ Len(Right(n).keys) = 2 /\ Len(Right(n).kids) = 3
         /\ \A i \in 1 .. 2 : Left(n).keys[i] = n.keys[i] /\ Right(n).keys[i] = n.keys[i + 3]
         /\ \A i \in 1 .. 3 : Left(n).kids[i] = n.kids[i] /\ Right(n).kids[i] = n.kids[i + 3]
<1>1. /\ \A i \in 1 .. 5 : n.keys[i] \in Int
      /\ \A i \in 1 .. 6 : n.kids[i] \in Nat
  BY NodeFacts
<1>2. /\ SubSeq(n.keys, 1, 2) \in Seq(Int) /\ Len(SubSeq(n.keys, 1, 2)) = 2
      /\ \A i \in 1 .. 2 : SubSeq(n.keys, 1, 2)[i] = n.keys[i]
  <2>1. \A i \in 1 .. 2 : n.keys[i] \in Int  BY <1>1
  <2>2. /\ SubSeq(n.keys, 1, 2) \in Seq(Int) /\ Len(SubSeq(n.keys, 1, 2)) = IF 1 <= 2 THEN 2 - 1 + 1 ELSE 0
        /\ \A i \in 1 .. 2 - 1 + 1 : SubSeq(n.keys, 1, 2)[i] = n.keys[1 + i - 1]
    BY <2>1, SubSeqProperties
  <2>3. \A i \in 1 .. 2 : 1 + i - 1 = i  OBVIOUS
  <2> QED BY <2>2, <2>3
<1>3. /\ SubSeq(n.keys, 4, 5) \in Seq(Int) /\ Len(SubSeq(n.keys, 4, 5)) = 2
      /\ \A i \in 1 .. 2 : SubSeq(n.keys, 4, 5)[i] = n.keys[i + 3]
  <2>1. \A i \in 4 .. 5 : n.keys[i] \in Int  BY <1>1
  <2>2. /\ SubSeq(n.keys, 4, 5) \in Seq(Int) /\ Len(SubSeq(n.keys, 4, 5)) = IF 4 <= 5 THEN 5 - 4 + 1 ELSE 0
        /\ \A i \in 1 .. 5 - 4 + 1 : SubSeq(n.keys, 4, 5)[i] = n.keys[4 + i - 1]
    BY <2>1, SubSeqProperties
  <2>3. \A i \in 1 .. 2 : 4 + i - 1 = i + 3  OBVIOUS
  <2> QED BY <2>2, <2>3
<1>4. /\ SubSeq(n.kids, 1, 3) \in Seq(Nat) /\ Len(SubSeq(n.kids, 1, 3)) = 3
      /\ \A i \in 1 .. 3 : SubSeq(n.kids, 1, 3)[i] = n.kids[i]
  <2>1. \A i \in 1 .. 3 : n.kids[i] \in Nat  BY <1>1
  <2>2. /\ SubSeq(n.kids, 1, 3) \in Seq(Nat) /\ Len(SubSeq(n.kids, 1, 3)) = IF 1 <= 3 THEN 3 - 1 + 1 ELSE 0
        /\ \A i \in 1 .. 3 - 1 + 1 : SubSeq(n.kids, 1, 3)[i] = n.kids[1 + i - 1]
    BY <2>1, SubSeqProperties
  <2>3. \A i \in 1 .. 3 : 1 + i - 1 = i  OBVIOUS
  <2> QED BY <2>2, <2>3
<1>5. /\ SubSeq(n.kids, 4, 6) \in Seq(Nat) /\ Len(SubSeq(n.kids, 4, 6)) = 3
      /\ \A i \in 1 .. 3 : SubSeq(n.kids, 4, 6)[i] = n.kids[i + 3]
  <2>1. \A i \in 4 .. 6 : n.kids[i] \in Nat  BY <1>1
  <2>2. /\ SubSeq(n.kids, 4, 6) \in Seq(Nat) /\ Len(SubSeq(n.kids, 4, 6)) = IF 4 <= 6 THEN 6 - 4 + 1 ELSE 0
        /\ \A i \in 1 .. 6 - 4 + 1 : SubSeq(n.kids, 4, 6)[i] = n.kids[4 + i - 1]
    BY <2>1, SubSeqProperties
  <2>3. \A i \in 1 .. 3 : 4 + i - 1 = i + 3  OBVIOUS
  <2> QED BY <2>2, <2>3
<1>6. /\ Left(n).keys = SubSeq(n.keys, 1, 2) /\ Left(n).kids = SubSeq(n.kids, 1, 3)
      /\ Right(n).keys = SubSeq(n.keys, 4, 5) /\ Right(n).kids = SubSeq(n.kids, 4, 6)
  BY DEF Left, Right
<1>7. Left(n) \in Node /\ Right(n) \in Node
  BY <1>2, <1>3, <1>4, <1>5, Zenon DEF Left, Right, Node
<1> QED BY <1>2, <1>3, <1>4, <1>5, <1>6, <1>7

(* A sound node has sound halves. *)
LEMMA HalvesOK ==
  ASSUME NEW n \in Node, Len(n.keys) = 5, NEW S \in SUBSET Int, NEW h, NEW N, NEW ht, NEW seen,
         NodeOK(n, S, h, N, ht, seen)
  PROVE  /\ NodeOK(Left(n), {x \in S : x < n.keys[3]}, h, N, ht, seen)
         /\ NodeOK(Right(n), {x \in S : x > n.keys[3]}, h, N, ht, seen)
<1> DEFINE A == {x \in S : x < n.keys[3]}
           B == {x \in S : x > n.keys[3]}
           L == Left(n)
           R == Right(n)
<1>1. /\ Len(n.kids) = 6 /\ Sorted(n.keys) /\ n.keys \in Seq(Int)
      /\ \A i \in 1 .. 5 : n.keys[i] \in S
      /\ \A i \in 1 .. 6 : SlotOK(n.kids[i], Slot(S, n.keys, i), h, N, ht, seen)
  BY NodeFacts DEF NodeOK
<1>2. /\ Len(L.keys) = 2 /\ Len(L.kids) = 3 /\ Len(R.keys) = 2 /\ Len(R.kids) = 3
      /\ \A i \in 1 .. 3 : L.kids[i] = n.kids[i] /\ R.kids[i] = n.kids[i + 3]
  BY <1>1, HalvesAre
<1>3. L.keys = SubSeq(n.keys, 1, 2) /\ R.keys = SubSeq(n.keys, 4, 5)
  BY DEF Left, Right
<1> HIDE DEF L, R
<1>4. A = {x \in S : x < n.keys[3]} /\ B = {x \in S : x > n.keys[3]}
  OBVIOUS
<1> HIDE DEF A, B
<1>5. /\ Sorted(L.keys) /\ Sorted(R.keys)
      /\ \A i \in 1 .. 2 : L.keys[i] \in A /\ R.keys[i] \in B
      /\ \A i \in 1 .. 3 : /\ Slot(A, L.keys, i) = Slot(S, n.keys, i)
                           /\ Slot(B, R.keys, i) = Slot(S, n.keys, i + 3)
  <2>1. SplitSlots(n.keys, S, SubSeq(n.keys, 1, 2), SubSeq(n.keys, 4, 5),
                   {x \in S : x < n.keys[3]}, {x \in S : x > n.keys[3]})
    BY <1>1, SlotSplit, Zenon
  <2>2. SplitSlots(n.keys, S, L.keys, R.keys, A, B)
    BY <2>1, <1>3, <1>4
  <2> QED BY ONLY <2>2 DEF SplitSlots
<1>6. \A i \in 1 .. 3 : SlotOK(L.kids[i], Slot(A, L.keys, i), h, N, ht, seen)
  <2> TAKE i \in 1 .. 3
  <2>1. i \in 1 .. 6  OBVIOUS
  <2> QED BY <2>1, <1>1, <1>2, <1>5
<1>7. \A i \in 1 .. 3 : SlotOK(R.kids[i], Slot(B, R.keys, i), h, N, ht, seen)
  <2> TAKE i \in 1 .. 3
  <2>1. i + 3 \in 1 .. 6  OBVIOUS
  <2> QED BY <2>1, <1>1, <1>2, <1>5
<1>8. NodeOK(L, A, h, N, ht, seen)
  BY <1>2, <1>5, <1>6 DEF NodeOK
<1>9. NodeOK(R, B, h, N, ht, seen)
  BY <1>2, <1>5, <1>7 DEF NodeOK
<1> QED BY <1>8, <1>9 DEF A, B, L, R

-----------------------------------------------------------------------------
(* The B-tree: all nodes.  own is for which keys searches come to a node,  *)
(* seen what its parent has for it: they differ only for a node that was   *)
(* split and whose right half is not yet behind it in the parent.          *)

(* No node is the kid of two, nor twice of one. *)
Unique(ns) ==
  \A p, q \in 1 .. Len(ns) :
    \A i \in 1 .. Len(ns[p].kids), j \in 1 .. Len(ns[q].kids) :
      ns[p].kids[i] = ns[q].kids[j] /\ ns[p].kids[i] # 0 => p = q /\ i = j

(* Two kids that are the same node are in the same place. *)
SamePlace(a, b, i, j) == a = b /\ i = j

LEMMA UniqueAt ==
  ASSUME NEW ns, Unique(ns), NEW a \in 1 .. Len(ns), NEW b \in 1 .. Len(ns),
         NEW i \in 1 .. Len(ns[a].kids), NEW j \in 1 .. Len(ns[b].kids),
         ns[a].kids[i] = ns[b].kids[j], ns[a].kids[i] # 0
  PROVE  SamePlace(a, b, i, j)
<1>1. \A q \in 1 .. Len(ns) :
        \A x \in 1 .. Len(ns[a].kids), y \in 1 .. Len(ns[q].kids) :
          ns[a].kids[x] = ns[q].kids[y] /\ ns[a].kids[x] # 0 => a = q /\ x = y
  BY Zenon DEF Unique
<1>2. \A x \in 1 .. Len(ns[a].kids), y \in 1 .. Len(ns[b].kids) :
        ns[a].kids[x] = ns[b].kids[y] /\ ns[a].kids[x] # 0 => a = b /\ x = y
  BY <1>1, Zenon
<1>3. a = b /\ i = j  BY <1>2, Zenon
<1> QED BY <1>3 DEF SamePlace

(* Node c is a kid of some node. *)
HasParent(ns, c) ==
  \E p \in 1 .. Len(ns) : \E i \in 1 .. Len(ns[p].kids) : ns[p].kids[i] = c

(* All nodes but the root and x are behind a key of another. *)
Parented(ns, r, x) == \A c \in 1 .. Len(ns) : c # r /\ c # x => HasParent(ns, c)

(* The keys of all nodes. *)
AllKeys(ns) == {k \in Int : \E id \in 1 .. Len(ns) : Holds(ns[id], k)}

(* How full the nodes are. *)
Sizes(ns, r) ==
  \A id \in 1 .. Len(ns) :
    Len(ns[id].keys) <= 4 /\ (id # r => Len(ns[id].keys) >= 2)

(* Every node is sound, and none higher than the root. *)
Tree(ns, r, ht, own, seen) ==
  /\ ns \in Seq(Node) /\ r \in 1 .. Len(ns)
  /\ ht \in [1 .. Len(ns) -> Nat]
  /\ own \in [1 .. Len(ns) -> SUBSET Int] /\ seen \in [1 .. Len(ns) -> SUBSET Int]
  /\ seen[r] = Int
  /\ \A id \in 1 .. Len(ns) : ht[id] <= ht[r]
  /\ \A id \in 1 .. Len(ns) : NodeOK(ns[id], own[id], ht[id], Len(ns), ht, seen)
  /\ Unique(ns)

(* Node c was split: k and rp are still to be put behind it. *)
Pending(ns, r, ht, own, seen, c, k, rp) ==
  /\ c \in 1 .. Len(ns) /\ rp \in 1 .. Len(ns) /\ rp # c /\ rp # r /\ ht[rp] = ht[c]
  /\ \A id \in 1 .. Len(ns) : id # c => seen[id] = own[id]
  /\ k \in seen[c]
  /\ own[c] = {x \in seen[c] : x < k}
  /\ own[rp] = {x \in seen[c] : x > k}
  /\ ~HasParent(ns, rp)

(* What the type of the nodes says. *)
LEMMA TreeFacts ==
  ASSUME NEW ns \in Seq(Node)
  PROVE  /\ Len(ns) \in Nat /\ DOMAIN ns = 1 .. Len(ns)
         /\ \A id \in 1 .. Len(ns) :
              /\ ns[id] \in Node
              /\ Len(ns[id].keys) \in Nat /\ Len(ns[id].kids) \in Nat
              /\ \A i \in 1 .. Len(ns[id].kids) : ns[id].kids[i] \in Nat
<1>1. /\ Len(ns) \in Nat /\ DOMAIN ns = 1 .. Len(ns)
      /\ \A id \in 1 .. Len(ns) : ns[id] \in Node
  OBVIOUS
<1> QED BY <1>1, NodeFacts
(* One node changed. *)
Changed(ms, ns, id, n) ==
  /\ ms \in Seq(Node) /\ Len(ms) = Len(ns)
  /\ ms[id] = n
  /\ \A j \in 1 .. Len(ns) : j # id => ms[j] = ns[j]

(* EXCEPT changes one node. *)
LEMMA ExceptChanged ==
  ASSUME NEW ns \in Seq(Node), NEW id \in 1 .. Len(ns), NEW n \in Node
  PROVE  Changed([ns EXCEPT ![id] = n], ns, id, n)
<1>1. /\ [ns EXCEPT ![id] = n] \in Seq(Node)
      /\ Len([ns EXCEPT ![id] = n]) = Len(ns)
      /\ \A j \in 1 .. Len(ns) : [ns EXCEPT ![id] = n][j] = IF j = id THEN n ELSE ns[j]
  BY ExceptSeq
<1> QED BY <1>1 DEF Changed

(* Where a kid was before one more was put in. *)
WasAt(ns, ms, id, u, rp, a, i) ==
  \/ a = id /\ i = u /\ ms[a].kids[i] = rp
  \/ \E j \in 1 .. Len(ns[a].kids) :
       /\ ns[a].kids[j] = ms[a].kids[i]
       /\ i = IF a = id /\ j >= u THEN j + 1 ELSE j

(* Each kid was there before or is the one put in. *)
LEMMA PutSlots ==
  ASSUME NEW ns \in Seq(Node), NEW id \in 1 .. Len(ns), NEW n \in Node,
         NEW u \in 1 .. Len(ns[id].kids) + 1, NEW rp \in Nat,
         Inserted(n.kids, ns[id].kids, u, rp),
         NEW ms, Changed(ms, ns, id, n),
         NEW a \in 1 .. Len(ms), NEW i \in 1 .. Len(ms[a].kids)
  PROVE  WasAt(ns, ms, id, u, rp, a, i)
<1> USE DEF WasAt
<1>1. a \in 1 .. Len(ns) /\ Len(ns[id].kids) \in Nat
  BY TreeFacts DEF Changed
<1>2. CASE a # id
  <2>1. ms[a] = ns[a]  BY <1>1, <1>2 DEF Changed
  <2> QED BY <2>1, <1>2
<1>3. CASE a = id
  <2>1. ms[a] = n  BY <1>3 DEF Changed
  <2>2. /\ Len(n.kids) = Len(ns[id].kids) + 1 /\ n.kids[u] = rp
        /\ \A j \in 1 .. Len(ns[id].kids) :
             (j < u => n.kids[j] = ns[id].kids[j]) /\ (j >= u => n.kids[j + 1] = ns[id].kids[j])
    BY DEF Inserted
  <2>3. i \in Int /\ u \in Int /\ i >= 1 /\ i <= Len(ns[id].kids) + 1
    BY <2>1, <2>2, <1>1
  <2>4. CASE i < u
    <3>1. i \in 1 .. Len(ns[id].kids) /\ ~(i >= u)  BY <2>3, <2>4, <1>1
    <3>2. ns[id].kids[i] = n.kids[i]  BY <3>1, <2>2, <2>4
    <3> QED BY <3>1, <3>2, <2>1, <1>3
  <2>5. CASE i = u
    BY <2>5, <2>1, <2>2, <1>3
  <2>6. CASE i > u
    <3>1. i - 1 \in 1 .. Len(ns[id].kids) /\ i - 1 >= u /\ (i - 1) + 1 = i  BY <2>3, <2>6, <1>1
    <3>2. ns[id].kids[i - 1] = n.kids[i]  BY <3>1, <2>2
    <3> QED BY <3>1, <3>2, <2>1, <1>3
  <2> QED BY <2>3, <2>4, <2>5, <2>6
<1> QED BY <1>2, <1>3

(* The kid put in had no parent, so it has one now. *)
LEMMA PutUnique ==
  ASSUME NEW ns \in Seq(Node), NEW id \in 1 .. Len(ns), NEW n \in Node,
         NEW u \in 1 .. Len(ns[id].kids) + 1, NEW rp \in Nat,
         Inserted(n.kids, ns[id].kids, u, rp),
         NEW ms, Changed(ms, ns, id, n),
         Unique(ns), rp = 0 \/ ~HasParent(ns, rp)
  PROVE  Unique(ms)
<1> SUFFICES ASSUME NEW a \in 1 .. Len(ms), NEW b \in 1 .. Len(ms),
                    NEW i \in 1 .. Len(ms[a].kids), NEW j \in 1 .. Len(ms[b].kids),
                    ms[a].kids[i] = ms[b].kids[j], ms[a].kids[i] # 0
             PROVE  a = b /\ i = j
  BY DEF Unique
<1>0. a \in 1 .. Len(ns) /\ b \in 1 .. Len(ns)
  BY DEF Changed
<1>1. \/ a = id /\ i = u /\ ms[a].kids[i] = rp
      \/ \E x \in 1 .. Len(ns[a].kids) :
           /\ ns[a].kids[x] = ms[a].kids[i]
           /\ i = IF a = id /\ x >= u THEN x + 1 ELSE x
  <2>1. WasAt(ns, ms, id, u, rp, a, i)  BY PutSlots, Zenon
  <2> QED BY <2>1 DEF WasAt
<1>2. \/ b = id /\ j = u /\ ms[b].kids[j] = rp
      \/ \E x \in 1 .. Len(ns[b].kids) :
           /\ ns[b].kids[x] = ms[b].kids[j]
           /\ j = IF b = id /\ x >= u THEN x + 1 ELSE x
  <2>1. WasAt(ns, ms, id, u, rp, b, j)  BY PutSlots, Zenon
  <2> QED BY <2>1 DEF WasAt
<1>3. \A c \in 1 .. Len(ns) : \A x \in 1 .. Len(ns[c].kids) :
        ns[c].kids[x] = ms[a].kids[i] => rp # ms[a].kids[i]
  BY DEF HasParent
<1>4. CASE a = id /\ i = u /\ ms[a].kids[i] = rp
  <2>1. ~ \E x \in 1 .. Len(ns[b].kids) : ns[b].kids[x] = ms[b].kids[j]
    BY <1>0, <1>3, <1>4
  <2> QED BY <2>1, <1>2, <1>4
<1>5. CASE b = id /\ j = u /\ ms[b].kids[j] = rp
  <2>1. ~ \E x \in 1 .. Len(ns[a].kids) : ns[a].kids[x] = ms[a].kids[i]
    BY <1>0, <1>3, <1>5
  <2> QED BY <2>1, <1>1, <1>5
<1>6. CASE /\ \E x \in 1 .. Len(ns[a].kids) :
                /\ ns[a].kids[x] = ms[a].kids[i]
                /\ i = IF a = id /\ x >= u THEN x + 1 ELSE x
           /\ \E x \in 1 .. Len(ns[b].kids) :
                /\ ns[b].kids[x] = ms[b].kids[j]
                /\ j = IF b = id /\ x >= u THEN x + 1 ELSE x
  <2>1. PICK x \in 1 .. Len(ns[a].kids) :
                /\ ns[a].kids[x] = ms[a].kids[i]
                /\ i = IF a = id /\ x >= u THEN x + 1 ELSE x
    BY <1>6
  <2>2. PICK y \in 1 .. Len(ns[b].kids) :
                /\ ns[b].kids[y] = ms[b].kids[j]
                /\ j = IF b = id /\ y >= u THEN y + 1 ELSE y
    BY <1>6
  <2>3. ns[a].kids[x] = ns[b].kids[y] /\ ns[a].kids[x] # 0
    BY <2>1, <2>2
  <2>5. Unique(ns) /\ x \in 1 .. Len(ns[a].kids) /\ y \in 1 .. Len(ns[b].kids)
    OBVIOUS
  <2>4. a = b /\ x = y
    <3>1. SamePlace(a, b, x, y)  BY <2>3, <2>5, <1>0, UniqueAt, Zenon
    <3> QED BY <3>1 DEF SamePlace
  <2> QED BY <2>1, <2>2, <2>4
<1> QED BY <1>1, <1>2, <1>4, <1>5, <1>6

(* The kid put in has a parent, and the others keep theirs. *)
LEMMA PutParents ==
  ASSUME NEW ns \in Seq(Node), NEW id \in 1 .. Len(ns), NEW n \in Node,
         NEW u \in 1 .. Len(ns[id].kids) + 1, NEW rp \in Nat,
         Inserted(n.kids, ns[id].kids, u, rp),
         NEW ms, Changed(ms, ns, id, n)
  PROVE  HasParent(ms, rp) /\ \A c : HasParent(ns, c) => HasParent(ms, c)
<1>0. Len(ms) = Len(ns) /\ Len(ns[id].kids) \in Nat
  BY TreeFacts DEF Changed
<1>1. /\ Len(n.kids) = Len(ns[id].kids) + 1 /\ n.kids[u] = rp
      /\ \A j \in 1 .. Len(ns[id].kids) :
           (j < u => n.kids[j] = ns[id].kids[j]) /\ (j >= u => n.kids[j + 1] = ns[id].kids[j])
  BY DEF Inserted
<1>2. ms[id] = n /\ \A j \in 1 .. Len(ns) : j # id => ms[j] = ns[j]
  BY DEF Changed
<1>3. HasParent(ms, rp)
  BY <1>0, <1>1, <1>2 DEF HasParent
<1>4. ASSUME NEW c, HasParent(ns, c) PROVE HasParent(ms, c)
  <2>1. PICK p \in 1 .. Len(ns) : \E i \in 1 .. Len(ns[p].kids) : ns[p].kids[i] = c
    BY <1>4 DEF HasParent
  <2>2. PICK i \in 1 .. Len(ns[p].kids) : ns[p].kids[i] = c
    BY <2>1
  <2>3. CASE p # id  BY <2>1, <2>2, <2>3, <1>0, <1>2 DEF HasParent
  <2>4. CASE p = id
    <3>0. i \in Int /\ u \in Int /\ i \in 1 .. Len(ns[id].kids)  BY <2>4, <1>0
    <3>1. CASE i < u
      <4>1. i \in 1 .. Len(n.kids) /\ n.kids[i] = c  BY <3>0, <3>1, <2>2, <2>4, <1>0, <1>1
      <4> QED BY <4>1, <1>0, <1>2 DEF HasParent
    <3>2. CASE i >= u
      <4>1. i + 1 \in 1 .. Len(n.kids) /\ n.kids[i + 1] = c  BY <3>0, <3>2, <2>2, <2>4, <1>0, <1>1
      <4> QED BY <4>1, <1>0, <1>2 DEF HasParent
    <3> QED BY <3>0, <3>1, <3>2
  <2> QED BY <2>3, <2>4
<1> QED BY <1>3, <1>4

(* The keys of ms are those of ns and k. *)
Grows(ms, ns, k) == AllKeys(ms) = AllKeys(ns) \cup {k}

(* The keys of the tree are those it had and the new one. *)
LEMMA PutKeys ==
  ASSUME NEW ns \in Seq(Node), NEW id \in 1 .. Len(ns), NEW n \in Node,
         NEW p \in 1 .. Len(ns[id].keys) + 1, NEW k \in Int,
         Inserted(n.keys, ns[id].keys, p, k),
         NEW ms, Changed(ms, ns, id, n)
  PROVE  Grows(ms, ns, k)
<1>0. /\ Len(ms) = Len(ns) /\ Len(ns[id].keys) \in Nat
      /\ DOMAIN ns[id].keys = 1 .. Len(ns[id].keys) /\ DOMAIN n.keys = 1 .. Len(n.keys)
  BY NodeFacts, TreeFacts DEF Changed
<1>1. /\ Len(n.keys) = Len(ns[id].keys) + 1 /\ n.keys[p] = k
      /\ \A j \in 1 .. Len(ns[id].keys) :
           (j < p => n.keys[j] = ns[id].keys[j]) /\ (j >= p => n.keys[j + 1] = ns[id].keys[j])
  BY DEF Inserted
<1>2. ms[id] = n /\ \A j \in 1 .. Len(ns) : j # id => ms[j] = ns[j]
  BY DEF Changed
<1>3. ASSUME NEW x \in Int PROVE Holds(n, x) <=> Holds(ns[id], x) \/ x = k
  <2>1. ASSUME Holds(ns[id], x) PROVE Holds(n, x)
    <3>1. PICK i \in 1 .. Len(ns[id].keys) : ns[id].keys[i] = x
      BY <2>1, <1>0 DEF Holds
    <3>2. CASE i < p
      <4>1. i \in 1 .. Len(n.keys) /\ n.keys[i] = x  BY <3>1, <3>2, <1>0, <1>1
      <4> QED BY <4>1, <1>0 DEF Holds
    <3>3. CASE i >= p
      <4>1. i + 1 \in 1 .. Len(n.keys) /\ n.keys[i + 1] = x  BY <3>1, <3>3, <1>0, <1>1, SMTT(30)
      <4> QED BY <4>1, <1>0 DEF Holds
    <3> QED BY <3>2, <3>3, <1>0
  <2>2. ASSUME x = k PROVE Holds(n, x)
    <3>1. p \in 1 .. Len(n.keys)  BY <1>0, <1>1
    <3> QED BY <3>1, <2>2, <1>0, <1>1 DEF Holds
  <2>3. ASSUME Holds(n, x), x # k PROVE Holds(ns[id], x)
    <3>1. PICK i \in 1 .. Len(n.keys) : n.keys[i] = x
      BY <2>3, <1>0 DEF Holds
    <3>2. i \in Int /\ p \in Int /\ i >= 1 /\ i <= Len(ns[id].keys) + 1 /\ i # p
      BY <3>1, <2>3, <1>0, <1>1
    <3>3. CASE i < p
      <4>1. i \in 1 .. Len(ns[id].keys)  BY <3>2, <3>3, <1>0
      <4>2. ns[id].keys[i] = x  BY <4>1, <3>1, <3>3, <1>1
      <4> QED BY <4>1, <4>2, <1>0 DEF Holds
    <3>4. CASE i > p
      <4>1. i - 1 \in 1 .. Len(ns[id].keys) /\ i - 1 >= p /\ (i - 1) + 1 = i  BY <3>2, <3>4, <1>0
      <4>2. ns[id].keys[i - 1] = x  BY <4>1, <3>1, <1>1
      <4> QED BY <4>1, <4>2, <1>0 DEF Holds
    <3> QED BY <3>2, <3>3, <3>4
  <2> QED BY <2>1, <2>2, <2>3
<1>4. ASSUME NEW x \in Int
      PROVE  (\E j \in 1 .. Len(ms) : Holds(ms[j], x)) <=>
               (\E j \in 1 .. Len(ns) : Holds(ns[j], x)) \/ x = k
  BY <1>0, <1>2, <1>3
<1> QED BY <1>4 DEF AllKeys, Grows
(* The parts of Tree, for each node. *)
LEMMA TreeIs ==
  ASSUME NEW ns, NEW r, NEW ht, NEW own, NEW seen, Tree(ns, r, ht, own, seen)
  PROVE  /\ ns \in Seq(Node) /\ Len(ns) \in Nat /\ r \in 1 .. Len(ns)
         /\ Unique(ns)
         /\ \A id \in 1 .. Len(ns) :
              /\ ns[id] \in Node
              /\ ht[id] \in Nat /\ ht[id] <= ht[r]
              /\ own[id] \in SUBSET Int /\ seen[id] \in SUBSET Int
              /\ NodeOK(ns[id], own[id], ht[id], Len(ns), ht, seen)
              /\ Len(ns[id].kids) = Len(ns[id].keys) + 1
              /\ Sorted(ns[id].keys) /\ ns[id].keys \in Seq(Int) /\ Len(ns[id].keys) \in Nat
              /\ DOMAIN ns[id].keys = 1 .. Len(ns[id].keys)
<1>1. /\ ns \in Seq(Node) /\ r \in 1 .. Len(ns) /\ Unique(ns)
      /\ \A id \in 1 .. Len(ns) :
              /\ ht[id] \in Nat /\ ht[id] <= ht[r]
              /\ own[id] \in SUBSET Int /\ seen[id] \in SUBSET Int
              /\ NodeOK(ns[id], own[id], ht[id], Len(ns), ht, seen)
  BY DEF Tree
<1>2. Len(ns) \in Nat /\ \A id \in 1 .. Len(ns) : ns[id] \in Node
  BY <1>1, TreeFacts
<1>3. \A id \in 1 .. Len(ns) : Len(ns[id].kids) = Len(ns[id].keys) + 1 /\ Sorted(ns[id].keys)
  BY <1>1 DEF NodeOK
<1>4. \A id \in 1 .. Len(ns) :
        /\ ns[id].keys \in Seq(Int) /\ Len(ns[id].keys) \in Nat
        /\ DOMAIN ns[id].keys = 1 .. Len(ns[id].keys)
  BY <1>2, NodeFacts
<1> QED BY <1>1, <1>2, <1>3, <1>4

(* What putting k and rp into a node has led to. *)
PutDone(ms, ns, r, ht, own, k, rp) ==
  /\ Tree(ms, r, ht, own, own)
  /\ Grows(ms, ns, k)
  /\ HasParent(ms, rp) /\ \A c : HasParent(ns, c) => HasParent(ms, c)

(* Once the changed node and the others are sound, so is the tree. *)
LEMMA PutTree ==
  ASSUME NEW ns, NEW r, NEW ht, NEW own, NEW seen, Tree(ns, r, ht, own, seen),
         NEW id \in 1 .. Len(ns), NEW p \in 1 .. Len(ns[id].keys) + 1, NEW k \in Int,
         NEW rp \in Nat, rp = 0 \/ ~HasParent(ns, rp), own[r] = Int,
         \A q \in 1 .. Len(ns) : q # id => NodeOK(ns[q], own[q], ht[q], Len(ns), ht, own),
         NodeOK(Put(ns[id], p, k, rp), own[id], ht[id], Len(ns), ht, own),
         NEW ms, Changed(ms, ns, id, Put(ns[id], p, k, rp))
  PROVE  PutDone(ms, ns, r, ht, own, k, rp)
<1> DEFINE n == Put(ns[id], p, k, rp)
<1>1. /\ ns \in Seq(Node) /\ Len(ns) \in Nat /\ r \in 1 .. Len(ns) /\ Unique(ns)
      /\ ns[id] \in Node /\ Len(ns[id].kids) = Len(ns[id].keys) + 1 /\ Len(ns[id].keys) \in Nat
  BY TreeIs
<1>2. /\ n \in Node
      /\ Inserted(n.keys, ns[id].keys, p, k) /\ Inserted(n.kids, ns[id].kids, p + 1, rp)
  BY <1>1, PutIs
<1>3. Changed(ms, ns, id, n)
  OBVIOUS
<1>4. NodeOK(n, own[id], ht[id], Len(ns), ht, own)
  OBVIOUS
<1> HIDE DEF n
<1>5. p + 1 \in 1 .. Len(ns[id].kids) + 1
  BY <1>1
<1>6. Unique(ms)
  BY <1>1, <1>2, <1>3, <1>5, PutUnique, Zenon
<1>7. HasParent(ms, rp) /\ \A c : HasParent(ns, c) => HasParent(ms, c)
  BY <1>1, <1>2, <1>3, <1>5, PutParents, Zenon
<1>8. Grows(ms, ns, k)
  BY <1>1, <1>2, <1>3, PutKeys, Zenon
<1>9. /\ ms \in Seq(Node) /\ Len(ms) = Len(ns) /\ ms[id] = n
      /\ \A j \in 1 .. Len(ns) : j # id => ms[j] = ns[j]
  BY <1>3 DEF Changed
<1>10. \A q \in 1 .. Len(ms) : NodeOK(ms[q], own[q], ht[q], Len(ms), ht, own)
  BY <1>4, <1>9
<1>11. /\ ht \in [1 .. Len(ns) -> Nat] /\ own \in [1 .. Len(ns) -> SUBSET Int]
       /\ \A q \in 1 .. Len(ns) : ht[q] <= ht[r]
  BY DEF Tree
<1>12. Tree(ms, r, ht, own, own)
  BY <1>1, <1>6, <1>9, <1>10, <1>11 DEF Tree
<1> QED BY <1>7, <1>8, <1>12, Zenon DEF PutDone

(* What follows from a search that comes to a node. *)
LEMMA ScanTree ==
  ASSUME NEW ns, NEW r, NEW ht, NEW own, NEW seen, Tree(ns, r, ht, own, seen),
         NEW id \in 1 .. Len(ns), NEW k \in own[id], ~Holds(ns[id], k)
  PROVE  /\ k \in Int
         /\ b_scanNode(ns[id], k) + 1 \in 1 .. Len(ns[id].kids)
         /\ b_scanNode(ns[id], k) \in Nat
         /\ k \in Slot(own[id], ns[id].keys, b_scanNode(ns[id], k) + 1)
         /\ \A j \in 1 .. Len(ns[id].kids) :
              k \in Slot(own[id], ns[id].keys, j) => j = b_scanNode(ns[id], k) + 1
<1>1. /\ ns[id].keys \in Seq(Int) /\ Sorted(ns[id].keys) /\ own[id] \in SUBSET Int
      /\ Len(ns[id].kids) = Len(ns[id].keys) + 1 /\ k \in Int
  BY TreeIs
<1>2. /\ b_scanNode(ns[id], k) + 1 \in 1 .. Len(ns[id].keys) + 1
      /\ k \in Slot(own[id], ns[id].keys, b_scanNode(ns[id], k) + 1)
      /\ \A j \in 1 .. Len(ns[id].keys) + 1 :
              k \in Slot(own[id], ns[id].keys, j) => j = b_scanNode(ns[id], k) + 1
  BY <1>1, ScanSlot
<1>3. b_scanNode(ns[id], k) \in Nat
  BY <1>1, ScanIs
<1> QED BY <1>1, <1>2, <1>3

(* Where a search goes on from a node, and for which keys. *)
LEMMA SlotOKOf ==
  ASSUME NEW ns, NEW r, NEW ht, NEW own, NEW seen, Tree(ns, r, ht, own, seen),
         NEW id \in 1 .. Len(ns), NEW i \in 1 .. Len(ns[id].kids)
  PROVE  /\ SlotOK(ns[id].kids[i], Slot(own[id], ns[id].keys, i), ht[id], Len(ns), ht, seen)
         /\ ht[id] = 0 => ns[id].kids[i] = 0
         /\ ht[id] # 0 => /\ ns[id].kids[i] \in 1 .. Len(ns)
                          /\ ht[ns[id].kids[i]] = ht[id] - 1
                          /\ seen[ns[id].kids[i]] = Slot(own[id], ns[id].keys, i)
<1>1. NodeOK(ns[id], own[id], ht[id], Len(ns), ht, seen)
  BY TreeIs
<1>2. SlotOK(ns[id].kids[i], Slot(own[id], ns[id].keys, i), ht[id], Len(ns), ht, seen)
  BY <1>1 DEF NodeOK
<1> QED BY <1>2 DEF SlotOK

(* A key that is nowhere yet goes into the leaf it belongs in. *)
LEMMA PutLeaf ==
  ASSUME NEW ns, NEW r, NEW ht, NEW own, Tree(ns, r, ht, own, own),
         NEW id \in 1 .. Len(ns), ht[id] = 0, NEW k \in own[id], ~Holds(ns[id], k),
         NEW ms, Changed(ms, ns, id, Put(ns[id], b_scanNode(ns[id], k) + 1, k, 0))
  PROVE  PutDone(ms, ns, r, ht, own, k, 0)
<1> DEFINE p == b_scanNode(ns[id], k) + 1
<1>1. k \in Int /\ p \in 1 .. Len(ns[id].kids) /\ k \in Slot(own[id], ns[id].keys, p)
  BY ScanTree
<1>8. Changed(ms, ns, id, Put(ns[id], p, k, 0))
  OBVIOUS
<1> HIDE DEF p
<1>2. /\ ns[id] \in Node /\ own[id] \in SUBSET Int /\ Len(ns[id].kids) = Len(ns[id].keys) + 1
      /\ \A q \in 1 .. Len(ns) : NodeOK(ns[q], own[q], ht[q], Len(ns), ht, own)
  BY TreeIs
<1>3. \A i \in 1 .. Len(ns[id].kids) : SlotOK(ns[id].kids[i], Slot(own[id], ns[id].keys, i), ht[id], Len(ns), ht, own)
  BY SlotOKOf
<1>4. \A T : SlotOK(ns[id].kids[p], T, ht[id], Len(ns), ht, own) /\ SlotOK(0, T, ht[id], Len(ns), ht, own)
  <2>1. ns[id].kids[p] = 0  BY <1>1, SlotOKOf
  <2> QED BY <2>1 DEF SlotOK
<1>5. p \in 1 .. Len(ns[id].keys) + 1 /\ 0 \in Nat
  BY <1>1, <1>2
<1>6. NodeOK(Put(ns[id], p, k, 0), own[id], ht[id], Len(ns), ht, own)
  <2>1. NodeOK(ns[id], own[id], ht[id], Len(ns), ht, own)  BY <1>2
  <2> QED BY <1>1, <1>2, <1>3, <1>4, <1>5, <2>1, PutOK, ZenonT(60)
<1>7. own[r] = Int
  BY DEF Tree
<1>9. \A q \in 1 .. Len(ns) : q # id => NodeOK(ns[q], own[q], ht[q], Len(ns), ht, own)
  BY <1>2
<1> QED BY <1>1, <1>5, <1>6, <1>7, <1>8, <1>9, PutTree, ZenonT(60)
(* The key a split handed up and the right half go behind the left half. *)
LEMMA PutPending ==
  ASSUME NEW ns, NEW r, NEW ht, NEW own, NEW seen, Tree(ns, r, ht, own, seen),
         NEW c, NEW k, NEW rp, Pending(ns, r, ht, own, seen, c, k, rp), c # r,
         NEW id \in 1 .. Len(ns), NEW p \in 1 .. Len(ns[id].kids), ns[id].kids[p] = c,
         NEW ms, Changed(ms, ns, id, Put(ns[id], b_scanNode(ns[id], k) + 1, k, rp))
  PROVE  PutDone(ms, ns, r, ht, own, k, rp)
<1>1. /\ Len(ns) \in Nat /\ ns[id] \in Node /\ own[id] \in SUBSET Int /\ Unique(ns)
      /\ ht[id] \in Nat /\ Len(ns[id].kids) = Len(ns[id].keys) + 1 /\ ns[id].keys \in Seq(Int)
      /\ Sorted(ns[id].keys)
      /\ \A q \in 1 .. Len(ns) : ns[q] \in Node /\ NodeOK(ns[q], own[q], ht[q], Len(ns), ht, seen)
  BY TreeIs
<1>2. /\ c \in 1 .. Len(ns) /\ rp \in 1 .. Len(ns) /\ rp # c /\ rp # r /\ ht[rp] = ht[c]
      /\ \A q \in 1 .. Len(ns) : q # c => seen[q] = own[q]
      /\ k \in seen[c]
      /\ own[c] = {x \in seen[c] : x < k}
      /\ own[rp] = {x \in seen[c] : x > k}
      /\ ~HasParent(ns, rp)
  BY DEF Pending
<1>3. c # 0 /\ rp \in Nat
  BY <1>1, <1>2
<1>4. ht[id] # 0 /\ ht[c] = ht[id] - 1 /\ seen[c] = Slot(own[id], ns[id].keys, p)
  BY <1>3, SlotOKOf
<1>5. k \in own[id] /\ k \in Int /\ ~Holds(ns[id], k) /\ k \in Slot(own[id], ns[id].keys, p)
  <2>1. k \in own[id] /\ \A j \in 1 .. Len(ns[id].keys) :
          (j < p => ns[id].keys[j] < k) /\ (j >= p => k < ns[id].keys[j])
    BY <1>2, <1>4 DEF Slot
  <2>2. k \in Int  BY <2>1, <1>1
  <2>3. ASSUME NEW j \in DOMAIN ns[id].keys PROVE ns[id].keys[j] # k
    <3>1. j \in 1 .. Len(ns[id].keys) /\ ns[id].keys[j] \in Int  BY <1>1
    <3>2. ns[id].keys[j] < k \/ k < ns[id].keys[j]  BY <3>1, <2>1, <1>1
    <3> QED BY <3>1, <3>2, <2>2
  <2>4. ~Holds(ns[id], k)  BY <2>3 DEF Holds
  <2>5. k \in Slot(own[id], ns[id].keys, p)  BY <1>2, <1>4
  <2> QED BY <2>1, <2>2, <2>4, <2>5
<1>6. p = b_scanNode(ns[id], k) + 1
  BY <1>5, ScanTree, Zenon
<1>7. \A q \in 1 .. Len(ns) : \A i \in 1 .. Len(ns[q].kids) :
        ns[q].kids[i] = c => q = id /\ i = p
  <2> TAKE q \in 1 .. Len(ns)
  <2> TAKE i \in 1 .. Len(ns[q].kids)
  <2> HAVE ns[q].kids[i] = c
  <2>1. ns[q].kids[i] = ns[id].kids[p] /\ ns[q].kids[i] # 0 /\ Unique(ns)
    BY <1>1, <1>3
  <2> QED BY ONLY <2>1, id \in 1 .. Len(ns), q \in 1 .. Len(ns),
                  i \in 1 .. Len(ns[q].kids), p \in 1 .. Len(ns[id].kids) DEF Unique
<1>8. \A q \in 1 .. Len(ns) : q # id => NodeOK(ns[q], own[q], ht[q], Len(ns), ht, own)
  <2> SUFFICES ASSUME NEW q \in 1 .. Len(ns), q # id
               PROVE  NodeOK(ns[q], own[q], ht[q], Len(ns), ht, own)
    OBVIOUS
  <2>1. ASSUME NEW i \in 1 .. Len(ns[q].kids), ns[q].kids[i] # 0
        PROVE  own[ns[q].kids[i]] = seen[ns[q].kids[i]]
    <3>1. ns[q].kids[i] \in 1 .. Len(ns)  BY <2>1, SlotOKOf
    <3>2. ns[q].kids[i] # c  BY <1>7
    <3> QED BY <3>1, <3>2, <1>2
  <2>2. ns[q] \in Node  BY <1>1
  <2>3. NodeOK(ns[q], own[q], ht[q], Len(ns), ht, seen)  BY <1>1
  <2>4. Len(ns) \in Nat /\ Len(ns) >= Len(ns)  BY <1>1
  <2>5. \A i \in 1 .. Len(ns[q].kids) : ns[q].kids[i] # 0 =>
          ht[ns[q].kids[i]] = ht[ns[q].kids[i]] /\ own[ns[q].kids[i]] = seen[ns[q].kids[i]]
    BY <2>1
  <2> QED BY <2>2, <2>3, <2>4, <2>5, NodeKeep, ZenonT(60)
<1>9. \A i \in 1 .. Len(ns[id].kids) : i # p =>
        SlotOK(ns[id].kids[i], Slot(own[id], ns[id].keys, i), ht[id], Len(ns), ht, own)
  <2> SUFFICES ASSUME NEW i \in 1 .. Len(ns[id].kids), i # p
               PROVE  SlotOK(ns[id].kids[i], Slot(own[id], ns[id].keys, i), ht[id], Len(ns), ht, own)
    OBVIOUS
  <2>1. /\ ns[id].kids[i] \in 1 .. Len(ns)
        /\ ht[ns[id].kids[i]] = ht[id] - 1
        /\ seen[ns[id].kids[i]] = Slot(own[id], ns[id].keys, i)
    BY <1>4, SlotOKOf
  <2>2. ns[id].kids[i] # c  BY <1>7
  <2> QED BY <2>1, <2>2, <1>2, <1>4 DEF SlotOK
<1>10. /\ SlotOK(ns[id].kids[p], {x \in Slot(own[id], ns[id].keys, p) : x < k}, ht[id], Len(ns), ht, own)
       /\ SlotOK(rp, {x \in Slot(own[id], ns[id].keys, p) : x > k}, ht[id], Len(ns), ht, own)
  BY <1>2, <1>4 DEF SlotOK
<1>11. p \in 1 .. Len(ns[id].keys) + 1
  BY <1>1
<1>12. NodeOK(Put(ns[id], p, k, rp), own[id], ht[id], Len(ns), ht, own)
  <2>1. NodeOK(ns[id], own[id], ht[id], Len(ns), ht, seen)  BY <1>1
  <2> QED BY <1>1, <1>3, <1>5, <1>9, <1>10, <1>11, <2>1, PutOK, ZenonT(60)
<1>13. own[r] = Int
  BY <1>2, TreeIs DEF Tree
<1>14. Changed(ms, ns, id, Put(ns[id], p, k, rp))
  BY <1>6
<1> QED BY <1>2, <1>3, <1>5, <1>8, <1>11, <1>12, <1>13, <1>14, PutTree, ZenonT(60)

(* A node of five keys gave way to its halves. *)
Halved(ms, ns, id) ==
  /\ ms \in Seq(Node) /\ Len(ms) = Len(ns) + 1
  /\ ms[id] = Left(ns[id]) /\ ms[Len(ns) + 1] = Right(ns[id])
  /\ \A j \in 1 .. Len(ns) : j # id => ms[j] = ns[j]

(* Where a kid was before a node was split. *)
Origin(ns, ms, id, a, i) ==
  IF a = Len(ns) + 1 THEN i \in 1 .. 3 /\ ns[id].kids[i + 3] = ms[a].kids[i]
  ELSE /\ a \in 1 .. Len(ns) /\ i \in 1 .. Len(ns[a].kids)
       /\ ns[a].kids[i] = ms[a].kids[i]
       /\ a = id => i <= 3

(* Each kid of a halved node is a kid of one of its halves. *)
LEMMA HalvedSlots ==
  ASSUME NEW ns \in Seq(Node), NEW id \in 1 .. Len(ns),
         Len(ns[id].keys) = 5, Len(ns[id].kids) = 6,
         NEW ms, Halved(ms, ns, id)
  PROVE  /\ \A a \in 1 .. Len(ms) : \A i \in 1 .. Len(ms[a].kids) : Origin(ns, ms, id, a, i)
         /\ \A c : HasParent(ns, c) => HasParent(ms, c)
         /\ \A c : HasParent(ms, c) => HasParent(ns, c)
<1>1. /\ Len(ns) \in Nat /\ ns[id] \in Node /\ ms \in Seq(Node) /\ Len(ms) = Len(ns) + 1
      /\ ms[id] = Left(ns[id]) /\ ms[Len(ns) + 1] = Right(ns[id])
      /\ \A j \in 1 .. Len(ns) : j # id => ms[j] = ns[j]
  BY TreeFacts DEF Halved
<1>2. /\ Len(ms[id].kids) = 3 /\ Len(ms[Len(ns) + 1].kids) = 3
      /\ \A i \in 1 .. 3 : ms[id].kids[i] = ns[id].kids[i] /\ ms[Len(ns) + 1].kids[i] = ns[id].kids[i + 3]
  BY <1>1, HalvesAre
<1>3. ASSUME NEW a \in 1 .. Len(ms), NEW i \in 1 .. Len(ms[a].kids)
      PROVE  Origin(ns, ms, id, a, i)
  <2>1. CASE a = Len(ns) + 1  BY <2>1, <1>2 DEF Origin
  <2>2. CASE a = id
    <3>1. a # Len(ns) + 1  BY <2>2, <1>1
    <3>2. i \in 1 .. 3 /\ i \in 1 .. 6 /\ i <= 3  BY <2>2, <1>2
    <3> QED BY <3>1, <3>2, <2>2, <1>2 DEF Origin
  <2>3. CASE a # id /\ a # Len(ns) + 1
    <3>1. a \in 1 .. Len(ns)  BY <2>3, <1>1
    <3> QED BY <3>1, <2>3, <1>1 DEF Origin
  <2> QED BY <2>1, <2>2, <2>3
<1>4. ASSUME NEW c, HasParent(ns, c) PROVE HasParent(ms, c)
  <2>1. PICK p \in 1 .. Len(ns) : \E i \in 1 .. Len(ns[p].kids) : ns[p].kids[i] = c
    BY <1>4 DEF HasParent
  <2>2. PICK i \in 1 .. Len(ns[p].kids) : ns[p].kids[i] = c
    BY <2>1
  <2>3. CASE p # id
    <3>1. p \in 1 .. Len(ms) /\ ms[p] = ns[p]  BY <2>3, <1>1
    <3> QED BY <3>1, <2>2 DEF HasParent
  <2>4. CASE p = id
    <3>0. i \in 1 .. 6  BY <2>4
    <3>1. CASE i <= 3
      <4>1. i \in 1 .. 3 /\ id \in 1 .. Len(ms)  BY <3>0, <3>1, <1>1
      <4>2. ms[id].kids[i] = c /\ i \in 1 .. Len(ms[id].kids)  BY <4>1, <1>2, <2>2, <2>4
      <4> QED BY <4>1, <4>2 DEF HasParent
    <3>2. CASE i > 3
      <4>1. i - 3 \in 1 .. 3 /\ Len(ns) + 1 \in 1 .. Len(ms) /\ (i - 3) + 3 = i  BY <3>0, <3>2, <1>1
      <4>2. ms[Len(ns) + 1].kids[i - 3] = c /\ i - 3 \in 1 .. Len(ms[Len(ns) + 1].kids)
        BY <4>1, <1>2, <2>2, <2>4
      <4> QED BY <4>1, <4>2 DEF HasParent
    <3> QED BY <3>0, <3>1, <3>2
  <2> QED BY <2>3, <2>4
<1>5. ASSUME NEW c, HasParent(ms, c) PROVE HasParent(ns, c)
  <2>1. PICK p \in 1 .. Len(ms) : \E i \in 1 .. Len(ms[p].kids) : ms[p].kids[i] = c
    BY <1>5 DEF HasParent
  <2>2. PICK i \in 1 .. Len(ms[p].kids) : ms[p].kids[i] = c
    BY <2>1
  <2>3. Origin(ns, ms, id, p, i)  BY <1>3
  <2>4. CASE p = Len(ns) + 1
    <3>1. i + 3 \in 1 .. Len(ns[id].kids) /\ ns[id].kids[i + 3] = c
      BY <2>2, <2>3, <2>4 DEF Origin
    <3> QED BY <3>1 DEF HasParent
  <2>5. CASE p # Len(ns) + 1
    BY <2>2, <2>3, <2>5 DEF Origin, HasParent
  <2> QED BY <2>4, <2>5
<1> QED BY <1>3, <1>4, <1>5

(* Halving gives no kid a second parent. *)
LEMMA HalvedUnique ==
  ASSUME NEW ns \in Seq(Node), NEW id \in 1 .. Len(ns),
         Len(ns[id].keys) = 5, Len(ns[id].kids) = 6, Unique(ns),
         NEW ms, Halved(ms, ns, id)
  PROVE  Unique(ms)
<1> SUFFICES ASSUME NEW a \in 1 .. Len(ms), NEW b \in 1 .. Len(ms),
                    NEW i \in 1 .. Len(ms[a].kids), NEW j \in 1 .. Len(ms[b].kids),
                    ms[a].kids[i] = ms[b].kids[j], ms[a].kids[i] # 0
             PROVE  a = b /\ i = j
  BY DEF Unique
<1>1. Origin(ns, ms, id, a, i) /\ Origin(ns, ms, id, b, j)
  BY HalvedSlots
<1>2. Len(ns) \in Nat /\ id # Len(ns) + 1
  BY TreeFacts
<1>3. \A x \in 1 .. 3 : x + 3 \in 1 .. Len(ns[id].kids)
  <2>1. \A x \in 1 .. 3 : x + 3 \in 1 .. 6  OBVIOUS
  <2> QED BY <2>1
<1>4. CASE a = Len(ns) + 1 /\ b = Len(ns) + 1
  <2>1. i \in 1 .. 3 /\ j \in 1 .. 3 /\ ns[id].kids[i + 3] = ns[id].kids[j + 3] /\ ns[id].kids[i + 3] # 0
    BY <1>1, <1>4 DEF Origin
  <2>2. i + 3 \in 1 .. Len(ns[id].kids) /\ j + 3 \in 1 .. Len(ns[id].kids)
    BY <2>1, <1>3
  <2>3. PICK x \in 1 .. Len(ns[id].kids), y \in 1 .. Len(ns[id].kids) : x = i + 3 /\ y = j + 3
    BY <2>2
  <2>4. ns[id].kids[x] = ns[id].kids[y] /\ ns[id].kids[x] # 0  BY <2>1, <2>3
  <2>5. SamePlace(id, id, x, y)  BY <2>4, UniqueAt, Zenon
  <2> QED BY <2>1, <2>3, <2>5, <1>4 DEF SamePlace
<1>5. CASE a = Len(ns) + 1 /\ b # Len(ns) + 1
  <2>1. /\ i \in 1 .. 3 /\ b \in 1 .. Len(ns) /\ j \in 1 .. Len(ns[b].kids) /\ (b = id => j <= 3)
        /\ ns[id].kids[i + 3] = ns[b].kids[j] /\ ns[id].kids[i + 3] # 0
    BY <1>1, <1>5 DEF Origin
  <2>2. PICK x \in 1 .. Len(ns[id].kids) : x = i + 3  BY <2>1, <1>3
  <2>3. ns[id].kids[x] = ns[b].kids[j] /\ ns[id].kids[x] # 0  BY <2>1, <2>2
  <2>5. b \in 1 .. Len(ns) /\ j \in 1 .. Len(ns[b].kids)  BY <2>1
  <2>6. SamePlace(id, b, x, j)  BY <2>3, <2>5, UniqueAt, Zenon
  <2>4. j <= 3 => i + 3 # j  BY <2>1
  <2> QED BY <2>1, <2>2, <2>4, <2>6 DEF SamePlace
<1>6. CASE a # Len(ns) + 1 /\ b = Len(ns) + 1
  <2>1. /\ j \in 1 .. 3 /\ a \in 1 .. Len(ns) /\ i \in 1 .. Len(ns[a].kids) /\ (a = id => i <= 3)
        /\ ns[id].kids[j + 3] = ns[a].kids[i] /\ ns[a].kids[i] # 0
    BY <1>1, <1>6 DEF Origin
  <2>2. PICK x \in 1 .. Len(ns[id].kids) : x = j + 3  BY <2>1, <1>3
  <2>3. ns[id].kids[x] = ns[a].kids[i] /\ ns[id].kids[x] # 0  BY <2>1, <2>2
  <2>5. a \in 1 .. Len(ns) /\ i \in 1 .. Len(ns[a].kids)  BY <2>1
  <2>6. SamePlace(id, a, x, i)  BY <2>3, <2>5, UniqueAt, Zenon
  <2>4. i <= 3 => j + 3 # i  BY <2>1
  <2> QED BY <2>1, <2>2, <2>4, <2>6 DEF SamePlace
<1>7. CASE a # Len(ns) + 1 /\ b # Len(ns) + 1
  <2>1. /\ a \in 1 .. Len(ns) /\ i \in 1 .. Len(ns[a].kids) /\ ns[a].kids[i] = ms[a].kids[i]
        /\ b \in 1 .. Len(ns) /\ j \in 1 .. Len(ns[b].kids) /\ ns[b].kids[j] = ms[b].kids[j]
    BY <1>1, <1>7 DEF Origin
  <2>2. ns[a].kids[i] = ns[b].kids[j] /\ ns[a].kids[i] # 0  BY <2>1
  <2>3. a \in 1 .. Len(ns) /\ b \in 1 .. Len(ns)
        /\ i \in 1 .. Len(ns[a].kids) /\ j \in 1 .. Len(ns[b].kids)
    BY <2>1
  <2>4. SamePlace(a, b, i, j)  BY <2>2, <2>3, UniqueAt, Zenon
  <2> QED BY <2>4 DEF SamePlace
<1> QED BY <1>4, <1>5, <1>6, <1>7

(* A halved tree lacks the key that is to move up. *)
LEMMA HalvedKeys ==
  ASSUME NEW ns \in Seq(Node), NEW id \in 1 .. Len(ns),
         Len(ns[id].keys) = 5, Len(ns[id].kids) = 6,
         NEW ms, Halved(ms, ns, id)
  PROVE  AllKeys(ms) \cup {ns[id].keys[3]} = AllKeys(ns)
<1> DEFINE N == Len(ns)
<1>1. /\ N \in Nat /\ ns[id] \in Node /\ ms \in Seq(Node) /\ Len(ms) = N + 1
      /\ ms[id] = Left(ns[id]) /\ ms[N + 1] = Right(ns[id])
      /\ \A j \in 1 .. N : j # id => ms[j] = ns[j]
  BY TreeFacts DEF Halved
<1>2. /\ DOMAIN Left(ns[id]).keys = 1 .. 2 /\ DOMAIN Right(ns[id]).keys = 1 .. 2
      /\ DOMAIN ns[id].keys = 1 .. 5
      /\ \A i \in 1 .. 2 : /\ Left(ns[id]).keys[i] = ns[id].keys[i]
                           /\ Right(ns[id]).keys[i] = ns[id].keys[i + 3]
  <2>1. /\ Left(ns[id]) \in Node /\ Right(ns[id]) \in Node
        /\ Len(Left(ns[id]).keys) = 2 /\ Len(Right(ns[id]).keys) = 2
        /\ \A i \in 1 .. 2 : /\ Left(ns[id]).keys[i] = ns[id].keys[i]
                             /\ Right(ns[id]).keys[i] = ns[id].keys[i + 3]
    BY <1>1, HalvesAre
  <2>2. /\ DOMAIN Left(ns[id]).keys = 1 .. 2 /\ DOMAIN Right(ns[id]).keys = 1 .. 2
        /\ DOMAIN ns[id].keys = 1 .. 5
    BY <1>1, <2>1, NodeFacts
  <2> QED BY <2>1, <2>2
<1>3. \A x : Holds(ns[id], x) <=> Holds(ms[id], x) \/ Holds(ms[N + 1], x) \/ x = ns[id].keys[3]
  <2> TAKE x
  <2>1. ASSUME Holds(ns[id], x)
        PROVE  Holds(ms[id], x) \/ Holds(ms[N + 1], x) \/ x = ns[id].keys[3]
    <3>1. PICK i \in 1 .. 5 : ns[id].keys[i] = x  BY <2>1, <1>2 DEF Holds
    <3>2. CASE i <= 2
      <4>1. i \in 1 .. 2  BY <3>2
      <4>2. Holds(Left(ns[id]), x)  BY <4>1, <3>1, <1>2 DEF Holds
      <4> QED BY <4>2, <1>1
    <3>3. CASE i = 3  BY <3>1, <3>3
    <3>4. CASE i >= 4
      <4>1. i - 3 \in 1 .. 2 /\ (i - 3) + 3 = i  BY <3>4
      <4>2. Holds(Right(ns[id]), x)  BY <4>1, <3>1, <1>2 DEF Holds
      <4> QED BY <4>2, <1>1
    <3> QED BY <3>2, <3>3, <3>4
  <2>2. ASSUME Holds(ms[id], x) PROVE Holds(ns[id], x)
    <3>1. PICK i \in 1 .. 2 : ns[id].keys[i] = x  BY <2>2, <1>1, <1>2 DEF Holds
    <3>2. i \in 1 .. 5  OBVIOUS
    <3> QED BY <3>1, <3>2, <1>2 DEF Holds
  <2>3. ASSUME Holds(ms[N + 1], x) PROVE Holds(ns[id], x)
    <3>1. PICK i \in 1 .. 2 : ns[id].keys[i + 3] = x  BY <2>3, <1>1, <1>2 DEF Holds
    <3>2. i + 3 \in 1 .. 5  OBVIOUS
    <3> QED BY <3>1, <3>2, <1>2 DEF Holds
  <2>4. Holds(ns[id], ns[id].keys[3])
    <3>1. 3 \in 1 .. 5  OBVIOUS
    <3> QED BY <3>1, <1>2 DEF Holds
  <2> QED BY <2>1, <2>2, <2>3, <2>4
<1>4. ns[id].keys[3] \in Int
  <2>1. 3 \in 1 .. 5  OBVIOUS
  <2> QED BY <2>1, <1>1, NodeFacts
<1>5. ASSUME NEW x \in Int
      PROVE  (\E j \in 1 .. N + 1 : Holds(ms[j], x)) \/ x = ns[id].keys[3]
               <=> \E j \in 1 .. N : Holds(ns[j], x)
  <2>1. ASSUME NEW j \in 1 .. N, Holds(ns[j], x)
        PROVE  (\E q \in 1 .. N + 1 : Holds(ms[q], x)) \/ x = ns[id].keys[3]
    <3>1. j \in 1 .. N + 1 /\ id \in 1 .. N + 1 /\ N + 1 \in 1 .. N + 1  BY <1>1
    <3>2. CASE j = id  BY <3>1, <3>2, <2>1, <1>3
    <3>3. CASE j # id
      <4>1. ms[j] = ns[j]  BY <3>3, <1>1
      <4> QED BY <4>1, <3>1, <2>1
    <3> QED BY <3>2, <3>3
  <2>2. ASSUME NEW j \in 1 .. N + 1, Holds(ms[j], x) PROVE \E q \in 1 .. N : Holds(ns[q], x)
    <3>1. CASE j = id \/ j = N + 1  BY <3>1, <2>2, <1>3
    <3>2. CASE j # id /\ j # N + 1
      <4>1. j \in 1 .. N  BY <3>2, <1>1
      <4> QED BY <4>1, <3>2, <2>2, <1>1
    <3> QED BY <3>1, <3>2
  <2>3. x = ns[id].keys[3] => \E q \in 1 .. N : Holds(ns[q], x)
    BY <1>3
  <2> QED BY <2>1, <2>2, <2>3
<1> QED BY <1>1, <1>4, <1>5 DEF AllKeys

(* A split leaves a sound tree in which the right half waits. *)
SplitDone(ms, ns, r, ht, own, id, h2, o2, s2) ==
  /\ Tree(ms, r, h2, o2, s2)
  /\ Pending(ms, r, h2, o2, s2, id, ns[id].keys[3], Len(ns) + 1)
  /\ \A j \in 1 .. Len(ns) : h2[j] = ht[j] /\ s2[j] = own[j] /\ (j # id => o2[j] = own[j])

(* Splitting node id leaves a sound tree but for the half to be put in. *)
LEMMA SplitNode ==
  ASSUME NEW ns, NEW r, NEW ht, NEW own, Tree(ns, r, ht, own, own),
         NEW id \in 1 .. Len(ns), Len(ns[id].keys) = 5,
         NEW ms, Halved(ms, ns, id)
  PROVE  \E h2, o2, s2 : SplitDone(ms, ns, r, ht, own, id, h2, o2, s2)
<1> DEFINE N == Len(ns)
           mid == ns[id].keys[3]
           A == {x \in own[id] : x < mid}
           B == {x \in own[id] : x > mid}
           h2 == [j \in 1 .. N + 1 |-> IF j = N + 1 THEN ht[id] ELSE ht[j]]
           s2 == [j \in 1 .. N + 1 |-> IF j = N + 1 THEN B ELSE own[j]]
           o2 == [j \in 1 .. N + 1 |-> IF j = N + 1 THEN B ELSE IF j = id THEN A ELSE own[j]]
<1>1. /\ ns \in Seq(Node) /\ N \in Nat /\ r \in 1 .. N /\ Unique(ns)
      /\ \A q \in 1 .. N :
              /\ ns[q] \in Node /\ ht[q] \in Nat /\ ht[q] <= ht[r] /\ own[q] \in SUBSET Int
              /\ NodeOK(ns[q], own[q], ht[q], N, ht, own)
      /\ Len(ns[id].kids) = 6
      /\ own[r] = Int
  <2>1. own[r] = Int  BY DEF Tree
  <2>2. /\ ns \in Seq(Node) /\ N \in Nat /\ r \in 1 .. N /\ Unique(ns)
        /\ Len(ns[id].kids) = Len(ns[id].keys) + 1
    BY TreeIs
  <2>3. \A q \in 1 .. N :
              /\ ns[q] \in Node /\ ht[q] \in Nat /\ ht[q] <= ht[r] /\ own[q] \in SUBSET Int
              /\ NodeOK(ns[q], own[q], ht[q], N, ht, own)
    BY TreeIs
  <2>4. Len(ns[id].kids) = 6  BY <2>2
  <2> HIDE DEF N
  <2> QED BY ONLY <2>1, <2>2, <2>3, <2>4
<1>n. /\ N \in Nat /\ id \in 1 .. N /\ id # N + 1 /\ N + 1 \in 1 .. N + 1
      /\ \A q \in 1 .. N + 1 : q # N + 1 => q \in 1 .. N
      /\ \A q \in 1 .. N : q \in 1 .. N + 1 /\ q # N + 1
  <2>1. N \in Nat /\ id \in 1 .. N  BY <1>1
  <2> HIDE DEF N
  <2> QED BY ONLY <2>1
<1>2. /\ ms \in Seq(Node) /\ Len(ms) = N + 1
      /\ ms[id] = Left(ns[id]) /\ ms[N + 1] = Right(ns[id])
      /\ \A j \in 1 .. N : j # id => ms[j] = ns[j]
  BY DEF Halved
<1>3. mid \in own[id]
  <2>1. NodeOK(ns[id], own[id], ht[id], N, ht, own)  BY <1>1
  <2>2. 3 \in 1 .. Len(ns[id].keys)  OBVIOUS
  <2> QED BY <2>1, <2>2 DEF NodeOK
<1>4. A \in SUBSET Int /\ B \in SUBSET Int
  BY <1>1
<1>5. /\ h2 \in [1 .. N + 1 -> Nat] /\ o2 \in [1 .. N + 1 -> SUBSET Int] /\ s2 \in [1 .. N + 1 -> SUBSET Int]
      /\ h2[N + 1] = ht[id] /\ s2[N + 1] = B /\ o2[N + 1] = B /\ o2[id] = A
      /\ \A j \in 1 .. N : h2[j] = ht[j] /\ s2[j] = own[j] /\ (j # id => o2[j] = own[j])
  <2> HIDE DEF A, B, N
  <2>1. id \in 1 .. N + 1 /\ id # N + 1 /\ \A j \in 1 .. N : ht[j] \in Nat /\ own[j] \in SUBSET Int
    BY <1>n, <1>1
  <2>2. h2 \in [1 .. N + 1 -> Nat]
    BY <2>1, <1>n
  <2>3. s2 \in [1 .. N + 1 -> SUBSET Int]
    BY <2>1, <1>n, <1>4
  <2>4. o2 \in [1 .. N + 1 -> SUBSET Int]
    BY <2>1, <1>n, <1>4
  <2>5. h2[N + 1] = ht[id] /\ s2[N + 1] = B /\ o2[N + 1] = B /\ o2[id] = A
    BY <2>1, <1>n
  <2>6. \A j \in 1 .. N : h2[j] = ht[j] /\ s2[j] = own[j] /\ (j # id => o2[j] = own[j])
    BY <1>n
  <2> QED BY <2>2, <2>3, <2>4, <2>5, <2>6
<1>6. NodeOK(ms[id], A, ht[id], N, ht, own) /\ NodeOK(ms[N + 1], B, ht[id], N, ht, own)
  <2>1. NodeOK(ns[id], own[id], ht[id], N, ht, own) /\ ns[id] \in Node /\ own[id] \in SUBSET Int
    BY <1>1
  <2>2. /\ NodeOK(Left(ns[id]), A, ht[id], N, ht, own)
        /\ NodeOK(Right(ns[id]), B, ht[id], N, ht, own)
    BY <2>1, HalvesOK, ZenonT(60)
  <2> QED BY <2>2, <1>2
<1>7. Unique(ms)
  BY <1>1, HalvedUnique, Zenon
<1>8. \A q \in 1 .. N : \A i \in 1 .. Len(ns[q].kids) : ns[q].kids[i] # 0 => ns[q].kids[i] \in 1 .. N
  BY SlotOKOf
<1>9. ~HasParent(ms, N + 1)
  <2>1. ~HasParent(ns, N + 1)
    <3> SUFFICES ASSUME NEW q \in 1 .. N, NEW i \in 1 .. Len(ns[q].kids), ns[q].kids[i] = N + 1 PROVE FALSE
      BY DEF HasParent
    <3> QED BY <1>1, <1>8
  <2> QED BY <2>1, <1>1, HalvedSlots
<1>k. \A n, S, h : NodeOK(n, S, h, N, ht, own) /\ n \in Node => NodeOK(n, S, h, N + 1, h2, s2)
  <2> SUFFICES ASSUME NEW n \in Node, NEW S, NEW h, NodeOK(n, S, h, N, ht, own)
               PROVE  NodeOK(n, S, h, N + 1, h2, s2)
    OBVIOUS
  <2>1. ASSUME NEW i \in 1 .. Len(n.kids), n.kids[i] # 0
        PROVE  h2[n.kids[i]] = ht[n.kids[i]] /\ s2[n.kids[i]] = own[n.kids[i]]
    <3>1. SlotOK(n.kids[i], Slot(S, n.keys, i), h, N, ht, own)  BY DEF NodeOK
    <3>2. n.kids[i] \in 1 .. N  BY <3>1, <2>1 DEF SlotOK
    <3> HIDE DEF h2, s2
    <3> QED BY <3>2, <1>5
  <2> HIDE DEF h2, s2, N
  <2>2. N \in Nat /\ N + 1 \in Nat /\ N + 1 >= N  BY <1>1
  <2> QED BY <2>1, <2>2, NodeKeep
<1> HIDE DEF h2, o2, s2, A, B, N, mid
<1>10. \A q \in 1 .. N + 1 : NodeOK(ms[q], o2[q], h2[q], N + 1, h2, s2)
  <2> TAKE q \in 1 .. N + 1
  <2>0. ms[q] \in Node  BY <1>2
  <2>1. CASE q = N + 1  BY <2>0, <2>1, <1>5, <1>6, <1>k
  <2>2. CASE q = id
    <3>1. h2[id] = ht[id]  BY <1>5 DEF N
    <3> QED BY <3>1, <2>0, <2>2, <1>5, <1>6, <1>k
  <2>3. CASE q # N + 1 /\ q # id
    <3>1. q \in 1 .. N  BY <2>3, <1>n
    <3>2. ms[q] = ns[q] /\ o2[q] = own[q] /\ h2[q] = ht[q]  BY <3>1, <2>3, <1>2, <1>5
    <3> QED BY <3>1, <3>2, <2>0, <1>1, <1>k
  <2> QED BY <2>1, <2>2, <2>3
<1>11. Tree(ms, r, h2, o2, s2)
  <2>1. r \in 1 .. N + 1 /\ s2[r] = Int  BY <1>1, <1>5
  <2>2. \A q \in 1 .. N + 1 : h2[q] <= h2[r]
    <3> TAKE q \in 1 .. N + 1
    <3>0. h2[r] = ht[r]  BY <1>1, <1>5
    <3>1. CASE q = N + 1
      <4>1. ht[id] <= ht[r]  BY <1>1 DEF N
      <4> QED BY <3>0, <3>1, <4>1, <1>5
    <3>2. CASE q # N + 1
      <4>1. q \in 1 .. N  BY <3>2, <1>n
      <4> QED BY <3>0, <4>1, <1>1, <1>5
    <3> QED BY <3>1, <3>2
  <2> QED BY <2>1, <2>2, <1>2, <1>5, <1>7, <1>10 DEF Tree
<1>12. Pending(ms, r, h2, o2, s2, id, mid, N + 1)
  <2>1. id \in 1 .. N + 1 /\ N + 1 \in 1 .. N + 1 /\ N + 1 # id /\ N + 1 # r /\ id \in 1 .. N
    BY <1>1 DEF N
  <2>2. h2[N + 1] = h2[id] /\ s2[id] = own[id]  BY <2>1, <1>5
  <2>3. ASSUME NEW q \in 1 .. N + 1, q # id PROVE s2[q] = o2[q]
    <3>1. CASE q = N + 1  BY <3>1, <1>5
    <3>2. CASE q # N + 1
      <4>1. q \in 1 .. N  BY <3>2, <1>n
      <4> QED BY <4>1, <2>3, <1>5
    <3> QED BY <3>1, <3>2
  <2>4. o2[id] = {x \in s2[id] : x < mid} /\ o2[N + 1] = {x \in s2[id] : x > mid}
    BY <2>2, <1>5 DEF A, B
  <2> QED BY <2>1, <2>2, <2>3, <2>4, <1>2, <1>3, <1>9 DEF Pending
<1>13. SplitDone(ms, ns, r, ht, own, id, h2, o2, s2)
  BY <1>5, <1>11, <1>12 DEF SplitDone, N, mid
<1> QED BY <1>13

(* A sound tree, whose keys are ks. *)
SoundTree(ns, r, ks) ==
  /\ \E ht, own : Tree(ns, r, ht, own, own)
  /\ Parented(ns, r, r)
  /\ Sizes(ns, r)
  /\ AllKeys(ns) = ks

(* A root grew above the old one. *)
Grown(ms, ns, r, k, rp) ==
  /\ ms \in Seq(Node) /\ Len(ms) = Len(ns) + 1
  /\ ms[Len(ns) + 1] = [keys |-> <<k>>, kids |-> <<r, rp>>]
  /\ \A j \in 1 .. Len(ns) : ms[j] = ns[j]

(* The new root: one key and two kids. *)
LEMMA RootNode ==
  ASSUME NEW k \in Int, NEW r \in Nat, NEW rp \in Nat,
         NEW n, n = [keys |-> <<k>>, kids |-> <<r, rp>>]
  PROVE  /\ n \in Node /\ Len(n.keys) = 1 /\ Len(n.kids) = 2
         /\ n.keys[1] = k /\ n.kids[1] = r /\ n.kids[2] = rp
         /\ \A x : Holds(n, x) <=> x = k
         /\ Sorted(n.keys)
         /\ Slot(Int, n.keys, 1) = {x \in Int : x < k}
         /\ Slot(Int, n.keys, 2) = {x \in Int : x > k}
<1>1. n.keys = <<k>> /\ n.kids = <<r, rp>>
  OBVIOUS
<1>2. <<k>> \in Seq(Int) /\ <<r, rp>> \in Seq(Nat)
  OBVIOUS
<1>3. n \in Node
  BY <1>2 DEF Node
<1>4. Len(n.keys) = 1 /\ Len(n.kids) = 2 /\ n.keys[1] = k /\ n.kids[1] = r /\ n.kids[2] = rp
      /\ DOMAIN n.keys = {1}
  BY <1>1
<1>5. \A x : Holds(n, x) <=> x = k
  BY <1>4 DEF Holds
<1>6. Sorted(n.keys)
  BY <1>4 DEF Sorted
<1>7. Slot(Int, n.keys, 1) = {x \in Int : x < k} /\ Slot(Int, n.keys, 2) = {x \in Int : x > k}
  <2>1. \A j \in 1 .. Len(n.keys) : j = 1  BY <1>4
  <2>2. 1 \in 1 .. Len(n.keys)  BY <1>4
  <2>3. \A x \in Int : k < x <=> x > k  OBVIOUS
  <2> QED BY <2>1, <2>2, <2>3, <1>4 DEF Slot
<1> QED BY <1>3, <1>4, <1>5, <1>6, <1>7

(* A root above the halves of the old one makes the tree sound again. *)
LEMMA GrowRoot ==
  ASSUME NEW ns, NEW r, NEW ht, NEW own, NEW seen, Tree(ns, r, ht, own, seen),
         NEW k, NEW rp, Pending(ns, r, ht, own, seen, r, k, rp),
         Parented(ns, r, rp), Sizes(ns, r), Len(ns[r].keys) >= 2,
         NEW ms, Grown(ms, ns, r, k, rp)
  PROVE  SoundTree(ms, Len(ns) + 1, AllKeys(ns) \cup {k})
<1> DEFINE N == Len(ns)
           h2 == [j \in 1 .. N + 1 |-> IF j = N + 1 THEN ht[r] + 1 ELSE ht[j]]
           o2 == [j \in 1 .. N + 1 |-> IF j = N + 1 THEN Int ELSE own[j]]
           n == [keys |-> <<k>>, kids |-> <<r, rp>>]
<1>1. /\ ns \in Seq(Node) /\ N \in Nat /\ r \in 1 .. N /\ Unique(ns)
      /\ \A q \in 1 .. N :
              /\ ns[q] \in Node /\ ht[q] \in Nat /\ ht[q] <= ht[r] /\ own[q] \in SUBSET Int
              /\ NodeOK(ns[q], own[q], ht[q], N, ht, seen)
      /\ seen[r] = Int
  <2>1. seen[r] = Int  BY DEF Tree
  <2>2. /\ ns \in Seq(Node) /\ N \in Nat /\ r \in 1 .. N /\ Unique(ns)
    BY TreeIs
  <2>3. \A q \in 1 .. N :
              /\ ns[q] \in Node /\ ht[q] \in Nat /\ ht[q] <= ht[r] /\ own[q] \in SUBSET Int
              /\ NodeOK(ns[q], own[q], ht[q], N, ht, seen)
    BY TreeIs
  <2> HIDE DEF N
  <2> QED BY ONLY <2>1, <2>2, <2>3
<1>2. /\ rp \in 1 .. N /\ rp # r /\ ht[rp] = ht[r] /\ k \in Int
      /\ \A q \in 1 .. N : q # r => seen[q] = own[q]
      /\ own[r] = {x \in Int : x < k} /\ own[rp] = {x \in Int : x > k}
      /\ ~HasParent(ns, rp)
  BY <1>1 DEF Pending
<1>3. ms \in Seq(Node) /\ Len(ms) = N + 1 /\ ms[N + 1] = n /\ \A j \in 1 .. N : ms[j] = ns[j]
  BY DEF Grown
<1>4. /\ n \in Node /\ Len(n.keys) = 1 /\ Len(n.kids) = 2
      /\ n.keys[1] = k /\ n.kids[1] = r /\ n.kids[2] = rp
      /\ \A x : Holds(n, x) <=> x = k
      /\ Sorted(n.keys)
      /\ Slot(Int, n.keys, 1) = {x \in Int : x < k}
      /\ Slot(Int, n.keys, 2) = {x \in Int : x > k}
  <2>1. r \in Nat /\ rp \in Nat  BY <1>1, <1>2
  <2> QED BY <2>1, <1>2, RootNode
<1>n. /\ N \in Nat /\ r \in 1 .. N /\ rp \in 1 .. N /\ N + 1 \in 1 .. N + 1
      /\ \A q \in 1 .. N + 1 : q # N + 1 => q \in 1 .. N
      /\ \A q \in 1 .. N : q \in 1 .. N + 1 /\ q # N + 1
  <2>1. N \in Nat /\ r \in 1 .. N /\ rp \in 1 .. N  BY <1>1, <1>2
  <2> HIDE DEF N
  <2> QED BY ONLY <2>1
<1>8. \A q \in 1 .. N : \A i \in 1 .. Len(ns[q].kids) :
        ns[q].kids[i] # 0 => ns[q].kids[i] \in 1 .. N /\ ns[q].kids[i] # r
  <2> TAKE q \in 1 .. N
  <2> TAKE i \in 1 .. Len(ns[q].kids)
  <2> HAVE ns[q].kids[i] # 0
  <2>1. ns[q].kids[i] \in 1 .. N /\ ht[ns[q].kids[i]] = ht[q] - 1
    BY SlotOKOf
  <2>2. ht[q] \in Nat /\ ht[q] <= ht[r] /\ ht[r] \in Nat  BY <1>1
  <2> QED BY ONLY <2>1, <2>2
<1>9. ~HasParent(ns, r)
  <2>1. r # 0  BY <1>n
  <2> QED BY <2>1, <1>8 DEF HasParent
<1> HIDE DEF N, n
<1>5. /\ h2 \in [1 .. N + 1 -> Nat] /\ o2 \in [1 .. N + 1 -> SUBSET Int]
      /\ h2[N + 1] = ht[r] + 1 /\ o2[N + 1] = Int
      /\ \A j \in 1 .. N : h2[j] = ht[j] /\ o2[j] = own[j]
  <2>1. ht[r] + 1 \in Nat /\ \A j \in 1 .. N : ht[j] \in Nat /\ own[j] \in SUBSET Int
    BY <1>n, <1>1
  <2> QED BY <2>1, <1>n
<1> HIDE DEF h2, o2
<1>6. \A q \in 1 .. N + 1 : NodeOK(ms[q], o2[q], h2[q], N + 1, h2, o2)
  <2> TAKE q \in 1 .. N + 1
  <2>1. CASE q = N + 1
    <3>1. \A i \in 1 .. Len(n.keys) : n.keys[i] \in Int
      <4>1. \A i \in 1 .. Len(n.keys) : i = 1  BY <1>4
      <4> QED BY <4>1, <1>2, <1>4
    <3>2. SlotOK(r, {x \in Int : x < k}, ht[r] + 1, N + 1, h2, o2)
      <4>1. ht[r] \in Nat /\ h2[r] = ht[r] /\ o2[r] = own[r] /\ r \in 1 .. N + 1
        BY <1>n, <1>1, <1>5
      <4>2. ht[r] + 1 # 0 /\ (ht[r] + 1) - 1 = ht[r]  BY <4>1
      <4> QED BY <4>1, <4>2, <1>2 DEF SlotOK
    <3>3. SlotOK(rp, {x \in Int : x > k}, ht[r] + 1, N + 1, h2, o2)
      <4>1. ht[r] \in Nat /\ h2[rp] = ht[r] /\ o2[rp] = own[rp] /\ rp \in 1 .. N + 1
        BY <1>n, <1>1, <1>2, <1>5
      <4>2. ht[r] + 1 # 0 /\ (ht[r] + 1) - 1 = ht[r]  BY <4>1
      <4> QED BY <4>1, <4>2, <1>2 DEF SlotOK
    <3>4. ASSUME NEW i \in 1 .. Len(n.kids)
          PROVE  SlotOK(n.kids[i], Slot(Int, n.keys, i), ht[r] + 1, N + 1, h2, o2)
      <4>1. i = 1 \/ i = 2  BY <1>4
      <4> QED BY <4>1, <3>2, <3>3, <1>4
    <3>5. NodeOK(n, Int, ht[r] + 1, N + 1, h2, o2)
      BY <3>1, <3>4, <1>4 DEF NodeOK
    <3> QED BY <3>5, <2>1, <1>3, <1>5
  <2>2. CASE q # N + 1
    <3>1. q \in 1 .. N  BY <2>2, <1>n
    <3>2. ms[q] = ns[q] /\ o2[q] = own[q] /\ h2[q] = ht[q]  BY <3>1, <1>3, <1>5
    <3>3. \A i \in 1 .. Len(ns[q].kids) : ns[q].kids[i] # 0 =>
            h2[ns[q].kids[i]] = ht[ns[q].kids[i]] /\ o2[ns[q].kids[i]] = seen[ns[q].kids[i]]
      BY <3>1, <1>8, <1>5, <1>2
    <3>4. ns[q] \in Node /\ NodeOK(ns[q], own[q], ht[q], N, ht, seen)  BY <3>1, <1>1
    <3>5. N \in Nat /\ N + 1 \in Nat /\ N + 1 >= N  BY <1>n
    <3>6. NodeOK(ns[q], own[q], ht[q], N + 1, h2, o2)
      BY <3>3, <3>4, <3>5, NodeKeep, ZenonT(60)
    <3> QED BY <3>2, <3>6
  <2> QED BY <2>1, <2>2
<1>7. Unique(ms)
  <2> SUFFICES ASSUME NEW a \in 1 .. N + 1, NEW b \in 1 .. N + 1,
                      NEW i \in 1 .. Len(ms[a].kids), NEW j \in 1 .. Len(ms[b].kids),
                      ms[a].kids[i] = ms[b].kids[j], ms[a].kids[i] # 0
               PROVE  a = b /\ i = j
    BY <1>3 DEF Unique
  <2>1. ASSUME NEW q \in 1 .. N, NEW x \in 1 .. Len(ns[q].kids)
        PROVE  ns[q].kids[x] # r /\ ns[q].kids[x] # rp
    BY <1>9, <1>2 DEF HasParent, N
  <2>2. CASE a = N + 1 /\ b = N + 1
    <3>1. i \in 1 .. 2 /\ j \in 1 .. 2 /\ n.kids[i] = n.kids[j]  BY <2>2, <1>3, <1>4
    <3> QED BY <3>1, <2>2, <1>2, <1>4
  <2>3. CASE a = N + 1 /\ b # N + 1
    <3>1. i \in 1 .. 2 /\ b \in 1 .. N /\ j \in 1 .. Len(ns[b].kids) /\ n.kids[i] = ns[b].kids[j]
      BY <2>3, <1>3, <1>4, <1>n
    <3>2. n.kids[i] = r \/ n.kids[i] = rp  BY <3>1, <1>4
    <3> QED BY <3>1, <3>2, <2>1
  <2>4. CASE a # N + 1 /\ b = N + 1
    <3>1. j \in 1 .. 2 /\ a \in 1 .. N /\ i \in 1 .. Len(ns[a].kids) /\ n.kids[j] = ns[a].kids[i]
      BY <2>4, <1>3, <1>4, <1>n
    <3>2. n.kids[j] = r \/ n.kids[j] = rp  BY <3>1, <1>4
    <3> QED BY <3>1, <3>2, <2>1
  <2>5. CASE a # N + 1 /\ b # N + 1
    <3>1. a \in 1 .. N /\ b \in 1 .. N /\ ms[a] = ns[a] /\ ms[b] = ns[b]
      BY <2>5, <1>3, <1>n
    <3> QED BY <3>1, <1>1 DEF Unique, N
  <2> QED BY <2>2, <2>3, <2>4, <2>5
<1>10. Tree(ms, N + 1, h2, o2, o2)
  <2>1. \A q \in 1 .. N + 1 : h2[q] <= h2[N + 1]
    <3> TAKE q \in 1 .. N + 1
    <3>1. CASE q = N + 1  BY <3>1, <1>5, <1>1
    <3>2. CASE q # N + 1
      <4>1. q \in 1 .. N /\ h2[q] = ht[q] /\ ht[q] \in Nat /\ ht[r] \in Nat /\ ht[q] <= ht[r]
        BY <3>2, <1>n, <1>5, <1>1
      <4> QED BY <4>1, <1>5
    <3> QED BY <3>1, <3>2
  <2> QED BY <2>1, <1>n, <1>3, <1>5, <1>6, <1>7 DEF Tree
<1>11. Parented(ms, N + 1, N + 1)
  <2> SUFFICES ASSUME NEW c \in 1 .. N + 1, c # N + 1 PROVE HasParent(ms, c)
    BY <1>3 DEF Parented
  <2>0. c \in 1 .. N  BY <1>n
  <2>1. CASE c = r \/ c = rp
    <3>1. 1 \in 1 .. Len(n.kids) /\ 2 \in 1 .. Len(n.kids) /\ N + 1 \in 1 .. Len(ms)
      BY <1>3, <1>4, <1>n
    <3> QED BY <3>1, <2>1, <1>3, <1>4 DEF HasParent
  <2>2. CASE c # r /\ c # rp
    <3>1. HasParent(ns, c)  BY <2>0, <2>2 DEF Parented, N
    <3>2. PICK p \in 1 .. N : \E i \in 1 .. Len(ns[p].kids) : ns[p].kids[i] = c
      BY <3>1 DEF HasParent, N
    <3>3. p \in 1 .. Len(ms) /\ ms[p] = ns[p]  BY <1>n, <1>3
    <3> QED BY <3>2, <3>3 DEF HasParent
  <2> QED BY <2>1, <2>2
<1>12. Sizes(ms, N + 1)
  <2> SUFFICES ASSUME NEW q \in 1 .. N + 1
               PROVE  Len(ms[q].keys) <= 4 /\ (q # N + 1 => Len(ms[q].keys) >= 2)
    BY <1>3 DEF Sizes
  <2>1. CASE q = N + 1  BY <2>1, <1>3, <1>4
  <2>2. CASE q # N + 1
    <3>1. q \in 1 .. N /\ ms[q] = ns[q]  BY <2>2, <1>n, <1>3
    <3> QED BY <3>1 DEF Sizes, N
  <2> QED BY <2>1, <2>2
<1>13. AllKeys(ms) = AllKeys(ns) \cup {k}
  <2>1. ASSUME NEW x \in Int
        PROVE  (\E q \in 1 .. N + 1 : Holds(ms[q], x)) <=> (\E q \in 1 .. N : Holds(ns[q], x)) \/ x = k
    <3>1. Holds(ms[N + 1], x) <=> x = k  BY <1>3, <1>4
    <3>2. \A q \in 1 .. N : ms[q] = ns[q]  BY <1>3
    <3> QED BY <3>1, <3>2, <1>n
  <2> QED BY <2>1, <1>2, <1>3 DEF AllKeys, N
<1> QED BY <1>10, <1>11, <1>12, <1>13 DEF SoundTree, N

(* What b_addData makes of node id of ns. *)
Added(st, ns, id, k, rp) ==
  LET n == Put(ns[id], b_scanNode(ns[id], k) + 1, k, rp)
      mm == [ns EXCEPT ![id] = n]
  IN  /\ Len(ns[id].keys) < 4 => st.done /\ st.nodes = mm
      /\ Len(ns[id].keys) = 4 => /\ ~st.done /\ st.rp = Len(ns) + 1 /\ st.key = n.keys[3]
                                 /\ Halved(st.nodes, mm, id)

(* What b_addData does to a node that has room and to a full one. *)
LEMMA AddedIs ==
  ASSUME NEW ns \in Seq(Node), NEW id \in 1 .. Len(ns), NEW k \in Int, NEW rp \in Nat,
         Len(ns[id].kids) = Len(ns[id].keys) + 1,
         b_scanNode(ns[id], k) \in 0 .. Len(ns[id].keys)
  PROVE  Added(b_addData(ns, id, k, rp), ns, id, k, rp)
<1> DEFINE i == b_scanNode(ns[id], k)
           n == Put(ns[id], i + 1, k, rp)
           mm == [ns EXCEPT ![id] = n]
           st == b_addData(ns, id, k, rp)
<1>1. ns[id] \in Node /\ Len(ns) \in Nat /\ Len(ns[id].keys) \in Nat /\ i \in Nat /\ (i + 1) + 1 = i + 2
  BY TreeFacts
<1>2. n.keys = InsertAt(ns[id].keys, i + 1, k) /\ n.kids = InsertAt(ns[id].kids, i + 2, rp)
      /\ n = [keys |-> n.keys, kids |-> n.kids]
  BY <1>1 DEF Put
<1>3. n \in Node /\ Len(n.keys) = Len(ns[id].keys) + 1 /\ Len(n.kids) = Len(ns[id].keys) + 2
  <2>1. i + 1 \in 1 .. Len(ns[id].keys) + 1
    BY <1>1
  <2>2. n \in Node /\ Inserted(n.keys, ns[id].keys, i + 1, k) /\ Inserted(n.kids, ns[id].kids, (i + 1) + 1, rp)
    <3> HIDE DEF i
    <3> QED BY <2>1, <1>1, PutIs
  <2>3. Len(n.keys) = Len(ns[id].keys) + 1 /\ Len(n.kids) = Len(ns[id].kids) + 1
    BY <2>2 DEF Inserted
  <2> HIDE DEF n
  <2> QED BY <2>2, <2>3, <1>1
<1>4. Changed(mm, ns, id, n)
  <2> HIDE DEF n
  <2> QED BY <1>3, ExceptChanged
<1>5. ASSUME Len(ns[id].keys) < 4 PROVE st.done /\ st.nodes = mm
  <2>1. Len(ns[id].keys) < B_TREE_MAX  BY <1>5 DEF B_TREE_MAX, B_TREE_ORDER
  <2>2. st = [nodes |-> [ns EXCEPT ![id] =
                [keys |-> InsertAt(ns[id].keys, i + 1, k), kids |-> InsertAt(ns[id].kids, i + 2, rp)]],
              key |-> k, rp |-> 0, done |-> TRUE]
    BY <2>1 DEF b_addData
  <2>3. st.done = TRUE
        /\ st.nodes = [ns EXCEPT ![id] =
                [keys |-> InsertAt(ns[id].keys, i + 1, k), kids |-> InsertAt(ns[id].kids, i + 2, rp)]]
    BY <2>2
  <2> HIDE DEF st, n, i
  <2> QED BY <2>3, <1>2
<1>6. ASSUME Len(ns[id].keys) = 4
      PROVE  /\ ~st.done /\ st.rp = Len(ns) + 1 /\ st.key = n.keys[3]
             /\ Halved(st.nodes, mm, id)
  <2>1. ~(Len(ns[id].keys) < B_TREE_MAX)  BY <1>6 DEF B_TREE_MAX, B_TREE_ORDER
  <2> DEFINE K == InsertAt(ns[id].keys, i + 1, k)
             C == InsertAt(ns[id].kids, i + 2, rp)
             L == [keys |-> SubSeq(K, 1, B_TREE_ORDER), kids |-> SubSeq(C, 1, B_TREE_ORDER + 1)]
             R == [keys |-> SubSeq(K, B_TREE_ORDER + 2, Len(K)), kids |-> SubSeq(C, B_TREE_ORDER + 2, Len(C))]
  <2>2. st = [nodes |-> Append([ns EXCEPT ![id] = L], R),
              key |-> K[B_TREE_ORDER + 1], rp |-> Len(ns) + 1, done |-> FALSE]
    BY <2>1 DEF b_addData
  <2>3. /\ st.done = FALSE /\ st.rp = Len(ns) + 1 /\ st.key = K[B_TREE_ORDER + 1]
        /\ st.nodes = Append([ns EXCEPT ![id] = L], R)
    BY <2>2
  <2>4. K = n.keys /\ C = n.kids
    BY <1>2
  <2> HIDE DEF st, n, i, K, C
  <2>5. Len(K) = 5 /\ Len(C) = 6
    BY <2>4, <1>3, <1>6
  <2>6. B_TREE_ORDER = 2 /\ B_TREE_ORDER + 1 = 3 /\ B_TREE_ORDER + 2 = 4
    BY DEF B_TREE_ORDER
  <2>7. L = Left(n)
    BY <2>4, <2>6 DEF Left
  <2>8. R = Right(n)
    BY <2>4, <2>5, <2>6 DEF Right
  <2> HIDE DEF L, R
  <2>9. Left(n) \in Node /\ Right(n) \in Node
    <3>1. n \in Node /\ Len(n.keys) = 5 /\ Len(n.kids) = 6  BY <2>4, <2>5, <1>3
    <3> QED BY <3>1, HalvesAre
  <2>10. Changed([ns EXCEPT ![id] = L], ns, id, L)
    BY <2>7, <2>9, ExceptChanged
  <2> DEFINE X == [ns EXCEPT ![id] = L]
  <2>11. /\ X \in Seq(Node) /\ Len(X) = Len(ns) /\ X[id] = L
         /\ \A j \in 1 .. Len(ns) : j # id => X[j] = ns[j]
    BY <2>10 DEF Changed
  <2> HIDE DEF X
  <2>12. /\ Append(X, R) \in Seq(Node) /\ Len(Append(X, R)) = Len(ns) + 1
         /\ Append(X, R)[Len(ns) + 1] = R
         /\ \A j \in 1 .. Len(ns) : Append(X, R)[j] = X[j]
    BY <2>8, <2>9, <2>11, AppendProperties, SMTT(30)
  <2>13. st.nodes = Append(X, R)
    BY <2>3 DEF X
  <2>14. /\ Len(mm) = Len(ns) /\ mm[id] = n /\ \A j \in 1 .. Len(ns) : j # id => mm[j] = ns[j]
    BY <1>4 DEF Changed
  <2> HIDE DEF mm
  <2>15. Halved(st.nodes, mm, id)
    BY <2>7, <2>8, <2>11, <2>12, <2>13, <2>14 DEF Halved
  <2>16. st.key = n.keys[3]
    BY <2>3, <2>4, <2>6
  <2> QED BY <2>3, <2>15, <2>16
<1> QED BY <1>5, <1>6 DEF Added

(* What an insertion below or at node id leads to. *)
Placed(st, ns, r, ht, own, id, k, h2, o2, s2) ==
  /\ Tree(st.nodes, r, h2, o2, s2)
  /\ Len(st.nodes) >= Len(ns)
  /\ \A j \in 1 .. Len(ns) :
       /\ h2[j] = ht[j]
       /\ ht[j] > ht[id] => st.nodes[j] = ns[j] /\ o2[j] = own[j]
  /\ Sizes(st.nodes, r)
  /\ st.done => /\ s2 = o2 /\ Parented(st.nodes, r, r)
                /\ AllKeys(st.nodes) = AllKeys(ns) \cup {k}
  /\ ~st.done => /\ Pending(st.nodes, r, h2, o2, s2, id, st.key, st.rp)
                 /\ Parented(st.nodes, r, st.rp)
                 /\ Len(st.nodes[id].keys) = 2
                 /\ AllKeys(st.nodes) \cup {st.key} = AllKeys(ns) \cup {k}

(* One step up the recursion of an insertion. *)
LEMMA AddPlaced ==
  ASSUME NEW ns, NEW r, NEW ht, NEW own, NEW seen, Tree(ns, r, ht, own, seen),
         Sizes(ns, r), NEW id \in 1 .. Len(ns), NEW k \in Int, NEW rp \in Nat,
         Parented(ns, r, rp),
         \A mm : Changed(mm, ns, id, Put(ns[id], b_scanNode(ns[id], k) + 1, k, rp))
                   => PutDone(mm, ns, r, ht, own, k, rp)
  PROVE  \E h2, o2, s2 : Placed(b_addData(ns, id, k, rp), ns, r, ht, own, id, k, h2, o2, s2)
<1> DEFINE i == b_scanNode(ns[id], k)
           n == Put(ns[id], i + 1, k, rp)
           mm == [ns EXCEPT ![id] = n]
           st == b_addData(ns, id, k, rp)
<1>1. /\ ns \in Seq(Node) /\ Len(ns) \in Nat /\ ns[id] \in Node
      /\ Len(ns[id].kids) = Len(ns[id].keys) + 1 /\ Len(ns[id].keys) \in Nat
      /\ \A j \in 1 .. Len(ns) : ht[j] \in Nat
      /\ ns[id].keys \in Seq(Int) /\ Sorted(ns[id].keys)
  BY TreeIs
<1>n. \A c \in 1 .. Len(ns) + 1 : c # Len(ns) + 1 => c \in 1 .. Len(ns)
  <2>1. Len(ns) \in Nat  BY <1>1
  <2> QED BY ONLY <2>1
<1>2. i \in 0 .. Len(ns[id].keys)
  BY <1>1, ScanIs
<1>3. Added(st, ns, id, k, rp)
  BY <1>1, <1>2, AddedIs
<1> HIDE DEF st
<1>4. /\ Len(ns[id].keys) < 4 => st.done /\ st.nodes = mm
      /\ Len(ns[id].keys) = 4 => /\ ~st.done /\ st.rp = Len(ns) + 1 /\ st.key = n.keys[3]
                                 /\ Halved(st.nodes, mm, id)
  BY <1>3 DEF Added
<1>5. n \in Node /\ Inserted(n.keys, ns[id].keys, i + 1, k)
  <2>1. i + 1 \in 1 .. Len(ns[id].keys) + 1
    <3> HIDE DEF i
    <3> QED BY <1>1, <1>2
  <2> HIDE DEF i
  <2> QED BY <2>1, <1>1, PutIs
<1>6. Changed(mm, ns, id, n)
  <2> HIDE DEF n
  <2> QED BY <1>1, <1>5, ExceptChanged
<1>7. PutDone(mm, ns, r, ht, own, k, rp)
  BY <1>6
<1> HIDE DEF i, n, mm
<1>8. /\ Tree(mm, r, ht, own, own) /\ AllKeys(mm) = AllKeys(ns) \cup {k}
      /\ HasParent(mm, rp) /\ \A c : HasParent(ns, c) => HasParent(mm, c)
  BY <1>7 DEF PutDone, Grows
<1>9. /\ mm \in Seq(Node) /\ Len(mm) = Len(ns) /\ mm[id] = n
      /\ \A j \in 1 .. Len(ns) : j # id => mm[j] = ns[j]
      /\ Len(n.keys) = Len(ns[id].keys) + 1
  BY <1>5, <1>6 DEF Changed, Inserted
<1>10. \A c \in 1 .. Len(ns) : c # r => HasParent(mm, c)
  BY <1>8 DEF Parented
<1>11. \A j \in 1 .. Len(ns) : Len(ns[j].keys) <= 4 /\ (j # r => Len(ns[j].keys) >= 2)
  BY DEF Sizes
<1>12. \A j \in 1 .. Len(ns) : ht[j] > ht[id] => j # id
  BY <1>1
<1>13. CASE Len(ns[id].keys) < 4
  <2>1. st.done /\ st.nodes = mm  BY <1>4, <1>13
  <2>2. Sizes(mm, r)
    <3>1. ASSUME NEW j \in 1 .. Len(ns)
          PROVE  Len(mm[j].keys) <= 4 /\ (j # r => Len(mm[j].keys) >= 2)
      <4>1. CASE j = id  
        <5>1. Len(mm[j].keys) = Len(ns[id].keys) + 1  BY <4>1, <1>9
        <5>2. id # r => Len(ns[id].keys) >= 2  BY <1>11
        <5> QED BY ONLY <5>1, <5>2, <4>1, <1>13, Len(ns[id].keys) \in Nat, <1>1
      <4>2. CASE j # id  BY <4>2, <1>9, <1>11
      <4> QED BY <4>1, <4>2
    <3> QED BY <3>1, <1>9 DEF Sizes
  <2>3. Parented(mm, r, r)
    BY <1>9, <1>10 DEF Parented
  <2>4. Len(mm) >= Len(ns)  BY <1>1, <1>9
  <2>5. Placed(st, ns, r, ht, own, id, k, ht, own, own)
    BY <2>1, <2>2, <2>3, <2>4, <1>8, <1>9, <1>12 DEF Placed
  <2> QED BY <2>5 DEF st
<1>14. CASE Len(ns[id].keys) = 4
  <2>1. ~st.done /\ st.rp = Len(ns) + 1 /\ st.key = n.keys[3] /\ Halved(st.nodes, mm, id)
    BY <1>4, <1>14
  <2>2. id \in 1 .. Len(mm) /\ Len(mm[id].keys) = 5
    BY <1>9, <1>14
  <2>3. \E h2, o2, s2 : SplitDone(st.nodes, mm, r, ht, own, id, h2, o2, s2)
    BY <2>1, <2>2, <1>8, SplitNode, ZenonT(60)
  <2>4. PICK h2, o2, s2 : SplitDone(st.nodes, mm, r, ht, own, id, h2, o2, s2)
    BY <2>3
  <2>5. /\ Tree(st.nodes, r, h2, o2, s2)
        /\ Pending(st.nodes, r, h2, o2, s2, id, mm[id].keys[3], Len(mm) + 1)
        /\ \A j \in 1 .. Len(mm) : h2[j] = ht[j] /\ s2[j] = own[j] /\ (j # id => o2[j] = own[j])
    BY <2>4 DEF SplitDone
  <2>6. Pending(st.nodes, r, h2, o2, s2, id, st.key, st.rp)
    BY <2>1, <2>5, <1>9
  <2>7. /\ Len(st.nodes) = Len(ns) + 1
        /\ st.nodes[id] = Left(n) /\ st.nodes[Len(ns) + 1] = Right(n)
        /\ \A j \in 1 .. Len(ns) : j # id => st.nodes[j] = ns[j]
    BY <2>1, <1>9 DEF Halved
  <2>8. Len(mm[id].kids) = 6
    <3>1. NodeOK(mm[id], own[id], ht[id], Len(mm), ht, own)  BY <2>2, <1>8, TreeIs
    <3> QED BY <3>1, <2>2 DEF NodeOK
  <2>9. Len(Left(n).keys) = 2 /\ Len(Right(n).keys) = 2
    <3>1. Len(n.keys) = 5 /\ Len(n.kids) = 6  BY <2>2, <2>8, <1>9
    <3> QED BY <3>1, <1>5, HalvesAre
  <2>10. Sizes(st.nodes, r)
    <3>1. ASSUME NEW j \in 1 .. Len(ns) + 1
          PROVE  Len(st.nodes[j].keys) <= 4 /\ (j # r => Len(st.nodes[j].keys) >= 2)
      <4>1. CASE j = id \/ j = Len(ns) + 1
        <5>1. Len(st.nodes[j].keys) = 2  BY <4>1, <2>7, <2>9
        <5> QED BY ONLY <5>1
      <4>2. CASE j # id /\ j # Len(ns) + 1
        <5>1. j \in 1 .. Len(ns)  BY <4>2, <1>n
        <5> QED BY <5>1, <4>2, <2>7, <1>11
      <4> QED BY <4>1, <4>2
    <3> QED BY <3>1, <2>7 DEF Sizes
  <2>11. Parented(st.nodes, r, st.rp)
    <3> SUFFICES ASSUME NEW c \in 1 .. Len(ns) + 1, c # r, c # Len(ns) + 1
                 PROVE  HasParent(st.nodes, c)
      BY <2>1, <2>7 DEF Parented
    <3>1. c \in 1 .. Len(ns)  BY <1>n
    <3>2. HasParent(mm, c)  BY <3>1, <1>10
    <3> QED BY <3>2, <2>1, <2>2, <2>8, <1>9, HalvedSlots
  <2>12. AllKeys(st.nodes) \cup {st.key} = AllKeys(ns) \cup {k}
    <3>1. AllKeys(st.nodes) \cup {mm[id].keys[3]} = AllKeys(mm)
      BY <2>1, <2>2, <2>8, <1>9, HalvedKeys
    <3> QED BY <3>1, <2>1, <1>8, <1>9
  <2>13. Len(st.nodes) >= Len(ns)
    BY <2>7, <1>1
  <2>14. \A j \in 1 .. Len(ns) :
       /\ h2[j] = ht[j]
       /\ ht[j] > ht[id] => st.nodes[j] = ns[j] /\ o2[j] = own[j]
    BY <2>5, <2>7, <1>9, <1>12
  <2>15. Placed(st, ns, r, ht, own, id, k, h2, o2, s2)
    BY <2>1, <2>5, <2>6, <2>7, <2>9, <2>10, <2>11, <2>12, <2>13, <2>14 DEF Placed
  <2> QED BY <2>15 DEF st
<1>15. Len(ns[id].keys) <= 4 /\ Len(ns[id].keys) \in Nat
  BY <1>1, <1>11
<1>16. Len(ns[id].keys) < 4 \/ Len(ns[id].keys) = 4
  <2>1. \A x \in Nat : x <= 4 => x < 4 \/ x = 4  OBVIOUS
  <2> QED BY <2>1, <1>15
<1> QED BY <1>13, <1>14, <1>16

(* The results of inserting k at the nodes of ns, one step of recursion.   *)
InsertStep(f, ns, k, id) ==
  IF Kid(ns[id], k) = 0 THEN b_addData(ns, id, k, 0)
  ELSE IF f[Kid(ns[id], k)].done THEN f[Kid(ns[id], k)]
  ELSE b_addData(f[Kid(ns[id], k)].nodes, id, f[Kid(ns[id], k)].key, f[Kid(ns[id], k)].rp)

(* One step of b_Find. *)
FindStep(f, ns, k, id) ==
  Holds(ns[id], k) \/ (Kid(ns[id], k) # 0 /\ f[Kid(ns[id], k)])

(* One step of KeysUnder. *)
UnderStep(f, ns, id) ==
  ToSet(ns[id].keys) \cup UNION {f[c] : c \in ToSet(ns[id].kids) \ {0}}

(* One step of Height. *)
HeightStep(f, ns, id) ==
  IF ns[id].kids[1] = 0 THEN 1 ELSE 1 + f[ns[id].kids[1]]

(* Kid is 0 in a leaf and one level down elsewhere. *)
LEMMA KidIs ==
  ASSUME NEW ns, NEW r, NEW ht, NEW own, NEW seen, Tree(ns, r, ht, own, seen),
         NEW id \in 1 .. Len(ns), NEW k \in Int
  PROVE  /\ Kid(ns[id], k) = ns[id].kids[b_scanNode(ns[id], k) + 1]
         /\ b_scanNode(ns[id], k) + 1 \in 1 .. Len(ns[id].kids)
         /\ Kid(ns[id], k) # 0 => /\ Kid(ns[id], k) \in 1 .. Len(ns)
                                  /\ ht[Kid(ns[id], k)] = ht[id] - 1
         /\ Kid(ns[id], k) = 0 <=> ht[id] = 0
<1>1. /\ ns[id].keys \in Seq(Int) /\ Sorted(ns[id].keys) /\ Len(ns[id].keys) \in Nat
      /\ Len(ns[id].kids) = Len(ns[id].keys) + 1
  BY TreeIs
<1>2. b_scanNode(ns[id], k) \in 0 .. Len(ns[id].keys)
  BY <1>1, ScanIs
<1>3. b_scanNode(ns[id], k) + 1 \in 1 .. Len(ns[id].kids)
  BY <1>1, <1>2
<1>4. Kid(ns[id], k) = ns[id].kids[b_scanNode(ns[id], k) + 1]
  BY DEF Kid
<1>5. Len(ns) \in Nat /\ 0 \notin 1 .. Len(ns)
  BY TreeIs
<1> QED BY <1>3, <1>4, <1>5, SlotOKOf

(* A function that is defined by recursion down the tree exists: it is    *)
(* extended by one level of the tree at a time.                            *)
LEMMA InsertExists ==
  ASSUME NEW ns, NEW r, NEW ht, NEW own, NEW seen, Tree(ns, r, ht, own, seen), NEW k \in Int
  PROVE  \E f : f = [id \in 1 .. Len(ns) |-> InsertStep(f, ns, k, id)]
<1> DEFINE N == Len(ns)
           Upto(f, m) == \A id \in 1 .. N : ht[id] < m => f[id] = InsertStep(f, ns, k, id)
           T == {m \in Nat : ~ \E f : Upto(f, m)}
<1>1. \A id \in 1 .. N : ht[id] \in Nat /\ ht[id] <= ht[r]
  BY TreeIs
<1>2. r \in 1 .. N
  BY TreeIs
<1>k. \A id \in 1 .. N : Kid(ns[id], k) # 0 =>
        Kid(ns[id], k) \in 1 .. N /\ ht[Kid(ns[id], k)] = ht[id] - 1
  BY KidIs
<1>3. ASSUME NEW m \in Nat, NEW g, Upto(g, m)
      PROVE  \E f : Upto(f, m + 1)
  <2> DEFINE f == [id \in 1 .. N |-> IF ht[id] < m THEN g[id] ELSE InsertStep(g, ns, k, id)]
  <2>1. \A id \in 1 .. N : f[id] = IF ht[id] < m THEN g[id] ELSE InsertStep(g, ns, k, id)
    OBVIOUS
  <2>2. \A id \in 1 .. N : f[id] = InsertStep(g, ns, k, id)
    BY <2>1, <1>3
  <2> HIDE DEF f
  <2>3. ASSUME NEW id \in 1 .. N, ht[id] < m + 1
        PROVE  f[id] = InsertStep(f, ns, k, id)
    <3>1. CASE Kid(ns[id], k) = 0
      <4>1. InsertStep(f, ns, k, id) = InsertStep(g, ns, k, id)  BY <3>1 DEF InsertStep
      <4> QED BY <4>1, <2>2
    <3>2. CASE Kid(ns[id], k) # 0
      <4>1. Kid(ns[id], k) \in 1 .. N /\ ht[Kid(ns[id], k)] = ht[id] - 1
        BY <3>2, <1>k
      <4>2. ht[Kid(ns[id], k)] < m
        BY <4>1, <2>3, <1>1
      <4>3. f[Kid(ns[id], k)] = g[Kid(ns[id], k)]
        BY <4>1, <4>2, <2>1
      <4>4. InsertStep(f, ns, k, id) = InsertStep(g, ns, k, id)
        BY <4>3, <3>2 DEF InsertStep
      <4> QED BY <4>4, <2>2
    <3> QED BY <3>1, <3>2
  <2> QED BY <2>3
<1>4. \E f : Upto(f, 0)
  BY <1>1
<1> HIDE DEF Upto
<1>5. T = {}
  <2> SUFFICES ASSUME T # {} PROVE FALSE
    OBVIOUS
  <2>1. PICK m \in T : \A y \in T : m <= y
    <3>1. T \subseteq Nat  OBVIOUS
    <3> HIDE DEF T
    <3> QED BY <3>1, LeastNat
  <2>2. m \in Nat /\ ~ \E f : Upto(f, m)  OBVIOUS
  <2>3. m # 0  BY <2>2, <1>4
  <2>4. m - 1 \in Nat /\ (m - 1) + 1 = m /\ ~(m <= m - 1)  BY <2>2, <2>3
  <2>5. m - 1 \notin T
    <3> HIDE DEF T
    <3> QED BY <2>1, <2>4
  <2>6. PICK g : Upto(g, m - 1)  BY <2>4, <2>5
  <2>7. \E f : Upto(f, (m - 1) + 1)  BY <2>4, <2>6, <1>3
  <2> QED BY <2>2, <2>4, <2>7
<1>6. PICK g : Upto(g, ht[r] + 1)
  <2>1. ht[r] + 1 \in Nat  BY <1>1, <1>2
  <2> QED BY <2>1, <1>5
<1>7. \A id \in 1 .. N : g[id] = InsertStep(g, ns, k, id)
  <2> TAKE id \in 1 .. N
  <2>1. ht[id] \in Nat /\ ht[r] \in Nat /\ ht[id] <= ht[r]  BY <1>1, <1>2
  <2>2. ht[id] < ht[r] + 1  BY ONLY <2>1
  <2> QED BY <2>2, <1>6 DEF Upto
<1> DEFINE f == [id \in 1 .. N |-> g[id]]
<1>8. \A id \in 1 .. N : InsertStep(f, ns, k, id) = InsertStep(g, ns, k, id)
  <2> TAKE id \in 1 .. N
  <2>1. CASE Kid(ns[id], k) = 0  BY <2>1 DEF InsertStep
  <2>2. CASE Kid(ns[id], k) # 0
    <3>1. Kid(ns[id], k) \in 1 .. N  BY <2>2, KidIs
    <3>2. f[Kid(ns[id], k)] = g[Kid(ns[id], k)]  BY <3>1
    <3> HIDE DEF f
    <3> QED BY <3>2 DEF InsertStep
  <2> QED BY <2>1, <2>2
<1>9. f = [id \in 1 .. N |-> InsertStep(f, ns, k, id)]
  BY <1>7, <1>8
<1> QED BY <1>9
(* The recursion of b_Find has a solution. *)
LEMMA FindExists ==
  ASSUME NEW ns, NEW r, NEW ht, NEW own, NEW seen, Tree(ns, r, ht, own, seen), NEW k \in Int
  PROVE  \E f : f = [id \in 1 .. Len(ns) |-> FindStep(f, ns, k, id)]
<1> DEFINE N == Len(ns)
           Upto(f, m) == \A id \in 1 .. N : ht[id] < m => f[id] = FindStep(f, ns, k, id)
           T == {m \in Nat : ~ \E f : Upto(f, m)}
<1>1. \A id \in 1 .. N : ht[id] \in Nat /\ ht[id] <= ht[r]
  BY TreeIs
<1>2. r \in 1 .. N
  BY TreeIs
<1>k. \A id \in 1 .. N : Kid(ns[id], k) # 0 =>
        Kid(ns[id], k) \in 1 .. N /\ ht[Kid(ns[id], k)] = ht[id] - 1
  BY KidIs
<1>3. ASSUME NEW m \in Nat, NEW g, Upto(g, m)
      PROVE  \E f : Upto(f, m + 1)
  <2> DEFINE f == [id \in 1 .. N |-> IF ht[id] < m THEN g[id] ELSE FindStep(g, ns, k, id)]
  <2>1. \A id \in 1 .. N : f[id] = IF ht[id] < m THEN g[id] ELSE FindStep(g, ns, k, id)
    OBVIOUS
  <2>2. \A id \in 1 .. N : f[id] = FindStep(g, ns, k, id)
    BY <2>1, <1>3
  <2> HIDE DEF f
  <2>3. ASSUME NEW id \in 1 .. N, ht[id] < m + 1
        PROVE  f[id] = FindStep(f, ns, k, id)
    <3>1. CASE Kid(ns[id], k) = 0
      <4>1. FindStep(f, ns, k, id) = FindStep(g, ns, k, id)  BY <3>1 DEF FindStep
      <4> QED BY <4>1, <2>2
    <3>2. CASE Kid(ns[id], k) # 0
      <4>1. Kid(ns[id], k) \in 1 .. N /\ ht[Kid(ns[id], k)] = ht[id] - 1
        BY <3>2, <1>k
      <4>2. ht[Kid(ns[id], k)] < m
        BY <4>1, <2>3, <1>1
      <4>3. f[Kid(ns[id], k)] = g[Kid(ns[id], k)]
        BY <4>1, <4>2, <2>1
      <4>4. FindStep(f, ns, k, id) = FindStep(g, ns, k, id)
        BY <4>3, <3>2 DEF FindStep
      <4> QED BY <4>4, <2>2
    <3> QED BY <3>1, <3>2
  <2> QED BY <2>3
<1>4. \E f : Upto(f, 0)
  BY <1>1
<1> HIDE DEF Upto
<1>5. T = {}
  <2> SUFFICES ASSUME T # {} PROVE FALSE
    OBVIOUS
  <2>1. PICK m \in T : \A y \in T : m <= y
    <3>1. T \subseteq Nat  OBVIOUS
    <3> HIDE DEF T
    <3> QED BY <3>1, LeastNat
  <2>2. m \in Nat /\ ~ \E f : Upto(f, m)  OBVIOUS
  <2>3. m # 0  BY <2>2, <1>4
  <2>4. m - 1 \in Nat /\ (m - 1) + 1 = m /\ ~(m <= m - 1)  BY <2>2, <2>3
  <2>5. m - 1 \notin T
    <3> HIDE DEF T
    <3> QED BY <2>1, <2>4
  <2>6. PICK g : Upto(g, m - 1)  BY <2>4, <2>5
  <2>7. \E f : Upto(f, (m - 1) + 1)  BY <2>4, <2>6, <1>3
  <2> QED BY <2>2, <2>4, <2>7
<1>6. PICK g : Upto(g, ht[r] + 1)
  <2>1. ht[r] + 1 \in Nat  BY <1>1, <1>2
  <2> QED BY <2>1, <1>5
<1>7. \A id \in 1 .. N : g[id] = FindStep(g, ns, k, id)
  <2> TAKE id \in 1 .. N
  <2>1. ht[id] \in Nat /\ ht[r] \in Nat /\ ht[id] <= ht[r]  BY <1>1, <1>2
  <2>2. ht[id] < ht[r] + 1  BY ONLY <2>1
  <2> QED BY <2>2, <1>6 DEF Upto
<1> DEFINE f == [id \in 1 .. N |-> g[id]]
<1>8. \A id \in 1 .. N : FindStep(f, ns, k, id) = FindStep(g, ns, k, id)
  <2> TAKE id \in 1 .. N
  <2>1. CASE Kid(ns[id], k) = 0  BY <2>1 DEF FindStep
  <2>2. CASE Kid(ns[id], k) # 0
    <3>1. Kid(ns[id], k) \in 1 .. N  BY <2>2, KidIs
    <3>2. f[Kid(ns[id], k)] = g[Kid(ns[id], k)]  BY <3>1
    <3> HIDE DEF f
    <3> QED BY <3>2 DEF FindStep
  <2> QED BY <2>1, <2>2
<1>9. f = [id \in 1 .. N |-> FindStep(f, ns, k, id)]
  BY <1>7, <1>8
<1> QED BY <1>9
(* The kids of a node are one level down. *)
LEMMA KidsAre ==
  ASSUME NEW ns, NEW r, NEW ht, NEW own, NEW seen, Tree(ns, r, ht, own, seen),
         NEW id \in 1 .. Len(ns)
  PROVE  /\ ToSet(ns[id].keys) = {x \in Int : Holds(ns[id], x)}
         /\ \A c \in ToSet(ns[id].kids) \ {0} :
              /\ c \in 1 .. Len(ns) /\ ht[c] = ht[id] - 1
              /\ \E i \in 1 .. Len(ns[id].kids) : ns[id].kids[i] = c
         /\ \A i \in 1 .. Len(ns[id].kids) : ns[id].kids[i] \in ToSet(ns[id].kids)
<1>1. ns[id] \in Node
  BY TreeIs
<1>2. /\ DOMAIN ns[id].keys = 1 .. Len(ns[id].keys) /\ DOMAIN ns[id].kids = 1 .. Len(ns[id].kids)
      /\ \A i \in 1 .. Len(ns[id].keys) : ns[id].keys[i] \in Int
  BY <1>1, NodeFacts
<1>3. /\ ToSet(ns[id].keys) = {ns[id].keys[i] : i \in 1 .. Len(ns[id].keys)}
      /\ ToSet(ns[id].kids) = {ns[id].kids[i] : i \in 1 .. Len(ns[id].kids)}
  BY <1>2 DEF ToSet
<1>4. ToSet(ns[id].keys) = {x \in Int : Holds(ns[id], x)}
  BY <1>2, <1>3 DEF Holds
<1>5. ASSUME NEW i \in 1 .. Len(ns[id].kids), ns[id].kids[i] # 0
      PROVE  ns[id].kids[i] \in 1 .. Len(ns) /\ ht[ns[id].kids[i]] = ht[id] - 1
  BY <1>5, SlotOKOf
<1> QED BY <1>3, <1>4, <1>5

(* The recursion of KeysUnder has a solution. *)
LEMMA UnderExists ==
  ASSUME NEW ns, NEW r, NEW ht, NEW own, NEW seen, Tree(ns, r, ht, own, seen)
  PROVE  \E f : f = [id \in 1 .. Len(ns) |-> UnderStep(f, ns, id)]
<1> DEFINE N == Len(ns)
           Upto(f, m) == \A id \in 1 .. N : ht[id] < m => f[id] = UnderStep(f, ns, id)
           T == {m \in Nat : ~ \E f : Upto(f, m)}
<1>1. \A id \in 1 .. N : ht[id] \in Nat /\ ht[id] <= ht[r]
  BY TreeIs
<1>2. r \in 1 .. N
  BY TreeIs
<1>k. \A id \in 1 .. N : \A c \in ToSet(ns[id].kids) \ {0} :
        c \in 1 .. N /\ ht[c] = ht[id] - 1
  BY KidsAre
<1>3. ASSUME NEW m \in Nat, NEW g, Upto(g, m)
      PROVE  \E f : Upto(f, m + 1)
  <2> DEFINE f == [id \in 1 .. N |-> IF ht[id] < m THEN g[id] ELSE UnderStep(g, ns, id)]
  <2>1. \A id \in 1 .. N : f[id] = IF ht[id] < m THEN g[id] ELSE UnderStep(g, ns, id)
    OBVIOUS
  <2>2. \A id \in 1 .. N : f[id] = UnderStep(g, ns, id)
    BY <2>1, <1>3
  <2> HIDE DEF f
  <2>3. ASSUME NEW id \in 1 .. N, ht[id] < m + 1
        PROVE  f[id] = UnderStep(f, ns, id)
    <3>1. ASSUME NEW c \in ToSet(ns[id].kids) \ {0} PROVE f[c] = g[c]
      <4>1. c \in 1 .. N /\ ht[c] = ht[id] - 1  BY <1>k
      <4>2. ht[c] < m  BY <4>1, <2>3, <1>1
      <4> QED BY <4>1, <4>2, <2>1
    <3>2. UnderStep(f, ns, id) = UnderStep(g, ns, id)
      BY <3>1 DEF UnderStep
    <3> QED BY <3>2, <2>2
  <2> QED BY <2>3
<1>4. \E f : Upto(f, 0)
  BY <1>1
<1> HIDE DEF Upto
<1>5. T = {}
  <2> SUFFICES ASSUME T # {} PROVE FALSE
    OBVIOUS
  <2>1. PICK m \in T : \A y \in T : m <= y
    <3>1. T \subseteq Nat  OBVIOUS
    <3> HIDE DEF T
    <3> QED BY <3>1, LeastNat
  <2>2. m \in Nat /\ ~ \E f : Upto(f, m)  OBVIOUS
  <2>3. m # 0  BY <2>2, <1>4
  <2>4. m - 1 \in Nat /\ (m - 1) + 1 = m /\ ~(m <= m - 1)  BY <2>2, <2>3
  <2>5. m - 1 \notin T
    <3> HIDE DEF T
    <3> QED BY <2>1, <2>4
  <2>6. PICK g : Upto(g, m - 1)  BY <2>4, <2>5
  <2>7. \E f : Upto(f, (m - 1) + 1)  BY <2>4, <2>6, <1>3
  <2> QED BY <2>2, <2>4, <2>7
<1>6. PICK g : Upto(g, ht[r] + 1)
  <2>1. ht[r] + 1 \in Nat  BY <1>1, <1>2
  <2> QED BY <2>1, <1>5
<1>7. \A id \in 1 .. N : g[id] = UnderStep(g, ns, id)
  <2> TAKE id \in 1 .. N
  <2>1. ht[id] \in Nat /\ ht[r] \in Nat /\ ht[id] <= ht[r]  BY <1>1, <1>2
  <2>2. ht[id] < ht[r] + 1  BY ONLY <2>1
  <2> QED BY <2>2, <1>6 DEF Upto
<1> DEFINE f == [id \in 1 .. N |-> g[id]]
<1>8. \A id \in 1 .. N : UnderStep(f, ns, id) = UnderStep(g, ns, id)
  <2> TAKE id \in 1 .. N
  <2>1. \A c \in ToSet(ns[id].kids) \ {0} : f[c] = g[c]
    BY <1>k
  <2> HIDE DEF f
  <2> QED BY <2>1 DEF UnderStep
<1>9. f = [id \in 1 .. N |-> UnderStep(f, ns, id)]
  BY <1>7, <1>8
<1> QED BY <1>9

(* Induction up the tree. *)
LEMMA Upward ==
  ASSUME NEW N \in Nat, NEW ht, \A id \in 1 .. N : ht[id] \in Nat,
         NEW B, \A id \in 1 .. N : (\A j \in 1 .. N : ht[j] < ht[id] => j \in B) => id \in B
  PROVE  \A id \in 1 .. N : id \in B
<1> SUFFICES ASSUME NEW x \in 1 .. N, x \notin B PROVE FALSE
  OBVIOUS
<1> DEFINE T == {ht[id] : id \in {i \in 1 .. N : i \notin B}}
<1>1. PICK m \in T : \A y \in T : m <= y
  <2>1. T \subseteq Nat /\ T # {}  OBVIOUS
  <2> HIDE DEF T
  <2> QED BY <2>1, LeastNat
<1>2. PICK id \in 1 .. N : id \notin B /\ m = ht[id]
  OBVIOUS
<1>3. \A j \in 1 .. N : ht[j] < ht[id] => j \in B
  <2> SUFFICES ASSUME NEW j \in 1 .. N, ht[j] < ht[id], j \notin B PROVE FALSE
    OBVIOUS
  <2>1. m <= ht[j]  BY <1>1
  <2>2. ht[j] \in Nat /\ ht[id] \in Nat  OBVIOUS
  <2> QED BY <2>1, <2>2, <1>2
<1> QED BY <1>2, <1>3

(* What the recursion of Height computes. *)
LEMMA HeightIs ==
  ASSUME NEW ns, NEW r, NEW ht, NEW own, NEW seen, Tree(ns, r, ht, own, seen),
         NEW h, h = [id \in 1 .. Len(ns) |-> HeightStep(h, ns, id)]
  PROVE  \A id \in 1 .. Len(ns) : h[id] = ht[id] + 1
<1> DEFINE B == {id \in 1 .. Len(ns) : h[id] = ht[id] + 1}
<1>1. Len(ns) \in Nat /\ \A id \in 1 .. Len(ns) : ht[id] \in Nat /\ 1 \in 1 .. Len(ns[id].kids)
  <2>1. Len(ns) \in Nat /\ \A id \in 1 .. Len(ns) :
          ht[id] \in Nat /\ Len(ns[id].kids) = Len(ns[id].keys) + 1 /\ Len(ns[id].keys) \in Nat
    BY TreeIs
  <2>2. \A x \in Nat : 1 \in 1 .. x + 1  OBVIOUS
  <2> QED BY <2>1, <2>2
<1>2. \A id \in 1 .. Len(ns) :
        /\ ht[id] = 0 => ns[id].kids[1] = 0
        /\ ht[id] # 0 => /\ ns[id].kids[1] \in 1 .. Len(ns)
                         /\ ht[ns[id].kids[1]] = ht[id] - 1
  BY <1>1, SlotOKOf
<1>3. ASSUME NEW id \in 1 .. Len(ns), \A j \in 1 .. Len(ns) : ht[j] < ht[id] => j \in B
      PROVE  id \in B
  <2>1. h[id] = HeightStep(h, ns, id)
    OBVIOUS
  <2>2. CASE ht[id] = 0
    <3>1. ns[id].kids[1] = 0  BY <2>2, <1>2
    <3>2. h[id] = 1  BY <2>1, <3>1 DEF HeightStep
    <3> QED BY <3>2, <2>2
  <2>3. CASE ht[id] # 0
    <3> DEFINE c == ns[id].kids[1]
    <3>1. c \in 1 .. Len(ns) /\ ht[c] = ht[id] - 1 /\ c # 0  BY <2>3, <1>2
    <3>2. ht[c] < ht[id] /\ ht[id] \in Nat  BY <3>1, <1>1
    <3>3. h[c] = ht[c] + 1  BY <3>1, <3>2, <1>3
    <3>4. h[id] = 1 + h[c]  BY <2>1, <3>1 DEF HeightStep
    <3> HIDE DEF c
    <3>5. h[id] = ht[id] + 1  BY ONLY <3>1, <3>2, <3>3, <3>4
    <3> QED BY <3>5
  <2> QED BY <2>2, <2>3
<1> HIDE DEF B
<1>4. \A id \in 1 .. Len(ns) : id \in B
  BY <1>1, <1>3, Upward
<1> QED BY <1>4 DEF B

(* The recursion of Height has a solution. *)
LEMMA HeightExists ==
  ASSUME NEW ns, NEW r, NEW ht, NEW own, NEW seen, Tree(ns, r, ht, own, seen)
  PROVE  \E h : h = [id \in 1 .. Len(ns) |-> HeightStep(h, ns, id)]
<1> DEFINE h == [id \in 1 .. Len(ns) |-> ht[id] + 1]
<1>1. Len(ns) \in Nat /\ \A id \in 1 .. Len(ns) : ht[id] \in Nat /\ 1 \in 1 .. Len(ns[id].kids)
  <2>1. Len(ns) \in Nat /\ \A id \in 1 .. Len(ns) :
          ht[id] \in Nat /\ Len(ns[id].kids) = Len(ns[id].keys) + 1 /\ Len(ns[id].keys) \in Nat
    BY TreeIs
  <2>2. \A x \in Nat : 1 \in 1 .. x + 1  OBVIOUS
  <2> QED BY <2>1, <2>2
<1>2. \A id \in 1 .. Len(ns) :
        /\ ht[id] = 0 => ns[id].kids[1] = 0
        /\ ht[id] # 0 => /\ ns[id].kids[1] \in 1 .. Len(ns)
                         /\ ht[ns[id].kids[1]] = ht[id] - 1
  BY <1>1, SlotOKOf
<1>3. \A id \in 1 .. Len(ns) : h[id] = ht[id] + 1
  OBVIOUS
<1> HIDE DEF h
<1>4. ASSUME NEW id \in 1 .. Len(ns) PROVE HeightStep(h, ns, id) = ht[id] + 1
  <2>1. CASE ht[id] = 0
    BY <2>1, <1>2 DEF HeightStep
  <2>2. CASE ht[id] # 0
    <3>1. ns[id].kids[1] \in 1 .. Len(ns) /\ ht[ns[id].kids[1]] = ht[id] - 1 /\ ns[id].kids[1] # 0
      BY <2>2, <1>2
    <3>2. h[ns[id].kids[1]] = (ht[id] - 1) + 1  BY <3>1, <1>3
    <3>3. ht[id] \in Nat  BY <1>1
    <3> QED BY <3>1, <3>2, <3>3 DEF HeightStep
  <2> QED BY <2>1, <2>2
<1>5. h = [id \in 1 .. Len(ns) |-> HeightStep(h, ns, id)]
  BY <1>4 DEF h
<1> QED BY <1>5

(* Each kid has a place. *)
LEMMA KidPlace ==
  ASSUME NEW n \in Node
  PROVE  \A c \in ToSet(n.kids) : \E i \in 1 .. Len(n.kids) : n.kids[i] = c
<1>1. DOMAIN n.kids = 1 .. Len(n.kids)
  BY NodeFacts
<1> QED BY <1>1 DEF ToSet

(* What the recursion of KeysUnder computes: keys a search would come to   *)
(* the node for, and at the root all keys.                                 *)
LEMMA UnderIs ==
  ASSUME NEW ns, NEW r, NEW ht, NEW own, Tree(ns, r, ht, own, own),
         NEW u, u = [id \in 1 .. Len(ns) |-> UnderStep(u, ns, id)]
  PROVE  /\ \A id \in 1 .. Len(ns) : u[id] \subseteq own[id] /\ u[id] \subseteq AllKeys(ns)
         /\ Parented(ns, r, r) => u[r] = AllKeys(ns)
<1> DEFINE N == Len(ns)
           B == {id \in 1 .. N : u[id] \subseteq own[id] /\ u[id] \subseteq AllKeys(ns)}
<1>1. N \in Nat /\ r \in 1 .. N /\ \A id \in 1 .. N : ht[id] \in Nat /\ ht[id] <= ht[r] /\ own[id] \in SUBSET Int
  BY TreeIs
<1>2. \A id \in 1 .. N :
         /\ u[id] = {x \in Int : Holds(ns[id], x)} \cup UNION {u[c] : c \in ToSet(ns[id].kids) \ {0}}
         /\ \A c \in ToSet(ns[id].kids) \ {0} :
              /\ c \in 1 .. N /\ ht[c] = ht[id] - 1
              /\ \E i \in 1 .. Len(ns[id].kids) : ns[id].kids[i] = c
         /\ \A i \in 1 .. Len(ns[id].kids) : ns[id].kids[i] \in ToSet(ns[id].kids)
  <2> TAKE id \in 1 .. N
  <2>1. u[id] = UnderStep(u, ns, id)  OBVIOUS
  <2>2. ToSet(ns[id].keys) = {x \in Int : Holds(ns[id], x)}  BY KidsAre
  <2>3. \A c \in ToSet(ns[id].kids) \ {0} : c \in 1 .. N /\ ht[c] = ht[id] - 1
    BY KidsAre
  <2>4. \A c \in ToSet(ns[id].kids) \ {0} :
          \E i \in 1 .. Len(ns[id].kids) : ns[id].kids[i] = c
    <3>1. ns[id] \in Node  BY TreeIs
    <3> QED BY <3>1, KidPlace
  <2>5. \A i \in 1 .. Len(ns[id].kids) : ns[id].kids[i] \in ToSet(ns[id].kids)
    BY KidsAre
  <2> QED BY <2>1, <2>2, <2>3, <2>4, <2>5 DEF UnderStep
<1>3. \A id \in 1 .. N : \A x \in Int : Holds(ns[id], x) => x \in own[id] /\ x \in AllKeys(ns)
  <2> TAKE id \in 1 .. N
  <2> TAKE x \in Int
  <2> HAVE Holds(ns[id], x)
  <2>1. PICK i \in DOMAIN ns[id].keys : ns[id].keys[i] = x  BY DEF Holds
  <2>2. NodeOK(ns[id], own[id], ht[id], N, ht, own) /\ DOMAIN ns[id].keys = 1 .. Len(ns[id].keys)
    BY TreeIs
  <2> QED BY <2>1, <2>2 DEF NodeOK, AllKeys
<1>4. \A id \in 1 .. N : \A c \in ToSet(ns[id].kids) \ {0} : own[c] \subseteq own[id]
  <2> TAKE id \in 1 .. N
  <2> TAKE c \in ToSet(ns[id].kids) \ {0}
  <2>1. PICK i \in 1 .. Len(ns[id].kids) : ns[id].kids[i] = c  BY <1>2
  <2>2. ht[id] # 0 => own[c] = Slot(own[id], ns[id].keys, i)  BY <2>1, SlotOKOf
  <2>3. ht[id] # 0  BY <2>1, SlotOKOf
  <2> QED BY <2>2, <2>3 DEF Slot
<1>5. ASSUME NEW id \in 1 .. N, \A j \in 1 .. N : ht[j] < ht[id] => j \in B
      PROVE  id \in B
  <2>1. ASSUME NEW c \in ToSet(ns[id].kids) \ {0}
        PROVE  u[c] \subseteq own[id] /\ u[c] \subseteq AllKeys(ns)
    <3>1. c \in 1 .. N /\ ht[c] = ht[id] - 1  BY <1>2
    <3>2. ht[c] < ht[id]  BY <3>1, <1>1
    <3>3. c \in B  BY <3>1, <3>2, <1>5
    <3>4. own[c] \subseteq own[id]  BY <1>4
    <3> QED BY <3>3, <3>4
  <2>2. ASSUME NEW x \in u[id] PROVE x \in own[id] /\ x \in AllKeys(ns)
    <3>1. \/ x \in Int /\ Holds(ns[id], x)
          \/ \E c \in ToSet(ns[id].kids) \ {0} : x \in u[c]
      BY <1>2
    <3> QED BY <3>1, <2>1, <1>3
  <2> QED BY <2>2
<1>6. \A id \in 1 .. N : u[id] \subseteq own[id] /\ u[id] \subseteq AllKeys(ns)
  <2> DEFINE C == B
  <2>1. \A id \in 1 .. N : ht[id] \in Nat  BY <1>1
  <2>2. \A id \in 1 .. N : (\A j \in 1 .. N : ht[j] < ht[id] => j \in B) => id \in B
    BY <1>5
  <2>3. \A id \in 1 .. N : id \in B
    <3> HIDE DEF B, N
    <3> QED BY <2>1, <2>2, <1>1, Upward
  <2> QED BY <2>3
<1>7. ASSUME Parented(ns, r, r) PROVE u[r] = AllKeys(ns)
  <2> DEFINE depth == [id \in 1 .. N |-> ht[r] - ht[id]]
             D == {id \in 1 .. N : u[id] \subseteq u[r]}
  <2>1. \A id \in 1 .. N : depth[id] \in Nat
    <3> TAKE id \in 1 .. N
    <3>1. depth[id] = ht[r] - ht[id]  OBVIOUS
    <3>2. ht[r] \in Nat /\ ht[id] \in Nat /\ ht[id] <= ht[r]  BY <1>1
    <3> QED BY <3>1, <3>2
  <2>2. ASSUME NEW id \in 1 .. N, \A j \in 1 .. N : depth[j] < depth[id] => j \in D
        PROVE  id \in D
    <3>1. CASE id = r  BY <3>1
    <3>2. CASE id # r
      <4>1. HasParent(ns, id)  BY <3>2, <1>7 DEF Parented
      <4>2. PICK p \in 1 .. N : \E i \in 1 .. Len(ns[p].kids) : ns[p].kids[i] = id
        BY <4>1 DEF HasParent
      <4>3. id \in ToSet(ns[p].kids) \ {0}
        <5>1. id # 0  BY <1>1
        <5> QED BY <4>2, <5>1, <1>2
      <4>4. ht[id] = ht[p] - 1  BY <4>3, <1>2
      <4>5. depth[p] < depth[id]
        <5>1. depth[p] = ht[r] - ht[p] /\ depth[id] = ht[r] - ht[id]  OBVIOUS
        <5>2. ht[r] \in Nat /\ ht[id] \in Nat /\ ht[p] \in Nat  BY <1>1
        <5> QED BY <4>4, <5>1, <5>2
      <4>6. u[p] \subseteq u[r]  BY <4>5, <2>2
      <4>7. u[id] \subseteq u[p]  BY <4>3, <1>2
      <4> QED BY <4>6, <4>7
    <3> QED BY <3>1, <3>2
  <2>3. \A id \in 1 .. N : id \in D
    <3>1. \A id \in 1 .. N : (\A j \in 1 .. N : depth[j] < depth[id] => j \in D) => id \in D
      BY <2>2
    <3> HIDE DEF D, N, depth
    <3> QED BY <2>1, <3>1, <1>1, Upward
  <2>4. AllKeys(ns) \subseteq u[r]
    <3> SUFFICES ASSUME NEW x \in Int, NEW id \in 1 .. N, Holds(ns[id], x) PROVE x \in u[r]
      BY DEF AllKeys
    <3>1. x \in u[id]  BY <1>2
    <3> QED BY <3>1, <2>3
  <2> QED BY <2>4, <1>1, <1>6
<1> QED BY <1>6, <1>7

(* What the recursion of b_Find computes: the keys are found. *)
LEMMA FindIs ==
  ASSUME NEW ns, NEW r, NEW ht, NEW own, Tree(ns, r, ht, own, own), Parented(ns, r, r),
         NEW k \in Int,
         NEW f, f = [id \in 1 .. Len(ns) |-> FindStep(f, ns, k, id)]
  PROVE  f[r] <=> k \in AllKeys(ns)
<1> DEFINE N == Len(ns)
<1>1. N \in Nat /\ r \in 1 .. N /\ \A id \in 1 .. N : ht[id] \in Nat
  BY TreeIs
<1>2. PICK u : u = [id \in 1 .. N |-> UnderStep(u, ns, id)]
  BY UnderExists
<1>3. /\ \A id \in 1 .. N : u[id] \subseteq own[id]
      /\ u[r] = AllKeys(ns)
  BY <1>2, UnderIs
<1> DEFINE B == {id \in 1 .. N : k \in own[id] => (f[id] <=> k \in u[id])}
<1>4. ASSUME NEW id \in 1 .. N, \A j \in 1 .. N : ht[j] < ht[id] => j \in B
      PROVE  id \in B
  <2> SUFFICES ASSUME k \in own[id] PROVE f[id] <=> k \in u[id]
    OBVIOUS
  <2>1. f[id] = FindStep(f, ns, k, id)  OBVIOUS
  <2>2. u[id] = ToSet(ns[id].keys) \cup UNION {u[c] : c \in ToSet(ns[id].kids) \ {0}}
    BY <1>2 DEF UnderStep
  <2>3. ToSet(ns[id].keys) = {x \in Int : Holds(ns[id], x)}
    BY KidsAre
  <2>4. CASE Holds(ns[id], k)
    BY <2>1, <2>2, <2>3, <2>4 DEF FindStep
  <2>5. CASE ~Holds(ns[id], k)
    <3>1. f[id] <=> Kid(ns[id], k) # 0 /\ f[Kid(ns[id], k)]
      BY <2>1, <2>5 DEF FindStep
    <3>2. k \in u[id] <=> \E c \in ToSet(ns[id].kids) \ {0} : k \in u[c]
      BY <2>2, <2>3, <2>5
    <3>3. \A c \in ToSet(ns[id].kids) \ {0} :
              /\ c \in 1 .. N /\ ht[c] = ht[id] - 1
              /\ \E i \in 1 .. Len(ns[id].kids) : ns[id].kids[i] = c
      <4>1. \A c \in ToSet(ns[id].kids) \ {0} : c \in 1 .. N /\ ht[c] = ht[id] - 1
        BY KidsAre
      <4>2. \A c \in ToSet(ns[id].kids) \ {0} :
              \E i \in 1 .. Len(ns[id].kids) : ns[id].kids[i] = c
        <5>1. ns[id] \in Node  BY TreeIs
        <5> QED BY <5>1, KidPlace
      <4> QED BY <4>1, <4>2
    <3>4. \A i \in 1 .. Len(ns[id].kids) : ns[id].kids[i] \in ToSet(ns[id].kids)
      BY KidsAre
    <3> DEFINE p == b_scanNode(ns[id], k) + 1
               d == Kid(ns[id], k)
    <3>5. /\ p \in 1 .. Len(ns[id].kids) /\ k \in Slot(own[id], ns[id].keys, p)
          /\ \A j \in 1 .. Len(ns[id].kids) : k \in Slot(own[id], ns[id].keys, j) => j = p
      BY <2>5, ScanTree
    <3>6. d = ns[id].kids[p]
      BY KidIs
    <3> HIDE DEF p
    <3>7. ASSUME NEW c \in ToSet(ns[id].kids) \ {0}, k \in u[c] PROVE c = d
      <4>1. PICK i \in 1 .. Len(ns[id].kids) : ns[id].kids[i] = c  BY <3>3
      <4>2. own[c] = Slot(own[id], ns[id].keys, i)  BY <4>1, SlotOKOf
      <4>3. k \in own[c]  BY <3>3, <3>7, <1>3
      <4>4. i = p  BY <4>2, <4>3, <3>5
      <4> QED BY <4>1, <4>4, <3>6
    <3>8. CASE d = 0
      <4>1. ~f[id]  BY <3>1, <3>8
      <4>2. k \notin u[id]  BY <3>2, <3>7, <3>8
      <4> QED BY <4>1, <4>2
    <3>9. CASE d # 0
      <4>1. d \in ToSet(ns[id].kids) \ {0}  BY <3>4, <3>5, <3>6, <3>9
      <4>2. d \in 1 .. N /\ ht[d] = ht[id] - 1  BY <4>1, <3>3
      <4>3. ht[d] < ht[id]  BY <4>2, <1>1
      <4>4. own[d] = Slot(own[id], ns[id].keys, p)  BY <3>5, <3>6, <3>9, SlotOKOf
      <4>5. f[d] <=> k \in u[d]  BY <4>2, <4>3, <4>4, <3>5, <1>4
      <4>6. k \in u[id] <=> k \in u[d]  BY <3>2, <3>7, <4>1
      <4> QED BY <3>1, <3>9, <4>5, <4>6
    <3> QED BY <3>8, <3>9
  <2> QED BY <2>4, <2>5
<1>5. \A id \in 1 .. N : id \in B
  <2>1. \A id \in 1 .. N : (\A j \in 1 .. N : ht[j] < ht[id] => j \in B) => id \in B
    BY <1>4
  <2> HIDE DEF B, N
  <2> QED BY <2>1, <1>1, Upward
<1>6. own[r] = Int
  BY DEF Tree
<1>7. r \in B
  BY <1>1, <1>5
<1> QED BY <1>3, <1>6, <1>7

(* Steps up the recursion compose. *)
LEMMA PlacedTrans ==
  ASSUME NEW ns, NEW r, NEW ht, NEW own, NEW N, N = Len(ns),
         NEW d \in 1 .. N, NEW id \in 1 .. N, NEW k,
         \A j \in 1 .. N : ht[j] \in Nat, ht[d] < ht[id], N \in Nat,
         NEW st, NEW h2, NEW o2, NEW s2, Placed(st, ns, r, ht, own, d, k, h2, o2, s2),
         ~st.done, Len(st.nodes) \in Nat,
         NEW tt, NEW h3, NEW o3, NEW s3,
         Placed(tt, st.nodes, r, h2, o2, id, st.key, h3, o3, s3), Len(tt.nodes) \in Nat
  PROVE  Placed(tt, ns, r, ht, own, id, k, h3, o3, s3)
<1>1. /\ Len(st.nodes) >= N
      /\ \A j \in 1 .. N :
           /\ h2[j] = ht[j]
           /\ ht[j] > ht[d] => st.nodes[j] = ns[j] /\ o2[j] = own[j]
      /\ AllKeys(st.nodes) \cup {st.key} = AllKeys(ns) \cup {k}
  BY DEF Placed
<1>2. /\ Tree(tt.nodes, r, h3, o3, s3)
      /\ Len(tt.nodes) >= Len(st.nodes)
      /\ \A j \in 1 .. Len(st.nodes) :
           /\ h3[j] = h2[j]
           /\ h2[j] > h2[id] => tt.nodes[j] = st.nodes[j] /\ o3[j] = o2[j]
      /\ Sizes(tt.nodes, r)
      /\ tt.done => /\ s3 = o3 /\ Parented(tt.nodes, r, r)
                    /\ AllKeys(tt.nodes) = AllKeys(st.nodes) \cup {st.key}
      /\ ~tt.done => /\ Pending(tt.nodes, r, h3, o3, s3, id, tt.key, tt.rp)
                     /\ Parented(tt.nodes, r, tt.rp)
                     /\ Len(tt.nodes[id].keys) = 2
                     /\ AllKeys(tt.nodes) \cup {tt.key} = AllKeys(st.nodes) \cup {st.key}
  BY DEF Placed
<1>3. \A j \in 1 .. N : j \in 1 .. Len(st.nodes)
  BY <1>1
<1>4. Len(tt.nodes) >= N
  BY <1>1, <1>2
<1>5. \A j \in 1 .. N :
           /\ h3[j] = ht[j]
           /\ ht[j] > ht[id] => tt.nodes[j] = ns[j] /\ o3[j] = own[j]
  <2> TAKE j \in 1 .. N
  <2>1. h3[j] = h2[j] /\ h2[j] = ht[j] /\ h2[id] = ht[id]  BY <1>1, <1>2, <1>3
  <2>2. ASSUME ht[j] > ht[id] PROVE tt.nodes[j] = ns[j] /\ o3[j] = own[j]
    <3>1. ht[j] \in Nat /\ ht[id] \in Nat /\ ht[d] \in Nat /\ ht[d] < ht[id]  OBVIOUS
    <3>2. ht[j] > ht[d]  BY ONLY <3>1, <2>2
    <3>3. st.nodes[j] = ns[j] /\ o2[j] = own[j]  BY <3>2, <1>1
    <3>4. tt.nodes[j] = st.nodes[j] /\ o3[j] = o2[j]  BY <2>1, <2>2, <1>2, <1>3
    <3> QED BY <3>3, <3>4
  <2> QED BY <2>1, <2>2
<1> QED BY <1>1, <1>2, <1>4, <1>5 DEF Placed

(* An insertion that ended below a node is one that ended at the node. *)
LEMMA PlacedHigher ==
  ASSUME NEW ns, NEW r, NEW ht, NEW own, NEW d \in 1 .. Len(ns), NEW id \in 1 .. Len(ns), NEW k,
         \A j \in 1 .. Len(ns) : ht[j] \in Nat, ht[d] < ht[id],
         NEW st, NEW h2, NEW o2, NEW s2, Placed(st, ns, r, ht, own, d, k, h2, o2, s2), st.done
  PROVE  Placed(st, ns, r, ht, own, id, k, h2, o2, s2)
<1>1. \A j \in 1 .. Len(ns) : ht[j] > ht[id] => ht[j] > ht[d]
  <2> TAKE j \in 1 .. Len(ns)
  <2>1. ht[j] \in Nat /\ ht[id] \in Nat /\ ht[d] \in Nat /\ ht[d] < ht[id]  OBVIOUS
  <2> QED BY ONLY <2>1
<1> QED BY <1>1 DEF Placed

(* An insertion into the nodes below and at id. *)
LEMMA InsertIs ==
  ASSUME NEW ns, NEW r, NEW ht, NEW own, Tree(ns, r, ht, own, own),
         Parented(ns, r, r), Sizes(ns, r), NEW k \in Int, k \notin AllKeys(ns),
         NEW f, f = [id \in 1 .. Len(ns) |-> InsertStep(f, ns, k, id)]
  PROVE  \E h2, o2, s2 : Placed(f[r], ns, r, ht, own, r, k, h2, o2, s2)
<1> DEFINE Fits(id) == \E h2, o2, s2 : Placed(f[id], ns, r, ht, own, id, k, h2, o2, s2)
           B == {id \in 1 .. Len(ns) : k \in own[id] => Fits(id)}
<1>1. Len(ns) \in Nat /\ r \in 1 .. Len(ns)
      /\ \A id \in 1 .. Len(ns) : ht[id] \in Nat /\ ht[id] <= ht[r]
  BY TreeIs
<1>2. \A id \in 1 .. Len(ns) : ~Holds(ns[id], k)
  BY DEF AllKeys
<1>3. ASSUME NEW id \in 1 .. Len(ns), \A j \in 1 .. Len(ns) : ht[j] < ht[id] => j \in B
      PROVE  id \in B
  <2> SUFFICES ASSUME k \in own[id] PROVE Fits(id)
    OBVIOUS
  <2> HIDE DEF B
  <2>1. f[id] = InsertStep(f, ns, k, id)  OBVIOUS
  <2> DEFINE d == Kid(ns[id], k)
             p == b_scanNode(ns[id], k) + 1
  <2>2. p \in 1 .. Len(ns[id].kids) /\ k \in Slot(own[id], ns[id].keys, p)
    BY <1>2, ScanTree
  <2>3. /\ d = ns[id].kids[p]
        /\ d # 0 => d \in 1 .. Len(ns) /\ ht[d] = ht[id] - 1
        /\ d = 0 <=> ht[id] = 0
    BY KidIs
  <2>4. CASE d = 0
    <3>1. f[id] = b_addData(ns, id, k, 0)
      BY <2>1, <2>4 DEF InsertStep
    <3>2. Parented(ns, r, 0)
      <4>1. \A c \in 1 .. Len(ns) : c # r => HasParent(ns, c)  BY DEF Parented
      <4> QED BY <4>1 DEF Parented
    <3>3. \A mm : Changed(mm, ns, id, Put(ns[id], b_scanNode(ns[id], k) + 1, k, 0))
                   => PutDone(mm, ns, r, ht, own, k, 0)
      <4> SUFFICES ASSUME NEW mm, Changed(mm, ns, id, Put(ns[id], b_scanNode(ns[id], k) + 1, k, 0))
                   PROVE  PutDone(mm, ns, r, ht, own, k, 0)
        OBVIOUS
      <4>1. ht[id] = 0 /\ ~Holds(ns[id], k)  BY <2>3, <2>4, <1>2
      <4> QED BY <4>1, PutLeaf, ZenonT(60)
    <3>4. 0 \in Nat  OBVIOUS
    <3>5. \E h2, o2, s2 : Placed(b_addData(ns, id, k, 0), ns, r, ht, own, id, k, h2, o2, s2)
      BY <3>2, <3>3, <3>4, AddPlaced, ZenonT(60)
    <3> QED BY <3>1, <3>5
  <2>5. CASE d # 0
    <3>1. d \in 1 .. Len(ns) /\ ht[d] = ht[id] - 1 /\ ht[id] # 0  BY <2>3, <2>5
    <3>2. ht[d] < ht[id] /\ d # r
      <4>1. ht[id] \in Nat /\ ht[id] <= ht[r] /\ ht[r] \in Nat  BY <1>1
      <4>2. ht[d] < ht[id] /\ ht[d] < ht[r]  BY ONLY <4>1, <3>1
      <4>3. d = r => ~(ht[d] < ht[r])  BY ONLY <4>1
      <4> QED BY <4>2, <4>3
    <3>3. own[d] = Slot(own[id], ns[id].keys, p)
      BY <2>2, <2>3, <3>1, SlotOKOf
    <3>4. Fits(d)
      BY <3>1, <3>2, <3>3, <2>2, <1>3 DEF B
    <3> DEFINE st == f[d]
    <3>5. PICK h2, o2, s2 : Placed(st, ns, r, ht, own, d, k, h2, o2, s2)
      BY <3>4
    <3>d. /\ st.done => f[id] = st
          /\ ~st.done => f[id] = b_addData(st.nodes, id, st.key, st.rp)
      BY <2>1, <2>5 DEF InsertStep
    <3> HIDE DEF st
    <3>h. \A j \in 1 .. Len(ns) : ht[j] \in Nat  BY <1>1
    <3>6. CASE st.done
      <4>1. Placed(st, ns, r, ht, own, id, k, h2, o2, s2)
        <5> HIDE DEF d
        <5> QED BY <3>1, <3>2, <3>5, <3>6, <3>h, PlacedHigher, ZenonT(60)
      <4> QED BY <4>1, <3>6, <3>d
    <3>7. CASE ~st.done
      <4> DEFINE ms == st.nodes
                 tt == b_addData(ms, id, st.key, st.rp)
      <4>1. /\ Tree(ms, r, h2, o2, s2) /\ Sizes(ms, r) /\ Len(ms) >= Len(ns)
            /\ Pending(ms, r, h2, o2, s2, d, st.key, st.rp)
            /\ Parented(ms, r, st.rp)
            /\ ms[id] = ns[id]
        <5>1. ht[id] > ht[d]  BY <3>1, <3>2, <1>1
        <5> QED BY <5>1, <3>5, <3>7 DEF Placed
      <4>2. id \in 1 .. Len(ms) /\ Len(ms) \in Nat
        <5>1. Len(ms) \in Nat  BY <4>1, TreeIs
        <5> HIDE DEF ms
        <5> QED BY <5>1, <4>1, <1>1
      <4>3. st.key \in Int /\ st.rp \in Nat
        <5>1. d \in 1 .. Len(ms) /\ st.key \in s2[d] /\ st.rp \in 1 .. Len(ms)
          BY <4>1 DEF Pending
        <5>2. s2[d] \in SUBSET Int  BY <5>1, <4>1, TreeIs
        <5> QED BY <5>1, <5>2
      <4>4. p \in 1 .. Len(ms[id].kids) /\ ms[id].kids[p] = d
        BY <4>1, <2>2, <2>3
      <4> HIDE DEF ms, p, d
      <4>5. \A mm : Changed(mm, ms, id, Put(ms[id], b_scanNode(ms[id], st.key) + 1, st.key, st.rp))
                   => PutDone(mm, ms, r, h2, o2, st.key, st.rp)
        BY <4>1, <4>2, <4>4, <3>2, PutPending, ZenonT(60)
      <4>6. \E h3, o3, s3 : Placed(tt, ms, r, h2, o2, id, st.key, h3, o3, s3)
        BY <4>1, <4>2, <4>3, <4>5, AddPlaced, ZenonT(60)
      <4> HIDE DEF tt
      <4>7. PICK h3, o3, s3 : Placed(tt, ms, r, h2, o2, id, st.key, h3, o3, s3)
        BY <4>6
      <4>8. Len(tt.nodes) \in Nat
        <5>1. Tree(tt.nodes, r, h3, o3, s3)  BY <4>7 DEF Placed
        <5> QED BY <5>1, TreeIs
      <4>9. Placed(tt, ns, r, ht, own, id, k, h3, o3, s3)
        <5>1. Placed(tt, st.nodes, r, h2, o2, id, st.key, h3, o3, s3) /\ Len(st.nodes) \in Nat
          BY <4>2, <4>7 DEF ms
        <5>2. Len(ns) \in Nat /\ Len(ns) = Len(ns)  BY <1>1
        <5> QED BY <5>1, <5>2, <4>8, <3>1, <3>2, <3>5, <3>7, <3>h, PlacedTrans, ZenonT(60)
      <4>10. f[id] = tt
        BY <3>7, <3>d DEF tt, ms
      <4> QED BY <4>9, <4>10
    <3> QED BY <3>6, <3>7
  <2> QED BY <2>4, <2>5
<1>4. \A id \in 1 .. Len(ns) : id \in B
  <2>1. \A id \in 1 .. Len(ns) : (\A j \in 1 .. Len(ns) : ht[j] < ht[id] => j \in B) => id \in B
    BY <1>3
  <2> HIDE DEF B
  <2> QED BY <2>1, <1>1, Upward
<1>5. own[r] = Int
  BY DEF Tree
<1> HIDE DEF Fits
<1>6. Fits(r)
  BY <1>1, <1>4, <1>5
<1> QED BY <1>6 DEF Fits

(* The whole of an insertion. *)
LEMMA InsertSound ==
  ASSUME NEW ns, NEW r, NEW ks, SoundTree(ns, r, ks), NEW k \in Int, k \notin ks,
         NEW f, f = [id \in 1 .. Len(ns) |-> InsertStep(f, ns, k, id)],
         NEW ms, NEW q,
         IF f[r].done THEN ms = f[r].nodes /\ q = r
         ELSE /\ ms = Append(f[r].nodes, [keys |-> <<f[r].key>>, kids |-> <<r, f[r].rp>>])
              /\ q = Len(f[r].nodes) + 1
  PROVE  SoundTree(ms, q, ks \cup {k})
<1>1. PICK ht, own : Tree(ns, r, ht, own, own)
  BY DEF SoundTree
<1>2. Parented(ns, r, r) /\ Sizes(ns, r) /\ AllKeys(ns) = ks
  BY DEF SoundTree
<1> DEFINE st == f[r]
<1>3. \E h2, o2, s2 : Placed(st, ns, r, ht, own, r, k, h2, o2, s2)
  BY <1>1, <1>2, InsertIs
<1>4. /\ st.done => ms = st.nodes /\ q = r
      /\ ~st.done => /\ ms = Append(st.nodes, [keys |-> <<st.key>>, kids |-> <<r, st.rp>>])
                     /\ q = Len(st.nodes) + 1
  OBVIOUS
<1> HIDE DEF st
<1>5. PICK h2, o2, s2 : Placed(st, ns, r, ht, own, r, k, h2, o2, s2)
  BY <1>3
<1>6. CASE st.done
  <2>1. /\ Tree(st.nodes, r, h2, o2, o2) /\ Sizes(st.nodes, r) /\ Parented(st.nodes, r, r)
        /\ AllKeys(st.nodes) = ks \cup {k}
    BY <1>2, <1>5, <1>6 DEF Placed
  <2> QED BY <2>1, <1>4, <1>6 DEF SoundTree
<1>7. CASE ~st.done
  <2>1. /\ Tree(st.nodes, r, h2, o2, s2) /\ Sizes(st.nodes, r)
        /\ Pending(st.nodes, r, h2, o2, s2, r, st.key, st.rp)
        /\ Parented(st.nodes, r, st.rp) /\ Len(st.nodes[r].keys) = 2
        /\ AllKeys(st.nodes) \cup {st.key} = ks \cup {k}
    BY <1>2, <1>5, <1>7 DEF Placed
  <2>2. /\ st.nodes \in Seq(Node) /\ Len(st.nodes) \in Nat /\ r \in 1 .. Len(st.nodes)
        /\ st.rp \in 1 .. Len(st.nodes) /\ st.key \in Int
    <3>1. st.nodes \in Seq(Node) /\ Len(st.nodes) \in Nat /\ r \in 1 .. Len(st.nodes)
      BY <2>1, TreeIs
    <3>2. st.rp \in 1 .. Len(st.nodes) /\ st.key \in s2[r]
      BY <2>1 DEF Pending
    <3>3. s2[r] = Int  BY <2>1 DEF Tree
    <3> QED BY <3>1, <3>2, <3>3
  <2> DEFINE n == [keys |-> <<st.key>>, kids |-> <<r, st.rp>>]
  <2>3. n \in Node
    <3>1. r \in Nat /\ st.rp \in Nat  BY <2>2
    <3> QED BY <3>1, <2>2, RootNode
  <2>4. Grown(ms, st.nodes, r, st.key, st.rp)
    <3>1. ms = Append(st.nodes, n)  BY <1>4, <1>7
    <3> HIDE DEF n
    <3>2. /\ ms \in Seq(Node) /\ Len(ms) = Len(st.nodes) + 1
          /\ ms[Len(st.nodes) + 1] = n
          /\ \A j \in 1 .. Len(st.nodes) : ms[j] = st.nodes[j]
      BY <3>1, <2>2, <2>3, AppendProperties
    <3> QED BY <3>2 DEF Grown, n
  <2>5. Len(st.nodes[r].keys) >= 2  BY <2>1
  <2>6. SoundTree(ms, Len(st.nodes) + 1, AllKeys(st.nodes) \cup {st.key})
    BY <2>1, <2>4, <2>5, GrowRoot, ZenonT(60)
  <2> QED BY <2>1, <2>6, <1>4, <1>7
<1> QED BY <1>6, <1>7

(* In a sound tree b_Find finds its keys and no others. *)
LEMMA SoundFind ==
  ASSUME NEW ns, NEW r, NEW ks, SoundTree(ns, r, ks), NEW k \in Int,
         NEW f, f = CHOOSE g : g = [id \in 1 .. Len(ns) |-> FindStep(g, ns, k, id)]
  PROVE  f[r] <=> k \in ks
<1>1. PICK ht, own : Tree(ns, r, ht, own, own)
  BY DEF SoundTree
<1>2. Parented(ns, r, r) /\ AllKeys(ns) = ks
  BY DEF SoundTree
<1>3. \E g : g = [id \in 1 .. Len(ns) |-> FindStep(g, ns, k, id)]
  BY <1>1, FindExists
<1>4. f = [id \in 1 .. Len(ns) |-> FindStep(f, ns, k, id)]
  BY <1>3
<1> QED BY <1>1, <1>2, <1>4, FindIs

(* The nodes of a sound tree are numbered from 1. *)
LEMMA SoundDomain ==
  ASSUME NEW ns, NEW r, NEW ks, SoundTree(ns, r, ks)
  PROVE  DOMAIN ns = 1 .. Len(ns)
<1>1. PICK ht, own : Tree(ns, r, ht, own, own)
  BY DEF SoundTree
<1>2. ns \in Seq(Node)  BY <1>1, TreeIs
<1> QED BY <1>2

(* b_Find finds the keys that have a line. *)
Found == \A k \in Int : b_Find(k) <=> k \in DOMAIN atoms

(* In a sound tree b_Find tells which keys have a line. *)
LEMMA FoundIs ==
  ASSUME SoundTree(nodes, root, DOMAIN atoms)
  PROVE  Found
<1> SUFFICES ASSUME NEW k \in Int PROVE b_Find(k) <=> k \in DOMAIN atoms
  BY DEF Found
<1>1. DOMAIN nodes = 1 .. Len(nodes)
  BY SoundDomain
<1>2. b_Find(k) = (CHOOSE g : g = [id \in DOMAIN nodes |-> FindStep(g, nodes, k, id)])[root]
  BY DEF b_Find, FindStep
<1> QED BY <1>1, <1>2, SoundFind

(* b_insert keeps the tree sound; a line whose key is there is dropped,    *)
(* another is added.                                                       *)
LEMMA InsertDone ==
  ASSUME SoundTree(nodes, root, DOMAIN atoms), NEW k \in Int, NEW line, b_insert(k, line)
  PROVE  /\ SoundTree(nodes', root', DOMAIN (atoms'))
         /\ k \in DOMAIN atoms => UNCHANGED treevars
         /\ k \notin DOMAIN atoms =>
              atoms' = [i \in DOMAIN atoms \cup {k} |-> IF i = k THEN line ELSE atoms[i]]
<1>1. b_Find(k) <=> k \in DOMAIN atoms
  BY FoundIs DEF Found
<1>2. CASE k \in DOMAIN atoms
  BY <1>1, <1>2 DEF b_insert, treevars
<1>3. CASE k \notin DOMAIN atoms
  <2>1. DOMAIN nodes = 1 .. Len(nodes)
    BY SoundDomain
  <2> DEFINE f == CHOOSE g : g = [id \in 1 .. Len(nodes) |-> InsertStep(g, nodes, k, id)]
  <2>2. f = [id \in 1 .. Len(nodes) |-> InsertStep(f, nodes, k, id)]
    <3>1. PICK ht, own : Tree(nodes, root, ht, own, own)
      BY DEF SoundTree
    <3>2. \E g : g = [id \in 1 .. Len(nodes) |-> InsertStep(g, nodes, k, id)]
      BY <3>1, InsertExists
    <3> QED BY <3>2
  <2>3. b_recursiveInsert(k) = (CHOOSE g : g = [id \in DOMAIN nodes |-> InsertStep(g, nodes, k, id)])[root]
    BY DEF b_recursiveInsert, InsertStep
  <2>4. b_recursiveInsert(k) = f[root]
    BY <2>1, <2>3
  <2> HIDE DEF f
  <2>5. /\ IF f[root].done THEN nodes' = f[root].nodes /\ root' = root
           ELSE /\ nodes' = Append(f[root].nodes, [keys |-> <<f[root].key>>, kids |-> <<root, f[root].rp>>])
                /\ root' = Len(f[root].nodes) + 1
        /\ atoms' = [i \in DOMAIN atoms \cup {k} |-> IF i = k THEN line ELSE atoms[i]]
    BY <1>1, <1>3, <2>4 DEF b_insert
  <2>6. SoundTree(nodes', root', DOMAIN atoms \cup {k})
    BY <1>3, <2>2, <2>5, InsertSound
  <2>7. DOMAIN (atoms') = DOMAIN atoms \cup {k}
    BY <2>5
  <2> QED BY <1>3, <2>5, <2>6, <2>7
<1> QED BY <1>2, <1>3

(* goldfinger never changes what the run was given. *)
LEMMA InputKept ==
  ASSUME GfNext
  PROVE  input' = input
<1>1. CASE process_cmdline  BY <1>1 DEF process_cmdline, Fail
<1>2. CASE Parse
  BY <1>2 DEF Parse, open_new_tsb, set_tsb, close_tsb, open_new_tsb_link, set_tsb_link,
     close_tsb_link, open_new_app, set_app, close_app, open_new_block, set_block,
     close_block, open_new_block_tsb, set_block_tsb, close_block_tsb, OpenTable, SetTable,
     CloseTable, SetOpenBlock, NextStatement, Fail
<1>3. CASE finish_image_file_init  BY <1>3 DEF finish_image_file_init, Fail
<1>4. CASE SeeSections  BY <1>4 DEF SeeSections, Fail
<1>5. CASE ProcessSection  BY <1>5 DEF ProcessSection, Fail
<1>6. CASE NextExecutable  BY <1>6 DEF NextExecutable
<1>7. CASE NextVector  BY <1>7 DEF NextVector
<1>8. CASE add_apps_to_tsbs  BY <1>8 DEF add_apps_to_tsbs, Fail
<1>9. CASE add_apps_to_tsbcsms  BY <1>9 DEF add_apps_to_tsbcsms, Fail
<1>10. CASE write_tsbs  BY <1>10 DEF write_tsbs, WriteObject, Fail
<1>11. CASE write_tsb_links  BY <1>11 DEF write_tsb_links, WriteObject, Fail
<1>12. CASE write_tsbcsms  BY <1>12 DEF write_tsbcsms, WriteObject, Fail
<1>13. CASE write_tsbcsm_links  BY <1>13 DEF write_tsbcsm_links, WriteObject, Fail
<1>14. CASE print_symtab  BY <1>14 DEF print_symtab
<1> QED BY <1>1, <1>2, <1>3, <1>4, <1>5, <1>6, <1>7, <1>8, <1>9, <1>10, <1>11, <1>12,
           <1>13, <1>14 DEF GfNext

(* Two addresses that differ by a multiple of MEM_SPACE are one. *)
LEMMA MaskIs ==
  ASSUME NEW a \in Nat
  PROVE  /\ mask_addr(a) \in Nat
         /\ a % LINE_UNITS \in 0 .. LINE_UNITS - 1
<1>1. MEM_SPACE \in Nat \ {0}  BY MemSpaceAssumption
<1>2. a % MEM_SPACE \in Nat  BY <1>1
<1> QED BY <1>2 DEF mask_addr, LINE_UNITS

(* Addresses are told apart by line and offset. *)
LEMMA MaskSame ==
  ASSUME NEW a \in Nat, NEW b \in Nat
  PROVE  a % MEM_SPACE = b % MEM_SPACE <=>
           mask_addr(a) = mask_addr(b) /\ a % LINE_UNITS = b % LINE_UNITS
<1>1. PICK t \in Nat : MEM_SPACE = 8 * t /\ t > 0
  <2>1. MEM_SPACE \in Nat \ {0} /\ MEM_SPACE % 8 = 0  BY MemSpaceAssumption
  <2>2. MEM_SPACE \div 8 \in Nat /\ MEM_SPACE = 8 * (MEM_SPACE \div 8) /\ MEM_SPACE \div 8 > 0  BY <2>1
  <2> QED BY <2>2
<1>2. ASSUME NEW x \in Nat PROVE x % MEM_SPACE \in Nat /\ x % 8 = (x % MEM_SPACE) % 8
  <2>1. x % MEM_SPACE \in Nat /\ x = MEM_SPACE * (x \div MEM_SPACE) + (x % MEM_SPACE)
        /\ x \div MEM_SPACE \in Int
    <3>1. MEM_SPACE \in Nat \ {0}  BY MemSpaceAssumption
    <3>2. \A m \in Nat \ {0} : x % m \in Nat /\ x = m * (x \div m) + (x % m) /\ x \div m \in Int
      OBVIOUS
    <3> QED BY <3>1, <3>2
  <2> DEFINE q == x \div MEM_SPACE
             m == x % MEM_SPACE
             y == t * q
  <2>2. q \in Int /\ y \in Int /\ m \in Nat  BY <2>1
  <2>3. MEM_SPACE * q = 8 * y
    <3>1. \A i, j \in Int : (8 * i) * j = 8 * (i * j)  OBVIOUS
    <3> HIDE DEF q
    <3> QED BY <3>1, <2>2, <1>1
  <2>4. x = 8 * y + m
    BY <2>1, <2>3
  <2> HIDE DEF q, m, y
  <2>5. x % 8 = m % 8
    BY ONLY <2>2, <2>4
  <2> QED BY <2>1, <2>5 DEF m
<1>3. \A x, y \in Nat : x = y <=> x \div 8 = y \div 8 /\ x % 8 = y % 8
  OBVIOUS
<1>4. (a % MEM_SPACE) = (b % MEM_SPACE) <=>
        (a % MEM_SPACE) \div 8 = (b % MEM_SPACE) \div 8 /\ (a % MEM_SPACE) % 8 = (b % MEM_SPACE) % 8
  BY <1>2, <1>3
<1> QED BY <1>2, <1>4 DEF mask_addr, LINE_UNITS

(* What TreeSound says of one node. *)
LEMMA SoundNode ==
  ASSUME NEW ns, NEW r, NEW ht, NEW own, Tree(ns, r, ht, own, own), Sizes(ns, r),
         NEW h, \A id \in 1 .. Len(ns) : h[id] = ht[id] + 1,
         NEW u, \A id \in 1 .. Len(ns) : u[id] \subseteq own[id],
         NEW id \in 1 .. Len(ns)
  PROVE  /\ Len(ns[id].kids) = Len(ns[id].keys) + 1
         /\ Len(ns[id].keys) <= B_TREE_MAX
         /\ id # r => Len(ns[id].keys) >= B_TREE_ORDER
         /\ \A i \in DOMAIN ns[id].kids :
              IF h[id] = 1 THEN ns[id].kids[i] = 0
              ELSE ns[id].kids[i] # 0 /\ h[ns[id].kids[i]] = h[id] - 1
         /\ \A i, j \in DOMAIN ns[id].keys : i < j => ns[id].keys[i] < ns[id].keys[j]
         /\ h[id] > 1 =>
              \A i \in DOMAIN ns[id].keys :
                /\ \A k \in u[ns[id].kids[i]] : k < ns[id].keys[i]
                /\ \A k \in u[ns[id].kids[i + 1]] : ns[id].keys[i] < k
<1> DEFINE n == ns[id]
<1>1. /\ Len(ns) \in Nat /\ n \in Node /\ ht[id] \in Nat
      /\ Len(n.kids) = Len(n.keys) + 1 /\ Sorted(n.keys)
  BY TreeIs
<1>2. /\ Len(n.keys) \in Nat
      /\ DOMAIN n.keys = 1 .. Len(n.keys) /\ DOMAIN n.kids = 1 .. Len(n.kids)
      /\ \A i \in 1 .. Len(n.keys) : n.keys[i] \in Int
  BY <1>1, NodeFacts
<1>3. Len(n.keys) <= B_TREE_MAX /\ (id # r => Len(n.keys) >= B_TREE_ORDER)
  BY DEF Sizes, B_TREE_MAX, B_TREE_ORDER
<1>4. ASSUME NEW i \in DOMAIN n.kids
      PROVE  IF h[id] = 1 THEN n.kids[i] = 0
             ELSE n.kids[i] # 0 /\ h[n.kids[i]] = h[id] - 1
  <2>1. h[id] = ht[id] + 1  OBVIOUS
  <2>2. CASE ht[id] = 0
    <3>1. n.kids[i] = 0  BY <1>2, <2>2, SlotOKOf
    <3> QED BY <3>1, <2>1, <2>2
  <2>3. CASE ht[id] # 0
    <3>1. n.kids[i] \in 1 .. Len(ns) /\ ht[n.kids[i]] = ht[id] - 1  BY <1>2, <2>3, SlotOKOf
    <3>2. h[n.kids[i]] = ht[n.kids[i]] + 1  BY <3>1
    <3>3. n.kids[i] # 0  BY <3>1, <1>1
    <3>4. h[n.kids[i]] = h[id] - 1 /\ h[id] # 1
      <4> HIDE DEF n
      <4> QED BY <3>1, <3>2, <2>1, <2>3, <1>1
    <3> QED BY <3>3, <3>4
  <2> QED BY <2>2, <2>3
<1>5. \A i, j \in DOMAIN n.keys : i < j => n.keys[i] < n.keys[j]
  BY <1>1 DEF Sorted
<1>6. ASSUME h[id] > 1, NEW i \in DOMAIN n.keys
      PROVE  /\ \A k \in u[n.kids[i]] : k < n.keys[i]
             /\ \A k \in u[n.kids[i + 1]] : n.keys[i] < k
  <2>1. h[id] = ht[id] + 1  OBVIOUS
  <2>2. ht[id] # 0  BY <2>1, <1>6, <1>1
  <2>3. i \in 1 .. Len(n.keys) /\ i \in 1 .. Len(n.kids) /\ i + 1 \in 1 .. Len(n.kids)
    <3> HIDE DEF n
    <3> QED BY <1>1, <1>2
  <2>4. /\ n.kids[i] \in 1 .. Len(ns) /\ own[n.kids[i]] = Slot(own[id], n.keys, i)
        /\ n.kids[i + 1] \in 1 .. Len(ns) /\ own[n.kids[i + 1]] = Slot(own[id], n.keys, i + 1)
    BY <2>2, <2>3, SlotOKOf
  <2>5. \A x \in Slot(own[id], n.keys, i) : x < n.keys[i]
    <3>1. i >= i  BY <2>3
    <3> QED BY <3>1, <2>3 DEF Slot
  <2>6. \A x \in Slot(own[id], n.keys, i + 1) : n.keys[i] < x
    <3>1. i < i + 1  BY <2>3
    <3> QED BY <3>1, <2>3 DEF Slot
  <2> QED BY <2>4, <2>5, <2>6
<1> QED BY <1>1, <1>3, <1>4, <1>5, <1>6

(* A sound tree is what TreeSound asks for. *)
LEMMA TreeSoundIs ==
  ASSUME SoundTree(nodes, root, DOMAIN atoms)
  PROVE  TreeSound
<1>1. PICK ht, own : Tree(nodes, root, ht, own, own)
  BY DEF SoundTree
<1>2. Parented(nodes, root, root) /\ Sizes(nodes, root) /\ AllKeys(nodes) = DOMAIN atoms
  BY DEF SoundTree
<1>3. DOMAIN nodes = 1 .. Len(nodes)
  BY SoundDomain
<1> DEFINE h == CHOOSE g : g = [id \in 1 .. Len(nodes) |-> HeightStep(g, nodes, id)]
           u == CHOOSE g : g = [id \in 1 .. Len(nodes) |-> UnderStep(g, nodes, id)]
<1>4. h = [id \in 1 .. Len(nodes) |-> HeightStep(h, nodes, id)]
  <2>1. \E g : g = [id \in 1 .. Len(nodes) |-> HeightStep(g, nodes, id)]
    BY <1>1, HeightExists
  <2> QED BY <2>1
<1>5. u = [id \in 1 .. Len(nodes) |-> UnderStep(u, nodes, id)]
  <2>1. \E g : g = [id \in 1 .. Len(nodes) |-> UnderStep(g, nodes, id)]
    BY <1>1, UnderExists
  <2> QED BY <2>1
<1>6. Height = h
  <2>1. Height = CHOOSE g : g = [id \in DOMAIN nodes |-> HeightStep(g, nodes, id)]
    BY DEF Height, HeightStep
  <2> QED BY <2>1, <1>3
<1>7. KeysUnder = u
  <2>1. KeysUnder = CHOOSE g : g = [id \in DOMAIN nodes |-> UnderStep(g, nodes, id)]
    BY DEF KeysUnder, UnderStep
  <2> QED BY <2>1, <1>3
<1> HIDE DEF h, u
<1>8. \A id \in 1 .. Len(nodes) : h[id] = ht[id] + 1
  BY <1>1, <1>4, HeightIs
<1>9. (\A id \in 1 .. Len(nodes) : u[id] \subseteq own[id]) /\ u[root] = DOMAIN atoms
  BY <1>1, <1>2, <1>5, UnderIs
<1>10. \A id \in 1 .. Len(nodes) :
         /\ Len(nodes[id].kids) = Len(nodes[id].keys) + 1
         /\ Len(nodes[id].keys) <= B_TREE_MAX
         /\ id # root => Len(nodes[id].keys) >= B_TREE_ORDER
         /\ \A i \in DOMAIN nodes[id].kids :
              IF h[id] = 1 THEN nodes[id].kids[i] = 0
              ELSE nodes[id].kids[i] # 0 /\ h[nodes[id].kids[i]] = h[id] - 1
         /\ \A i, j \in DOMAIN nodes[id].keys : i < j => nodes[id].keys[i] < nodes[id].keys[j]
         /\ h[id] > 1 =>
              \A i \in DOMAIN nodes[id].keys :
                /\ \A k \in u[nodes[id].kids[i]] : k < nodes[id].keys[i]
                /\ \A k \in u[nodes[id].kids[i + 1]] : nodes[id].keys[i] < k
  BY <1>1, <1>2, <1>8, <1>9, SoundNode
<1> QED BY <1>3, <1>6, <1>7, <1>9, <1>10 DEF TreeSound

-----------------------------------------------------------------------------
(* The memory through a run. *)

(* What the tree holds for a, by the keys that are in it. *)
Stored(a) ==
  IF mask_addr(a) \in DOMAIN atoms THEN atoms[mask_addr(a)][a % LINE_UNITS] ELSE 0

(* A line has a key and eight units. *)
Lines ==
  /\ DOMAIN atoms \subseteq Nat
  /\ \A k \in DOMAIN atoms : DOMAIN atoms[k] = 0 .. LINE_UNITS - 1

(* A cached line is the one last_addr names, and in the tree. *)
Cached == data # NULL => data = last_addr /\ data \in DOMAIN atoms

(* Memory holds what the run should see of it. *)
Shadowed ==
  /\ DOMAIN shadow \subseteq Nat
  /\ Ready => \A a \in DOMAIN shadow : shadow[a] = Stored(a)

(* What is true of the memory in every state. *)
MemInv ==
  /\ input \in Inputs
  /\ SoundTree(nodes, root, DOMAIN atoms)
  /\ Lines
  /\ addr \in Nat /\ next \in Int
  /\ Cached
  /\ Shadowed

(* Memory(a) is what is stored. *)
LEMMA StoredIs ==
  ASSUME SoundTree(nodes, root, DOMAIN atoms), NEW a \in Nat
  PROVE  Memory(a) = Stored(a)
<1>1. mask_addr(a) \in Int
  BY MaskIs
<1>2. b_Find(mask_addr(a)) <=> mask_addr(a) \in DOMAIN atoms
  BY <1>1, FoundIs DEF Found
<1> QED BY <1>2 DEF Memory, Stored

(* The empty tree is sound. *)
LEMMA FirstTree == SoundTree(<<b_create>>, 1, {})
<1> DEFINE ns == <<b_create>>
           ht == [id \in {1} |-> 0]
           own == [id \in {1} |-> Int]
<1>1. << >> \in Seq(Int) /\ <<0>> \in Seq(Nat) /\ Len(<< >>) = 0 /\ Len(<<0>>) = 1
      /\ DOMAIN << >> = {}
  OBVIOUS
<1>2. /\ b_create \in Node /\ b_create.keys = << >> /\ b_create.kids = <<0>>
  BY <1>1 DEF b_create, Node
<1>3. ns \in Seq(Node) /\ Len(ns) = 1 /\ ns[1] = b_create /\ 1 .. Len(ns) = {1}
  BY <1>2
<1>4. /\ ht \in [1 .. Len(ns) -> Nat] /\ own \in [1 .. Len(ns) -> SUBSET Int]
      /\ ht[1] = 0 /\ own[1] = Int
  BY <1>3
<1> HIDE DEF ns, ht, own
<1>5. /\ Len(ns[1].kids) = 1 /\ ns[1].kids[1] = 0 /\ Len(ns[1].keys) = 0 /\ DOMAIN ns[1].keys = {}
  <2>1. ns[1].keys = << >> /\ ns[1].kids = <<0>>
    BY <1>2, <1>3
  <2>2. <<0>>[1] = 0
    OBVIOUS
  <2> QED BY <2>1, <2>2, <1>1
<1>6. NodeOK(ns[1], own[1], ht[1], Len(ns), ht, own)
  <2>1. Sorted(ns[1].keys)  BY <1>5 DEF Sorted
  <2>2. \A i \in 1 .. Len(ns[1].keys) : ns[1].keys[i] \in own[1]  BY <1>5
  <2>3. \A i \in 1 .. Len(ns[1].kids) :
           SlotOK(ns[1].kids[i], Slot(own[1], ns[1].keys, i), ht[1], Len(ns), ht, own)
    BY <1>4, <1>5 DEF SlotOK
  <2> QED BY <2>1, <2>2, <2>3, <1>5 DEF NodeOK
<1>7. Unique(ns)
  BY <1>3, <1>5 DEF Unique
<1>8. \A id \in 1 .. Len(ns) : ht[id] <= ht[1]
  BY <1>3, <1>4
<1>9. Tree(ns, 1, ht, own, own)
  BY <1>3, <1>4, <1>6, <1>7, <1>8 DEF Tree
<1>10. Parented(ns, 1, 1) /\ Sizes(ns, 1)
  BY <1>3, <1>5 DEF Parented, Sizes
<1>11. AllKeys(ns) = {}
  BY <1>3, <1>5 DEF AllKeys, Holds
<1>12. SoundTree(ns, 1, {})
  BY <1>9, <1>10, <1>11 DEF SoundTree
<1> QED BY <1>12 DEF ns

(* A run starts with an empty memory. *)
LEMMA MemStart ==
  ASSUME Init
  PROVE  MemInv
<1>1. /\ input \in Inputs /\ nodes = <<b_create>> /\ root = 1
      /\ atoms = [k \in {} |-> << >>] /\ addr = 0 /\ next = 1 /\ data = NULL
      /\ shadow = [a \in input.probes |-> 0]
  BY DEF Init, GfInit, MemInit
<1>2. DOMAIN atoms = {}
  BY <1>1
<1>3. SoundTree(nodes, root, DOMAIN atoms)
  BY <1>1, <1>2, FirstTree
<1>4. Lines /\ Cached
  BY <1>1, <1>2 DEF Lines, Cached
<1>5. DOMAIN shadow \subseteq Nat
  BY <1>1, ProbesAssumption
<1>6. ~Ready
  BY <1>1 DEF Ready
<1> QED BY <1>1, <1>3, <1>4, <1>5, <1>6 DEF MemInv, Shadowed

(* Nothing of the memory changed. *)
LEMMA MemRests ==
  ASSUME MemInv, UNCHANGED memvars, shadow' = shadow, input' = input
  PROVE  MemInv'
<1>1. UNCHANGED <<next, addr, nodes, root, atoms, last_addr, data>>
  BY DEF memvars, loadvars, treevars, cachevars
<1>2. \A a : Stored(a)' = Stored(a)
  BY <1>1 DEF Stored, mask_addr
<1>3. Lines' /\ Cached'
  BY <1>1 DEF MemInv, Lines, Cached
<1>4. Shadowed'
  BY <1>1, <1>2 DEF MemInv, Shadowed, Ready
<1> QED BY <1>1, <1>3, <1>4 DEF MemInv

(* A line put in, or dropped because its key is there. *)
LEMMA LinePut ==
  ASSUME MemInv, NEW k \in Nat, NEW line, DOMAIN line = 0 .. LINE_UNITS - 1, b_insert(k, line)
  PROVE  /\ SoundTree(nodes', root', DOMAIN (atoms'))
         /\ Lines'
         /\ DOMAIN atoms \subseteq DOMAIN (atoms')
<1>1. SoundTree(nodes, root, DOMAIN atoms) /\ Lines
  BY DEF MemInv
<1>2. k \in Int
  OBVIOUS
<1>3. /\ SoundTree(nodes', root', DOMAIN (atoms'))
      /\ k \in DOMAIN atoms => UNCHANGED treevars
      /\ k \notin DOMAIN atoms =>
              atoms' = [i \in DOMAIN atoms \cup {k} |-> IF i = k THEN line ELSE atoms[i]]
  BY <1>1, <1>2, InsertDone
<1>4. CASE k \in DOMAIN atoms
  <2>1. atoms' = atoms  BY <1>3, <1>4 DEF treevars
  <2> QED BY <2>1, <1>1, <1>3 DEF Lines
<1>5. CASE k \notin DOMAIN atoms
  <2>1. DOMAIN (atoms') = DOMAIN atoms \cup {k}
        /\ \A i \in DOMAIN atoms \cup {k} : atoms'[i] = IF i = k THEN line ELSE atoms[i]
    BY <1>3, <1>5
  <2> QED BY <2>1, <1>1, <1>3 DEF Lines
<1> QED BY <1>4, <1>5

(* read_mem leaves the tree alone or puts a line in. *)
LEMMA LoadStep ==
  ASSUME MemInv, read_mem
  PROVE  MemInv'
<1>1. /\ LoadNext(image) /\ input' = input /\ UNCHANGED <<last_addr, data>>
      /\ shadow' = IF next' = 0 THEN [a \in DOMAIN shadow |-> Memory(a)] ELSE shadow
  BY DEF read_mem, gfvars, cachevars, LoadNext, ReadAddress, ReadData, ReadZeroBytes, EndOfImage
<1>2. /\ input \in Inputs /\ SoundTree(nodes, root, DOMAIN atoms) /\ Lines
      /\ addr \in Nat /\ next \in Int /\ Cached /\ DOMAIN shadow \subseteq Nat
  BY DEF MemInv, Shadowed
<1>3. mask_addr(addr) \in Nat
  BY <1>2, MaskIs
<1>4. /\ SoundTree(nodes', root', DOMAIN (atoms'))
      /\ Lines'
      /\ DOMAIN atoms \subseteq DOMAIN (atoms')
      /\ addr' \in Nat /\ next' \in Int
      /\ next' = 0 => UNCHANGED treevars
  <2>1. ASSUME UNCHANGED treevars
        PROVE  /\ SoundTree(nodes', root', DOMAIN (atoms'))
               /\ Lines'
               /\ DOMAIN atoms \subseteq DOMAIN (atoms')
    BY <2>1, <1>2 DEF treevars, Lines
  <2>2. CASE ReadAddress(image)
    <3>1. addr' \in Nat /\ next' = next + 1 /\ next > 0
      BY <2>2 DEF ReadAddress, Loading
    <3>2. next' \in Int /\ next' # 0
      BY <3>1, <1>2
    <3>3. CASE cidx # 0
      <4> DEFINE line == [i \in 0 .. LINE_UNITS - 1 |-> IF i < cidx THEN cbuf[i] ELSE Unset]
      <4>1. b_insert(mask_addr(addr), line)
        BY <2>2, <3>3 DEF ReadAddress
      <4>2. DOMAIN line = 0 .. LINE_UNITS - 1
        OBVIOUS
      <4> HIDE DEF line
      <4> QED BY <4>1, <4>2, <1>3, <3>1, <3>2, LinePut
    <3>4. CASE cidx = 0
      <4>1. UNCHANGED treevars
        BY <2>2, <3>4 DEF ReadAddress
      <4> QED BY <4>1, <3>1, <3>2, <2>1
    <3> QED BY <3>3, <3>4
  <2>3. CASE ReadData(image)
    <3> DEFINE ws == image[next].words
               n == cidx + Len(ws)
               filled == [i \in DOMAIN cbuf |->
                            IF i \in cidx .. n - 1 THEN ws[i - cidx + 1] ELSE cbuf[i]]
               line == [i \in 0 .. LINE_UNITS - 1 |-> filled[i]]
    <3>1. next' = next + 1 /\ next > 0
      BY <2>3 DEF ReadData, Loading
    <3>2. next' \in Int /\ next' # 0
      BY <3>1, <1>2
    <3>3. CASE Full(n)
      <4>1. b_insert(mask_addr(addr), line) /\ addr' = addr + LINE_UNITS
        BY <2>3, <3>3 DEF ReadData
      <4>2. DOMAIN line = 0 .. LINE_UNITS - 1
        OBVIOUS
      <4>3. addr' \in Nat
        BY <4>1, <1>2 DEF LINE_UNITS
      <4> HIDE DEF line
      <4> QED BY <4>1, <4>2, <4>3, <1>3, <3>2, LinePut
    <3>4. CASE ~Full(n)
      <4>1. UNCHANGED <<addr, treevars>>
        BY <2>3, <3>4 DEF ReadData
      <4> QED BY <4>1, <3>2, <1>2, <2>1
    <3> QED BY <3>3, <3>4
  <2>4. CASE ReadZeroBytes(image)
    <3>1. UNCHANGED <<addr, treevars>> /\ next' = next + 1 /\ next > 0
      BY <2>4 DEF ReadZeroBytes, Loading
    <3> QED BY <3>1, <1>2, <2>1
  <2>5. CASE EndOfImage(image)
    <3>1. UNCHANGED <<addr, treevars>> /\ next' = 0
      BY <2>5 DEF EndOfImage
    <3> QED BY <3>1, <1>2, <2>1
  <2> QED BY <1>1, <2>2, <2>3, <2>4, <2>5 DEF LoadNext
<1>5. Cached'
  BY <1>1, <1>2, <1>4 DEF Cached
<1>6. Shadowed'
  <2>1. CASE next' = 0
    <3>1. nodes' = nodes /\ root' = root /\ atoms' = atoms
      BY <2>1, <1>4 DEF treevars
    <3>2. shadow' = [a \in DOMAIN shadow |-> Memory(a)]
      BY <2>1, <1>1
    <3>3. \A a \in DOMAIN shadow : Memory(a) = Stored(a)
      BY <1>2, StoredIs
    <3>4. \A a : Stored(a)' = Stored(a)
      BY <3>1 DEF Stored, mask_addr
    <3>5. DOMAIN (shadow') = DOMAIN shadow /\ \A a \in DOMAIN shadow : shadow'[a] = Memory(a)
      BY <3>2
    <3> QED BY <3>3, <3>4, <3>5, <1>2 DEF Shadowed
  <2>2. CASE next' # 0
    BY <2>2, <1>1, <1>2 DEF Shadowed, Ready
  <2> QED BY <2>1, <2>2
<1> QED BY <1>1, <1>2, <1>4, <1>5, <1>6 DEF MemInv

(* A read caches the line it finds and changes nothing else. *)
LEMMA ReadStep ==
  ASSUME MemInv, SimRead
  PROVE  MemInv'
<1>1. PICK a \in input.probes : read_64b_call(a)
  BY DEF SimRead
<1>2. shadow' = shadow /\ input' = input
  BY DEF SimRead, gfvars
<1>3. /\ input \in Inputs /\ SoundTree(nodes, root, DOMAIN atoms) /\ Lines
      /\ addr \in Nat /\ next \in Int /\ Cached /\ Shadowed
  BY DEF MemInv
<1>4. a \in Nat
  BY <1>1, <1>3, ProbesAssumption
<1>5. mask_addr(a) \in Int
  BY <1>4, MaskIs
<1>6. b_Find(mask_addr(a)) <=> mask_addr(a) \in DOMAIN atoms
  BY <1>3, <1>5, FoundIs DEF Found
<1>7. Ready /\ addr' = addr /\ nodes' = nodes /\ root' = root /\ atoms' = atoms
  BY <1>1 DEF read_64b_call, treevars
<1>8. next' = next \/ next' = NULL
  BY <1>1 DEF read_64b_call
<1>9. UNCHANGED cachevars \/ (last_addr' = mask_addr(a) /\ data' = mask_addr(a)
                                /\ mask_addr(a) \in DOMAIN atoms)
  BY <1>1, <1>6 DEF read_64b_call
<1>10. Cached'
  BY <1>3, <1>7, <1>9 DEF Cached, cachevars
<1>11. \A b : Stored(b)' = Stored(b)
  BY <1>7 DEF Stored, mask_addr
<1>12. Shadowed'
  BY <1>2, <1>3, <1>7, <1>11 DEF Shadowed
<1>13. next' \in Int
  BY <1>3, <1>8 DEF NULL
<1>14. Lines'
  BY <1>3, <1>7 DEF Lines
<1> QED BY <1>2, <1>3, <1>7, <1>10, <1>12, <1>13, <1>14 DEF MemInv

(* Where an address is stored after a write to address a: the line of a    *)
(* holds v at its offset, and what was there everywhere else.              *)
Wrote(a, v) ==
  \A b \in Nat : Stored(b)' = IF mask_addr(b) = mask_addr(a) /\ b % LINE_UNITS = a % LINE_UNITS
                              THEN v ELSE Stored(b)

(* A write to a line that is there. *)
LEMMA WriteHit ==
  ASSUME MemInv, NEW a \in Nat, NEW v, write_64b_call(a, v), mask_addr(a) \in DOMAIN atoms
  PROVE  /\ SoundTree(nodes', root', DOMAIN (atoms'))
         /\ Lines' /\ Cached' /\ Wrote(a, v)
<1> DEFINE k == mask_addr(a)
           o == a % LINE_UNITS
<1>1. SoundTree(nodes, root, DOMAIN atoms) /\ Lines
  BY DEF MemInv
<1>2. k \in Int /\ o \in 0 .. LINE_UNITS - 1
  BY MaskIs
<1>3. b_Find(k)
  BY <1>1, <1>2, FoundIs DEF Found
<1>4. /\ atoms' = [atoms EXCEPT ![k][o] = v]
      /\ last_addr' = k /\ data' = k /\ nodes' = nodes /\ root' = root
  BY <1>3 DEF write_64b_call
<1>5. \A b : mask_addr(b)' = mask_addr(b)
  BY DEF mask_addr
<1> HIDE DEF k, o
<1>6. k \in DOMAIN atoms /\ DOMAIN atoms[k] = 0 .. LINE_UNITS - 1
  BY <1>1 DEF k, Lines
<1>7. /\ DOMAIN (atoms') = DOMAIN atoms
      /\ \A i \in DOMAIN atoms : i # k => atoms'[i] = atoms[i]
      /\ atoms'[k] = [atoms[k] EXCEPT ![o] = v]
  BY <1>4, <1>6
<1>8. /\ DOMAIN (atoms'[k]) = 0 .. LINE_UNITS - 1
      /\ \A i \in 0 .. LINE_UNITS - 1 : atoms'[k][i] = IF i = o THEN v ELSE atoms[k][i]
  BY <1>6, <1>7
<1>9. Lines'
  BY <1>1, <1>7, <1>8 DEF Lines
<1>10. Cached'
  BY <1>4, <1>6, <1>7 DEF Cached
<1>11. ASSUME NEW b \in Nat
       PROVE  Stored(b)' = IF mask_addr(b) = k /\ b % LINE_UNITS = o THEN v ELSE Stored(b)
  <2>1. b % LINE_UNITS \in 0 .. LINE_UNITS - 1
    BY MaskIs
  <2>2. Stored(b)' = IF mask_addr(b) \in DOMAIN (atoms')
                     THEN atoms'[mask_addr(b)][b % LINE_UNITS] ELSE 0
    BY <1>5 DEF Stored
  <2>3. CASE mask_addr(b) = k
    BY <2>1, <2>2, <2>3, <1>6, <1>7, <1>8 DEF Stored
  <2>4. CASE mask_addr(b) # k
    BY <2>2, <2>4, <1>7 DEF Stored
  <2> QED BY <2>3, <2>4
<1>12. Wrote(a, v)
  BY <1>11 DEF Wrote, k, o
<1>13. SoundTree(nodes', root', DOMAIN (atoms'))
  BY <1>1, <1>4, <1>7
<1> QED BY <1>9, <1>10, <1>12, <1>13

(* A write to a line that is not there inserts it. *)
LEMMA WriteMiss ==
  ASSUME MemInv, NEW a \in Nat, NEW v, write_64b_call(a, v), mask_addr(a) \notin DOMAIN atoms
  PROVE  /\ SoundTree(nodes', root', DOMAIN (atoms'))
         /\ Lines' /\ Cached' /\ Wrote(a, v)
<1> DEFINE k == mask_addr(a)
           o == a % LINE_UNITS
           line == [i \in 0 .. LINE_UNITS - 1 |-> IF i = o THEN v ELSE 0]
<1>1. SoundTree(nodes, root, DOMAIN atoms) /\ Lines /\ Cached
  BY DEF MemInv
<1>2. k \in Nat /\ k \in Int /\ o \in 0 .. LINE_UNITS - 1
  BY MaskIs
<1>3. ~b_Find(k)
  BY <1>1, <1>2, FoundIs DEF Found
<1>4. /\ b_insert(k, line)
      /\ last_addr' = IF last_addr = k THEN 0 ELSE last_addr
      /\ data' = data
  BY <1>3 DEF write_64b_call
<1>5. \A b : mask_addr(b)' = mask_addr(b)
  BY DEF mask_addr
<1>6. /\ DOMAIN line = 0 .. LINE_UNITS - 1
      /\ \A i \in 0 .. LINE_UNITS - 1 : line[i] = IF i = o THEN v ELSE 0
  OBVIOUS
<1>7. k \notin DOMAIN atoms
  OBVIOUS
<1> HIDE DEF k, o, line
<1>8. SoundTree(nodes', root', DOMAIN (atoms')) /\ Lines' /\ DOMAIN atoms \subseteq DOMAIN (atoms')
  BY <1>2, <1>4, <1>6, LinePut
<1>9. atoms' = [i \in DOMAIN atoms \cup {k} |-> IF i = k THEN line ELSE atoms[i]]
  BY <1>1, <1>2, <1>4, <1>7, InsertDone
<1>10. /\ DOMAIN (atoms') = DOMAIN atoms \cup {k}
       /\ atoms'[k] = line
       /\ \A i \in DOMAIN atoms : atoms'[i] = atoms[i]
  BY <1>7, <1>9
<1>11. Cached'
  BY <1>1, <1>4, <1>7, <1>8 DEF Cached
<1>12. ASSUME NEW b \in Nat
       PROVE  Stored(b)' = IF mask_addr(b) = k /\ b % LINE_UNITS = o THEN v ELSE Stored(b)
  <2>1. b % LINE_UNITS \in 0 .. LINE_UNITS - 1
    BY MaskIs
  <2>2. Stored(b)' = IF mask_addr(b) \in DOMAIN (atoms')
                     THEN atoms'[mask_addr(b)][b % LINE_UNITS] ELSE 0
    BY <1>5 DEF Stored
  <2>3. CASE mask_addr(b) = k
    BY <2>1, <2>2, <2>3, <1>6, <1>7, <1>10 DEF Stored
  <2>4. CASE mask_addr(b) # k
    <3>1. mask_addr(b) \in DOMAIN (atoms') <=> mask_addr(b) \in DOMAIN atoms
      BY <2>4, <1>10
    <3> QED BY <3>1, <2>2, <2>4, <1>10 DEF Stored
  <2> QED BY <2>3, <2>4
<1>13. Wrote(a, v)
  BY <1>12 DEF Wrote, k, o
<1> QED BY <1>8, <1>11, <1>13

(* A write changes the word at its address and no other. *)
LEMMA WriteStep ==
  ASSUME MemInv, SimWrite
  PROVE  MemInv'
<1>1. PICK a \in input.probes, v \in WriteVals :
        /\ write_64b_call(a, v)
        /\ shadow' = [b \in DOMAIN shadow |->
                        IF b % MEM_SPACE = a % MEM_SPACE THEN v ELSE shadow[b]]
  BY DEF SimWrite
<1>2. input' = input
  BY DEF SimWrite, gfvars
<1>3. input \in Inputs /\ addr \in Nat /\ next \in Int /\ Shadowed
  BY DEF MemInv
<1>4. a \in Nat
  BY <1>1, <1>3, ProbesAssumption
<1>5. Ready /\ addr' = addr /\ next' = next
  BY <1>1 DEF write_64b_call, loadvars
<1>6. /\ SoundTree(nodes', root', DOMAIN (atoms'))
      /\ Lines' /\ Cached' /\ Wrote(a, v)
  <2>1. CASE mask_addr(a) \in DOMAIN atoms
    BY <2>1, <1>1, <1>4, WriteHit
  <2>2. CASE mask_addr(a) \notin DOMAIN atoms
    BY <2>2, <1>1, <1>4, WriteMiss
  <2> QED BY <2>1, <2>2
<1>7. /\ DOMAIN (shadow') = DOMAIN shadow /\ DOMAIN shadow \subseteq Nat
      /\ \A b \in DOMAIN shadow :
           shadow'[b] = IF b % MEM_SPACE = a % MEM_SPACE THEN v ELSE shadow[b]
  BY <1>1, <1>3 DEF Shadowed
<1>8. ASSUME NEW b \in DOMAIN shadow
      PROVE  shadow'[b] = Stored(b)'
  <2>1. b \in Nat  BY <1>7
  <2>2. b % MEM_SPACE = a % MEM_SPACE <=>
          mask_addr(b) = mask_addr(a) /\ b % LINE_UNITS = a % LINE_UNITS
    BY <2>1, <1>4, MaskSame
  <2>3. shadow[b] = Stored(b)
    BY <1>3, <1>5 DEF Shadowed
  <2>4. Stored(b)' = IF mask_addr(b) = mask_addr(a) /\ b % LINE_UNITS = a % LINE_UNITS
                     THEN v ELSE Stored(b)
    BY <2>1, <1>6 DEF Wrote
  <2> QED BY <2>2, <2>3, <2>4, <1>7
<1>9. Shadowed'
  BY <1>7, <1>8 DEF Shadowed
<1> QED BY <1>2, <1>3, <1>5, <1>6, <1>9 DEF MemInv

(* Every step keeps the memory sound. *)
LEMMA MemStep ==
  ASSUME MemInv, [Next]_vars
  PROVE  MemInv'
<1>1. CASE main
  <2>1. UNCHANGED memvars /\ shadow' = shadow /\ input' = input
    BY <1>1 DEF main, simvars
  <2> QED BY <2>1, MemRests
<1>2. CASE Split
  <2>1. UNCHANGED memvars /\ shadow' = shadow /\ input' = input
    BY <1>2 DEF Split, simvars, gfvars
  <2> QED BY <2>1, MemRests
<1>3. CASE GenerateImage
  <2>1. GfNext /\ UNCHANGED memvars /\ shadow' = shadow
    BY <1>3 DEF GenerateImage, simvars
  <2>2. input' = input
    BY <2>1, InputKept
  <2> QED BY <2>1, <2>2, MemRests
<1>4. CASE read_mem  BY <1>4, LoadStep
<1>5. CASE SimRead  BY <1>5, ReadStep
<1>6. CASE SimWrite  BY <1>6, WriteStep
<1>7. CASE UNCHANGED vars
  <2>1. UNCHANGED memvars /\ shadow' = shadow /\ input' = input
    BY <1>7 DEF vars, simvars, gfvars
  <2> QED BY <2>1, MemRests
<1> QED BY <1>1, <1>2, <1>3, <1>4, <1>5, <1>6, <1>7 DEF Next

(* The inductive invariant of the memory, for images of any length, any    *)
(* probes and any accesses: the B-tree is sound and its keys are those of  *)
(* the lines (b_insert, b_addData, b_Find), a cached line is the one       *)
(* last_addr names (read_64b_call, write_64b_call), and once the image is  *)
(* read memory holds what the run should see of it.                        *)
THEOREM MemoryInvariant == Spec => []MemInv
<1>1. Init => MemInv
  BY MemStart
<1>2. MemInv /\ [Next]_vars => MemInv'
  BY MemStep
<1> QED BY <1>1, <1>2, PTL DEF Spec

(* The B-tree stays one through any sequence of insertions and splits: all *)
(* leaves are equally deep, no node is over-full, none but the root less   *)
(* than half full, and the keys are in order, each once, those of the      *)
(* lines that were inserted (b_insert, b_recursiveInsert, b_addData).      *)
THEOREM TreeStaysSound == Spec => []TreeSound
<1>1. MemInv => TreeSound
  BY TreeSoundIs DEF MemInv
<1> QED BY <1>1, MemoryInvariant, PTL

(* What the one-line cache returns is what memory holds. *)
LEMMA MemReads ==
  ASSUME MemInv
  PROVE  ReadsLastWrite
<1> SUFFICES ASSUME Ready, NEW a \in DOMAIN shadow, ~NullRead(a)
             PROVE  Reads(a) = shadow[a]
  BY DEF ReadsLastWrite
<1>1. /\ SoundTree(nodes, root, DOMAIN atoms) /\ Cached
      /\ a \in Nat /\ shadow[a] = Stored(a)
  BY DEF MemInv, Shadowed
<1>2. Memory(a) = Stored(a)
  BY <1>1, StoredIs
<1>3. CASE last_addr = mask_addr(a)
  <2>1. data = mask_addr(a) /\ data \in DOMAIN atoms
    BY <1>1, <1>3 DEF NullRead, Cached
  <2>2. Reads(a) = atoms[data][a % LINE_UNITS]
    BY <1>3 DEF Reads
  <2> QED BY <1>1, <2>1, <2>2 DEF Stored
<1>4. CASE last_addr # mask_addr(a)
  BY <1>1, <1>2, <1>4 DEF Reads
<1> QED BY <1>3, <1>4

(* A read returns what was last written to its address, or what was loaded *)
(* there, whatever the one-line cache holds, but for a first access to     *)
(* line 0, which finds no line at all (read_64b_call, write_64b_call).     *)
THEOREM ReadsFindLastWrite == Spec => []ReadsLastWrite
<1>1. MemInv => ReadsLastWrite
  BY MemReads
<1> QED BY <1>1, MemoryInvariant, PTL
================================================================================
